SPECIFICATION FairTelegramSpec
CONSTANTS
  Bots = {b1}
  Chatters = {alice, bob}
  Allowed = {alice}
  SendFails = TRUE
  SessionTTL = 1
  ApprovalTTL = 1
  MaxTime = 1
  MaxUpdates = 2
  StartLimit = 3
  MaxCrashes = 2
INVARIANTS TelegramTypeOK PromptsRunOnce ConfirmedWereClaimed
PROPERTIES EveryUpdateIsClaimed
CHECK_DEADLOCK FALSE
