SPECIFICATION TelegramSpec
CONSTANTS
  Bots = {b1}
  Chatters = {alice}
  Allowed = {alice}
  SendFails = TRUE
  SessionTTL = 1
  ApprovalTTL = 1
  MaxTime = 1
  MaxUpdates = 2
  StartLimit = 1
  MaxCrashes = 0
INVARIANTS ConsumedIsResumedOrReported
CHECK_DEADLOCK FALSE
