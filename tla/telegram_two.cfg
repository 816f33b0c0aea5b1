SPECIFICATION TelegramSpec
CONSTANTS
  Bots = {b1, b2}
  Chatters = {alice, bob}
  Allowed = {alice, bob}
  SendFails = FALSE
  SessionTTL = 1
  ApprovalTTL = 1
  MaxTime = 0
  MaxUpdates = 3
  StartLimit = 1
  MaxCrashes = 0
INVARIANTS PromptsRunOnce ResumesWerePressed TokensAreUsedOnce ConversationsAreSeparate
SYMMETRY TelegramSymmetry
CHECK_DEADLOCK FALSE
