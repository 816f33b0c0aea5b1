SPECIFICATION AgentSpec
CONSTANTS
  Sessions = {"s1"}
  Callers = {cli}
  Actions = {"glob"}
  NoAction = NoAction
  Ids = {"glob"}
  Runs = {"r1"}
  NoRun = NoRun
  Resources = {"*", "note"}
  ActionId <- MCActionId
  SessionOf <- MCSessionOf
  RunOf <- MCRunOf
  RunSession <- MCRunSession
  Risk <- MCRisk
  Operation <- MCOperation
  Resource <- MCResource
  GlobMatch <- MCGlobMatch
  Faults = {"crash"}
  MaxEffects = 2
  SessionTTL = 2
  ApprovalTTL = 1
  MaxTime = 1
PROPERTIES CompletedEffectNotRepeated
CHECK_DEADLOCK FALSE
