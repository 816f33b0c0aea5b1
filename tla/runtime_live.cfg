SPECIFICATION FairAgentSpec
CONSTANTS
  Sessions = {"s1"}
  Callers = {cli}
  Actions = {"glob", "note"}
  NoAction = NoAction
  Ids = {"glob", "note"}
  Runs = {"r1", "r2"}
  NoRun = NoRun
  Resources = {"*", "note"}
  ActionId <- MCActionId
  SessionOf <- MCSessionOf
  RunOf <- MCRunOf
  RunSession <- MCRunSession
  Risk <- MCRisk
  Operation <- MCOperation
  Resource <- MCResource
  GlobMatch <- MCGlobMatch
  Faults = {}
  MaxEffects = 2
  SessionTTL = 2
  ApprovalTTL = 1
  MaxTime = 1
INVARIANTS AtMostOneEffect
PROPERTIES EveryRunSettles
CHECK_DEADLOCK FALSE
