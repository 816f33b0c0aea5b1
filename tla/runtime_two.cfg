SPECIFICATION AgentSpec
CONSTANTS
  Sessions = {"s1"}
  Callers = {bot, cli}
  Actions = {"glob"}
  NoAction = NoAction
  Ids = {"glob"}
  Runs = {"r1"}
  NoRun = NoRun
  Resources = {"*", "note"}
  ActionId <- MCActionId
  SessionOf <- MCSessionOf
  RunOf <- MCRunOf
  RunSession <- MCRunSession
  Risk <- MCRisk
  Operation <- MCOperation
  Resource <- MCResource
  GlobMatch <- MCGlobMatch
  Faults = {"cancel"}
  MaxEffects = 2
  SessionTTL = 2
  ApprovalTTL = 1
  MaxTime = 1
INVARIANTS EffectsAuthorized ClaimsHaveReceipts ApprovalsAreFiled
SYMMETRY ProcessSymmetry
CHECK_DEADLOCK FALSE
