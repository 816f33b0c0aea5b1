SPECIFICATION AgentSpec
CONSTANTS
  Sessions = {"s1"}
  Callers = {cli}
  Actions = {"glob", "risky"}
  NoAction = NoAction
  Ids = {"glob", "risky"}
  Runs = {"r1"}
  NoRun = NoRun
  Resources = {"*", "note"}
  ActionId <- MCActionId
  SessionOf <- MCSessionOf
  RunOf <- MCRunOf
  RunSession <- MCRunSession
  Risk <- MCRisk
  Operation <- MCOperation
  Resource <- MCResource
  GlobMatch <- MCGlobMatch
  Faults = {"crash", "error", "cancel"}
  MaxEffects = 2
  SessionTTL = 2
  ApprovalTTL = 1
  MaxTime = 2
INVARIANTS AgentTypeOK EffectsAuthorized ClaimsHaveReceipts AnsweredRunsHaveEnded
PROPERTIES ResolutionIsFinal ImplementsLifecycle NoEffectAfterDenial OutcomeIsFinal
CHECK_DEADLOCK FALSE
