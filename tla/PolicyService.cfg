SPECIFICATION PolicySpec
CONSTANTS
  Sessions = {"s1"}
  Callers = {bot, cli}
  Actions = {"glob", "risky", "read"}
  NoAction = NoAction
  Ids = {"glob", "risky", "read"}
  Resources = {"*", "note"}
  ActionId <- MCActionId
  SessionOf <- MCSessionOf
  Risk <- MCRisk
  Operation <- MCOperation
  Resource <- MCResource
  GlobMatch <- MCGlobMatch
  SessionTTL = 2
  ApprovalTTL = 1
  MaxTime = 2
INVARIANTS PolicyTypeOK GrantsAreBacked GrantsStayInWindow AllowIsJustified StatusIsAudited
SYMMETRY CallerSymmetry
CHECK_DEADLOCK FALSE
