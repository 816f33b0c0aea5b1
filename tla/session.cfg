SPECIFICATION SessionSpec
CONSTANTS
  Processes = {bot, cli}
  Runs = {"r1", "r2"}
  NoRun = NoRun
  Workspaces = {"w1", "w2"}
  Repositories = {"w1"}
  NoWorkspace = NoWorkspace
  PromptSize <- MCPromptSize
  Earlier = {}
  ReplySizes = {0, 1}
  Limits <- MCLimits
  MaxMessages = 4
CONSTRAINT SessionBound
SYMMETRY SessionSymmetry
INVARIANTS SessionTypeOK HistoryIsNewestSuffix ShownTurnsWereAnswered RepositoriesStay
PROPERTIES ClearedIsForgotten ResultsStayWhereTheyRan
CHECK_DEADLOCK FALSE
