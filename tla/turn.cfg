SPECIFICATION TurnSpec
CONSTANTS
  Callers = {bot, cli}
  Turns = {bot, cli}
  Route <- MixedRoute
  CorrectiveRetries = 1
  Nobody = Nobody
  Files = {"f1", "f2"}
  Actions <- MCActions
  Sources = {"s1"}
  Foreign = "s9"
SYMMETRY TurnSymmetry
INVARIANTS TurnTypeOK EffectsMatchRisk WorkerChangesAreListed LateEffectsAreOfFailures SuccessIsBacked RaisedTurnsHadNoEffect CompletedIsVerified
PROPERTIES ImplementsRouteContract
CHECK_DEADLOCK FALSE
