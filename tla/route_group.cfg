SPECIFICATION RouteSpec
CONSTANTS
  Callers = {bot}
  Route <- GroupFirst
  CorrectiveRetries = 1
INVARIANTS ProviderFailuresFallBack
CHECK_DEADLOCK FALSE
