SPECIFICATION Spec
CONSTANTS
  Workers = {1, 2, 3}
  None = None
  Scenarios <- MCScenarios
INVARIANT OncePerCommand
PROPERTY MissingIsRepaired
CHECK_DEADLOCK FALSE
