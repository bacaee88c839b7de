SPECIFICATION Spec
CONSTANTS
  None = None
  Groups = 2 GroupsPerCred = 2 MaxHashes = 2 Cap = 2
  Scenarios <- MCScenarios
  
PROPERTIES PoolSpec StopEnds
CHECK_DEADLOCK FALSE
