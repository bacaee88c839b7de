SPECIFICATION Spec
CONSTANTS
  Scenarios <- FourScenarios
  Devices = {"d"}
  Passwords = {"p"}
  Tasks = {t1, t2}
  Admins = {a}
  ReadTimesOut = FALSE
SYMMETRY TaskSymmetry
CHECK_DEADLOCK FALSE
INVARIANTS RoutesAreLive   RevokedIsCut
