\* Numbers of twelve values and a window of a quarter of them, as in the code.
SPECIFICATION ReplaySpec
CONSTANTS
  Modulus = 12
  Window = 3
  Packets = 14
  Firsts = {0, 3, 11}
  OrderedStart = TRUE
INVARIANTS   FreshIsAccepted
CHECK_DEADLOCK FALSE
