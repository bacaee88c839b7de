\* Every kind of sender against suspend, resume and the drop of the receiver.
SPECIFICATION ChannelSpec
CONSTANTS
  Trying = {}
  Forcing = {f}
  Awaiting = {a}
  Receiver = r
  Capacity = 2
  MaxEpoch = 2
  StartActive = FALSE
INVARIANT NoCrossSession
PROPERTY WakeIsPassedOn
CHECK_DEADLOCK FALSE
