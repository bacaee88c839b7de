SPECIFICATION MCSpec
CONSTANTS
  Profiles = {"p", "q"}
  TPROXY_START_ATTEMPTS = 2
  RuntimeIds <- MCRuntimeIds
  Limits <- MCLimits
  DEVICE_SESSION_LIMIT = 2
  DEVICE_FLOOR = 1
  NORMAL_BUFFER_LIMITS <- MCBuffers
  JUMBO_BUFFER_LIMITS <- MCBuffers
  ASSOCIATION_POOL_TARGET = 1
  MAX_CONCURRENT_OPENINGS = 1
  OPENING_PENDING_LIMIT = 2
  OPENING_BUFFER_LIMIT = 2
  Ips <- MCIps
  Sockets <- MCSockets
INVARIANTS  CountersAreLeases
PROPERTY RulesComeBack
CHECK_DEADLOCK FALSE
