SPECIFICATION TurnSpec
CONSTANTS
  CONTROL_CAPACITY = 16
  EVENT_CAPACITY = 64
  MAX_TRANSMISSIONS = 2
  MAX_NONCE_RETRIES = 2
  MAX_CHANNEL_MAINTENANCE_FAILURES = 2
  Scenarios <- MCScenarios
INVARIANT ReleasedAtEnd
PROPERTY LossIsReported
CHECK_DEADLOCK FALSE
