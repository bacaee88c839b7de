SPECIFICATION MCSpec
CONSTANTS
  NKeys = 2
  Sessions = {1, 2, 3}
  WorkerOf <- MCWorkers
  MaxPaths = 2
  SlotRule <- MCSlotRule
  Chunk <- MCChunk
  UDP_TX_SLOTS = 2
  TUN_TX_SLOTS = 2
  FEC_TX_SLOT_RESERVE = 0
  RETAINED_MAX = 1
  BatchLimit <- MCBatch
  DOWNLINK_DRAIN_PACKET_LIMIT = 2
  TUN_RX_DRAIN_BATCH = 2
  MAX_RX_PER_PASS = 1
  COMMAND_DRAIN_LIMIT = 1
  SHUTDOWN_FLUSH_SYSCALLS = 1
  MAX_CONSECUTIVE_UDP_PASSES = 1
  TickSpacing = 2
  command_capacity = 1
  Senders = {1, 2}
INVARIANTS LaneIsSized BuffersAreKept InOrder
PROPERTY TunIsServed
CHECK_DEADLOCK FALSE
