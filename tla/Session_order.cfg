SPECIFICATION Spec
CONSTANTS
  Modes = {"thread"}
  Total = 4
  PacketLen = 1
  ChunkSizes = {1}
  Timeouts = 0
INVARIANTS
  InOrderAlways
CHECK_DEADLOCK FALSE
