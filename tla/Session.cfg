SPECIFICATION Spec
CONSTANTS
  Modes = {"thread", "proc"}
  Total = 6
  PacketLen = 2
  ChunkSizes = {1, 2}
  Timeouts = 1
INVARIANTS
  TypeOK
  InOrder
  MessageMatchesState
PROPERTIES
  PacketIsTaken
CHECK_DEADLOCK FALSE
