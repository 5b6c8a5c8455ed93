SPECIFICATION Spec
CONSTANTS
  Users = {u1, u2}
  Modes = {"daemon", "own"}
  QBlockMax = 3
  MaxSize = 2
  MaxPushes = 2
INVARIANTS
  TypeOK
  BlocksAccounted
  NothingIsLost
  QueueIsWatched
PROPERTIES
  QueueDrains
CHECK_DEADLOCK FALSE
