SPECIFICATION FairSpec
CONSTANTS
  p1 = p1
  p2 = p2
  io = io
  nothread = nothread
  dm = dm
  NoConn = NoConn
  Out = outd
  Daemon = dm
  NoThread = nothread
  Conns = {c1, c2}
  Limit = 3
  Fds = {1, 2}
  ProcThreads = {p1, p2}
  IoDaemons = {io}
  ProcOf <- TwoProcs
  InOf <- OneIo
  UseOut = TRUE
  Users = {u1}
  Adders = {a1}
  PoolMax = 1
  MaxLife = 2
  MaxQueue = 0
INVARIANTS
  TypeOK
  PoolIsIdle
  FdHasOneOwner
  TableHoldsUsed
  RemovalIsCurrent
PROPERTIES
  FdClosedLast
  RemovalEnds
CHECK_DEADLOCK FALSE
