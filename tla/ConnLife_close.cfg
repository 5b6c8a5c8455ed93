SPECIFICATION FairSpec
CONSTANTS
  p1 = p1
  p2 = p2
  io = io
  nothread = nothread
  dm = dm
  NoConn = NoConn
  Out = outd
  Daemon = dm
  NoThread = nothread
  Conns = {c1}
  Limit = 3
  Fds = {1}
  ProcThreads = {p1}
  IoDaemons = {io}
  ProcOf <- OneProc
  InOf <- OneIo
  UseOut = FALSE
  Users = {u1}
  Adders = {a1}
  PoolMax = 2
  MaxLife = 1
  MaxQueue = 1
PROPERTIES
  ClosedIsRemoved
CHECK_DEADLOCK FALSE
