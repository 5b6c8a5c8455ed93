SPECIFICATION FairSpec
CONSTANTS
  p1 = p1
  p2 = p2
  io = io
  nothread = nothread
  dm = dm
  NoConn = NoConn
  Out = outd
  Daemon = dm
  NoThread = nothread
  Conns = {c1}
  Limit = 3
  Fds = {1}
  ProcThreads = {dm}
  IoDaemons = {}
  ProcOf <- DaemonOnly
  InOf <- NoIo
  UseOut = FALSE
  Users = {u1, u2}
  Adders = {a1, a2}
  PoolMax = 1
  MaxLife = 4
  MaxQueue = 1
INVARIANTS
  OneRemoval
  TableFits
PROPERTIES
  RemovalEnds
CHECK_DEADLOCK FALSE
