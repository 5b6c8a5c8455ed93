SPECIFICATION Spec
CONSTANTS
  Conns = {c1, c2}
  NoConn = NoConn
  Users = {u1}
  NProc = 1
  OutModes = {TRUE, FALSE}
  Late = {"proc"}
  PoolMax = 1
  MaxCalls = 2
INVARIANTS
  TypeOK
  
  RemovalIsOnce
PROPERTIES
  StopEnds
CHECK_DEADLOCK FALSE
