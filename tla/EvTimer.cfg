SPECIFICATION Spec
CONSTANTS
  Nodes = 3
  Conns = {c1, c2}
  Service = service
  NoConn = none
  Timeouts = {1, 2}
  Heartbeat = 1
  MaxTime = 3
INVARIANTS
  TypeOK
  ListIsSorted
  NodesAccounted
  TimersAreHeld
  HeartbeatGoesOn
PROPERTY TimeoutArrives
