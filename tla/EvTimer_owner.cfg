SPECIFICATION Spec
CONSTANTS
  Nodes = 3
  Conns = {c1, c2}
  Service = service
  Heartbeat = 1
  NoConn = none
  Timeouts = {1, 3}
  MaxTime = 3
PROPERTY TimerKeepsItsConn
