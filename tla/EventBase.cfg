SPECIFICATION Spec
CONSTANTS
  Backends = {"epoll", "poll", "select"}
  Events = {e1, e2}
  NoEvent = NoEvent
  Fds = {1, 2}
  Others = {u1}
  Readings = {{}, {"read", "write"}, {"hup"}}
  Masks = {{}, {"read"}}
  Options = {{}, {"persist", "lock"}}
  Changes = {{"write"}}
  MaxCalls = 3
INVARIANTS
  Coherent
  CallsAreCurrent
PROPERTIES
  ReadyIsServed
CHECK_DEADLOCK FALSE
