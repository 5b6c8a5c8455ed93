SPECIFICATION Spec
CONSTANTS
  Conns = {c1, c2, c3}
  NoConn = NoConn
  Limit = 3
  Groups = {1}
  GroupMax = 2
  GroupLimit = 2
  ConnsLimit = 1
  OwnConns = TRUE
  MaxDrift = 0
SYMMETRY Symmetry
INVARIANTS
  TypeOK
  SlotsNameTheirConns
  FreeIsCounted
  UsedByOne
CHECK_DEADLOCK FALSE
