SPECIFICATION FairSpec
CONSTANTS
  Modes = {"evbase", "cond", "evsig"}
  Users = {u1, u2}
  MaxPush = 3
INVARIANTS
  NoLostWakeup
  FlagMeansArmed
PROPERTIES
  KeepsMailbox
  SafeMailbox
CHECK_DEADLOCK FALSE
