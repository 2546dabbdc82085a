CONSTANTS
  Chats = {chat}
  Others = {other}
  Purger = purger
  Earlier = earlier
  Stored = 1
  Users = {u1, u2}
  None = none
  MaxIdle = 2
  MaxFaults = 0
SPECIFICATION Spec
SYMMETRY Symmetry
INVARIANT NoOrphans
CHECK_DEADLOCK FALSE
