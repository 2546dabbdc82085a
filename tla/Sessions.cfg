CONSTANTS
  Chats = {chat}
  Others = {other}
  Purger = purger
  Earlier = earlier
  Stored = 1
  Users = {u1, u2}
  None = none
  MaxIdle = 2
  MaxFaults = 1
SPECIFICATION Spec
SYMMETRY Symmetry
INVARIANTS
  TypeOK
  OwnSessionsOnly
  OneConnectionNoOrphans
PROPERTIES
  PurgeSparesActive
  Implements
CHECK_DEADLOCK FALSE
