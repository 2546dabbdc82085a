CONSTANTS
  MaxTurns = 2
  earlier = earlier
  Earlier <- MCEarlier
  None = None
  MaxCalls = 1
  MaxClicks = 1
  Buffer = 1
  MaxDrops = 1
SPECIFICATION Spec
INVARIANTS
  TypeOK
  ContinuesWhatItShows
  FinalIsComplete
  ThreadsAreAnswered
  NoEcho
PROPERTIES
  Settles
CHECK_DEADLOCK FALSE
