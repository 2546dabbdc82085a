CONSTANTS
  Rounds <- MCRounds
  Window = 5
  Tools = {t1, t2}
  CallsPerReply = 2
SPECIFICATION Spec
INVARIANTS
  TypeOK
  HandsBackUntouched
  PromptWhole
  HonestReply
PROPERTIES
  KeepsStream
  DelegatedIsAnswered
CHECK_DEADLOCK FALSE
