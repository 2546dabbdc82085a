SPECIFICATION Spec
CONSTANTS
  MaxToolIterations = 2
  MaxToolCalls = 2
  MaxCompletionTokens = 3
  MaxPromptTokens = 10
  Window = 5
  HistoryLengths <- MCHistory
  SystemSizes <- MCSystem
  Sizes <- MCSizes
  CallsPerReply = 2
  EmptyReplies = FALSE
  ReportsUsage = TRUE
  MayFail = FALSE
  StraysCalls = FALSE
CHECK_DEADLOCK FALSE
INVARIANT TrimsHistoryOnly
