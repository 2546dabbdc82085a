SPECIFICATION Spec
CONSTANTS
  MaxToolIterations = 2
  MaxToolCalls = 2
  MaxCompletionTokens = 3
  MaxPromptTokens = 10
  Window = 5
  HistoryLengths <- MCHistory
  SystemSizes <- MCSystem
  Sizes <- MCSizes
  CallsPerReply = 2
  EmptyReplies = TRUE
  ReportsUsage = FALSE
  MayFail = TRUE
  StraysCalls = TRUE
CHECK_DEADLOCK FALSE
INVARIANTS TypeOK RequestBounded CompletionBudgetKept QuestionKept PairingKept SavedAsShown
PROPERTY Implements
