SPECIFICATION Spec
CONSTANTS
  main = main
  handler = handler
  Callers <- MCCallers
  Main = main
  MaxCalls = 4
  PipeSize = 1
  SSECalls = 3
  OutSize = 1
  MayRepeat = TRUE
  MayOverflow = TRUE
  MayHang = TRUE
CHECK_DEADLOCK FALSE
INVARIANTS TypeOK TableIsInFlight
PROPERTIES OwnAnswer CallsReturnUnlessHung
