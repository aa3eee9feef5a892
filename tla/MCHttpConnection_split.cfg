SPECIFICATION Spec
CONSTANTS
  Requests <- WholeRequests
  Sessions <- WholeSessions
  FileSize = 2
  BufSize = 4
  MaxHeaders = 3
  WordSize = 16
  IntMax = 7
  Splits = TRUE
  Pipelining = FALSE
INVARIANT
  WellFormedServed
CHECK_DEADLOCK FALSE
