SPECIFICATION Spec
CONSTANTS
  Requests <- RangeThenWhole
  Sessions <- RangeThenWholeSessions
  FileSize = 3
  BufSize = 4
  MaxHeaders = 3
  WordSize = 16
  IntMax = 7
  Splits = FALSE
  Pipelining = FALSE
INVARIANT
  AssertionHolds
CHECK_DEADLOCK FALSE
