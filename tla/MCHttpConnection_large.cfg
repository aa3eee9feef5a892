SPECIFICATION Spec
CONSTANTS
  Requests <- OpenRange
  Sessions <- OpenRangeSessions
  FileSize = 5
  BufSize = 4
  MaxHeaders = 3
  WordSize = 16
  IntMax = 3
  Splits = FALSE
  Pipelining = FALSE
INVARIANT
  RangeLengthRight
CHECK_DEADLOCK FALSE
