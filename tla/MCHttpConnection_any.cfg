SPECIFICATION Spec
CONSTANTS
  Requests <- AnyRequests
  Sessions <- AnySessions
  FileSize = 3
  BufSize = 4
  MaxHeaders = 2
  WordSize = 16
  IntMax = 5
  Splits = TRUE
  Pipelining = TRUE
INVARIANTS
  FilesClosed
  ReadsSomething
  AnswersInOrder
  LengthHonoured
CHECK_DEADLOCK FALSE
