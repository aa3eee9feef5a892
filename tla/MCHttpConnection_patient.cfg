SPECIFICATION Spec
CONSTANTS
  Requests <- PatientRequests
  Sessions <- PatientSessions
  FileSize = 4
  BufSize = 4
  MaxHeaders = 3
  WordSize = 16
  IntMax = 4
  Splits = FALSE
  Pipelining = FALSE
INVARIANTS
  NoRequestForgotten
  AssertionHolds
PROPERTIES
  ImplementsService
CHECK_DEADLOCK FALSE
