SPECIFICATION Spec
CONSTANTS
  Letters = {"a"}
  MaxLength = 8
INVARIANTS
  Correct
  OutputFits
  InsideRoot
CHECK_DEADLOCK FALSE
