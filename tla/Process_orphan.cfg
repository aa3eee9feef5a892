SPECIFICATION Spec
CONSTANTS
  Workers = 2
  MaxPids = 3
  MaxDeaths = 1
  MaxSignals = 1
  Fails = FALSE
  Terminal = {}
INVARIANTS
  WorkersDieAnyway
CHECK_DEADLOCK FALSE
