SPECIFICATION FairSpec
CONSTANTS
  Workers = 2
  MaxPids = 5
  MaxDeaths = 1
  MaxSignals = 2
  Fails = TRUE
  Terminal = {"TERM"}
INVARIANTS
  TypeOK
  ShutdownComplete
  PidfileRemoved
  PidfileStands
  TableIntact
  OneWorkerPerSocket
  WaitNeverFails
PROPERTIES
  ImplementsSupervisor
  ShutdownEnds
  Replaced
CHECK_DEADLOCK FALSE
