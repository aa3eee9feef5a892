SPECIFICATION FairSpec
CONSTANTS
  Workers = 2
  Daemon = TRUE
  FdLists <- SampleFds
  MaxGens = 3
  MaxReloads = 2
  MaxDeaths = 1
  Fails = TRUE
INVARIANTS
  SocketsHandedOn
  ServiceKept
  StopsAreMeant
  FilesNameTheLiving
PROPERTIES
  Reachable
  UpgradeHeard
  EverySocketServed
CHECK_DEADLOCK FALSE
