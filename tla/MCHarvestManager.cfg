\* One stored harvester, run once, and one that is added and whose schedule never
\* fires; every operation, two requests and a firing, and two crashes.
SPECIFICATION ManagerFairSpec
CONSTANTS
  h1 = h1  h2 = h2
  r1 = r1  r2 = r2
  f1 = f1  f2 = f2
  x1 = x1
  NoThread = NoThread
  NoHarvester = NoHarvester
  Harvesters <- TwoHarvesters
  Existing = {h1}
  Requests <- TwoRequests
  Firings <- OneFiring
  Records <- OneRecord
  Methods <- AllMethods
  Operations <- AllOperations
  StopStatuses = {"active", "inactive"}
  OneRunOnly = {h1}
  NeverFires = {h2}
  PoolSize = 2
  MaxCrashes = 2
INVARIANTS ManagerTypeOK RegistryAgrees RemovedIsClean ManagedScheduledIsActive
PROPERTIES RestartRestores OperationsReturn
