\* remove() while a fired job waits for the monitor.
SPECIFICATION ManagerSpec
CONSTANTS
  h1 = h1  h2 = h2
  r1 = r1  r2 = r2
  f1 = f1  f2 = f2
  x1 = x1
  NoThread = NoThread
  NoHarvester = NoHarvester
  Harvesters <- OneHarvester
  Existing = {h1}
  Requests <- TwoRequests
  Firings <- OneFiring
  Records <- OneRecord
  Methods = {"start", "run"}
  Operations = {"remove"}
  StopStatuses = {"inactive"}
  OneRunOnly = {}
  NeverFires = {}
  PoolSize = 2
  MaxCrashes = 0
INVARIANTS RemovedHasNoRecords
