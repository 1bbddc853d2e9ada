\* One worker; no one-run harvest, and stop only to deactivate.
SPECIFICATION FairSpec
CONSTANTS
  h1 = h1
  r1 = r1  r2 = r2  r3 = r3
  f1 = f1  f2 = f2
  x1 = x1  x2 = x2
  NoThread = NoThread
  NoHarvester = NoHarvester
  Harvesters <- OneHarvester
  Requests <- TwoRequests
  Firings <- TwoFirings
  Records <- OneRecord
  Methods <- PageMethods
  StopStatuses = {"inactive"}
  OneRunOnly = {}
  NeverFires = {}
  PoolSize = 1
INVARIANTS ActiveIsScheduled DbStatusAgrees
PROPERTIES CallsReturn SerialHarvestsEnd
