\* Any three method calls and two firings on a one-run harvester; stop with
\* either status, as the harvester page sends it.
SPECIFICATION Spec
CONSTANTS
  h1 = h1
  r1 = r1  r2 = r2  r3 = r3
  f1 = f1  f2 = f2
  x1 = x1  x2 = x2
  NoThread = NoThread
  NoHarvester = NoHarvester
  Harvesters <- OneHarvester
  Requests <- ThreeRequests
  Firings <- TwoFirings
  Records <- TwoRecords
  Methods <- AllMethods
  StopStatuses = {"active", "inactive"}
  OneRunOnly = {h1}
  NeverFires = {}
  PoolSize = 2
SYMMETRY Symmetry
INVARIANTS TypeOK ExclusiveHarvest ScheduledIsActive CancelHasCause
PROPERTIES HarvestsAreSerial
