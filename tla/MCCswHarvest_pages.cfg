\* One node, paged, whose remote catalogue changes and shrinks while it is read.
SPECIFICATION CswFairSpec
CONSTANTS
  n1 = n1  n2 = n2
  u1 = u1  u2 = u2
  NoNode = NoNode
  Nodes <- OneNode
  Uuids <- TwoUuids
  PageSize = 1
  Day = 2
  Granularity = 1
  RemoteOps = {"change", "add", "delete"}
  Disturbances = {"search", "unreadable", "stop", "edit"}
  MaxClock = 3
  MaxDisturbed = 1
INVARIANTS DateTellsChange
PROPERTIES KeepsWhatIsOffered HarvestsEnd
