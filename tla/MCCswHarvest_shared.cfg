\* Two nodes that harvest the same uuids, with every failure but deletions by users.
SPECIFICATION CswFairSpec
CONSTANTS
  n1 = n1  n2 = n2
  u1 = u1  u2 = u2
  NoNode = NoNode
  Nodes <- TwoNodes
  Uuids <- OneUuid
  PageSize = 1
  Day = 2
  Granularity = 1
  RemoteOps = {"change", "add", "delete"}
  Disturbances = {"capabilities", "search", "unreadable", "retrieve", "stop"}
  MaxClock = 2
  MaxDisturbed = 2
INVARIANTS CswTypeOK
PROPERTIES OwnRecordsOnly Converges
