\* One harvester and one more to add; every click, a failure, a foreign removal.
SPECIFICATION PageFairSpec
CONSTANTS
  h1 = h1  h2 = h2  h3 = h3
  NewId = NewId  None = None
  Ids <- TwoHarvesters
  Existing <- OneHarvester
  Clicks = {"new", "save", "run", "stop", "clear", "remove", "clone", "refresh", "edit"}
  MaxClicks = 2
  MaxFailures = 1
  MaxOthers = 1
CHECK_DEADLOCK FALSE
INVARIANTS PageTypeOK PollingIsAlive BlockedForCause SettledPageAgrees
PROPERTIES EndedIsShown
