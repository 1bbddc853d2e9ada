\* A save commits between the moment another user's form is read and gets its version.
SPECIFICATION EditorSpec
CONSTANTS
  w1 = w1  w2 = w2
  s1 = s1  s2 = s2
  None = None
  Windows <- TwoWindows
  Sessions <- TwoSessions
  SessionOf <- OneEach
  Clicks = {"save"}
  Schema = "iso19139.che"
  Initially = 1
  MaxRequests = 4
  MaxTyped = 2
  MaxExpired = 0
CHECK_DEADLOCK FALSE
PROPERTIES SavesAreKept
