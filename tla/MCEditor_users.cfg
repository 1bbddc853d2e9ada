\* Two windows of two users.
SPECIFICATION EditorSpec
CONSTANTS
  w1 = w1  w2 = w2
  s1 = s1  s2 = s2
  None = None
  Windows <- TwoWindows
  Sessions <- TwoSessions
  SessionOf <- OneEach
  Clicks = {"save", "switchTab", "process", "cancel"}
  Schema = "iso19139.che"
  Initially = 1
  MaxRequests = 4
  MaxTyped = 1
  MaxExpired = 0
CHECK_DEADLOCK FALSE
INVARIANTS OneFormIsCurrent
PROPERTIES NoQuietOverwrite RefusedForCause
