\* One window, with everything its user can do.
SPECIFICATION EditorFairSpec
CONSTANTS
  w1 = w1  w2 = w2
  s1 = s1  s2 = s2
  None = None
  Windows <- OneWindow
  Sessions <- OneSession
  SessionOf <- AllInOne
  Clicks = {"save", "switchTab", "silentSave", "process", "close", "attribute", "add", "addAndSave", "remove", "move", "cancel"}
  Schema = "iso19139.che"
  Initially = 2
  MaxRequests = 3
  MaxTyped = 1
  MaxExpired = 1
CHECK_DEADLOCK FALSE
INVARIANTS EditorTypeOK RefsAreUnique FormMatchesCopy
PROPERTIES AcceptedIsStored ChangesFailForCause SavesSettle
