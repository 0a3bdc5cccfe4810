SPECIFICATION EdgarSpec
CONSTANTS
  new = new
  old = old
  None = None
  Registrants = {new, old}
  Current = new
  Predecessor <- MCPredecessor
  Evidence <- MCEvidence
  FirstFilings <- MCFirst
  Recent = 1
  PageSize = 2
  Since = 1
  MaxAge = 1
  LastDay = 2
  MaxFilings = 4
  Extracted <- MCExtracted
  Faults = {"crash", "network", "http"}
INVARIANTS EdgarTypeOK CleanListsComplete HistoryKept
CHECK_DEADLOCK FALSE
