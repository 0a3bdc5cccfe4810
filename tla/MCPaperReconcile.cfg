SPECIFICATION FairPaperSpec
CONSTANTS
  a = a
  b = b
  r1 = r1
  r2 = r2
  rec = rec
  Symbols <- MCSymbolsOne
  Runs = {r1, r2, rec}
  Command <- Wrapper
  Signals <- MCSignalsOne
  Target = 2
  WrapperHours = {"closed", "open"}
  LastNight = 2
  Faults = {}
PROPERTY ReconcileConverges
CHECK_DEADLOCK FALSE
