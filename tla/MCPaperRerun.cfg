SPECIFICATION PaperSpec
CONSTANTS
  a = a
  b = b
  r1 = r1
  r2 = r2
  rec = rec
  Symbols <- MCSymbolsOne
  Runs = {r1, r2}
  Command <- Rerun
  Signals <- MCSignalsOne
  Target = 2
  WrapperHours = {"closed"}
  LastNight = 2
  Faults = {}
INVARIANT NoStacking
CHECK_DEADLOCK FALSE
