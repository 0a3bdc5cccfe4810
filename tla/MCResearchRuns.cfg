CONSTANTS
  plain = plain
  other = other
  bt = bt
  lap = lap
  late = late
  grid = grid
  lapGrid = lapGrid
  past = past
  Commands = {bt, lap, late, grid, lapGrid, past}
  Work <- MCWork
  ValidConfigs = {plain, other}
  TradingDays <- MCTradingDays
  FoldResults <- MCFoldResults
  Criteria <- MCCriteria
  LiveConfigs = {plain}
  HaltFloor = 1
  MaxOrders = 1
  MaxCommands = 2
  MaxFaults = 1
SPECIFICATION Spec
INVARIANTS RunsTypeOK CompletedRunsWhole GridReportAgrees FailedRunsExplained LiveBehindGate
PROPERTY RunsConclude
CHECK_DEADLOCK FALSE
