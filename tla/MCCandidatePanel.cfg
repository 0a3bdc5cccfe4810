CONSTANTS
  Symbols = {1, 2, 3}
  Configs <- MCConfigs
  DaysOf <- MCDaysOf
  HorizonOf <- MCHorizonOf
  BtStart = 2
  LiveDays = 1
  Warmup = 2
  ActivitySlack = 2
  RecentBlock = 2
  TextSlack = 3
  TextCap = 2
  EarningsLimit = 2
  StatementLag = 1
  MinBars = 1
  Lookback = 1
  Skip = 1
  VolWindow = 1
  SpyPeriod = 2
SPECIFICATION Spec
INVARIANTS LiveMatchesBacktest ScoresFollowSignals
PROPERTY NoRepaint
CHECK_DEADLOCK FALSE
