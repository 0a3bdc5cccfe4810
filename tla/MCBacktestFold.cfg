SPECIFICATION FoldSpec
CONSTANTS
  x = x
  y = y
  tech = tech
  unknown = unknown
  Symbols <- MCSymbols
  Buckets <- MCBuckets
  Bucket <- MCBucket
  Inputs <- MCInputs
  ResultStatuses = {"filled", "rejected"}
  Full = 100
  ScoreFull = 10
  EntryThreshold = 7
  ExitThreshold = 4
  PositionSizeMax = 60
  RebalanceTolerance = 60
  MaxSingleOrder = 60
  MaxSectorConcentration = 80
  VixHigh = 30
  VixExtreme = 40
  ScaleOne = 10
  ScaleLow = 0
  ScaleHigh = 15
  BearScale = 5
  Panels <- MCPanels
  Settings <- MCSettings
  LastDay = 4
  MinBars = 1
  InitialCapital = 100
  BpsFull = 100
  MarketSlippageBps = 10
  LimitOffsetBps = 10
  LimitTimeoutBars = 2
  FeesBps = 5
  StopWidth = 2
  TakeWidth = 3
INVARIANTS FoldTypeOK CashCovered MoneyConserved SellsCovered HeldAreProtected LogExplainsBook MarketExitsFollowEntries
