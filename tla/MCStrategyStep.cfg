SPECIFICATION Spec
CONSTANTS
  a = a
  b = b
  c = c
  tech = tech
  unknown = unknown
  Symbols <- MCSymbols
  Buckets <- MCBuckets
  Bucket <- MCBucket
  Inputs <- MCInputs
  ResultStatuses = {"accepted", "rejected"}
  Full = 100
  ScoreFull = 10
  EntryThreshold = 7
  ExitThreshold = 4
  PositionSizeMax = 16
  RebalanceTolerance = 60
  MaxSingleOrder = 12
  MaxSectorConcentration = 30
  VixHigh = 30
  VixExtreme = 40
  ScaleOne = 10
  ScaleLow = 0
  ScaleHigh = 15
  BearScale = 5
INVARIANTS TypeOK SectorOvershootBounded ExposureAccounted OneOrderPerSymbol
