CONSTANTS
  j1 = j1
  Symbols = {1, 2}
  Bars <- MCBars
  LastDay = 5
  Runs = {1, 2}
  FoldRows <- MCFoldRows
  FileWindows <- MCFileWindows
  Lookbacks = {1, 2}
  Jobs = {j1}
  Batch = 7
  NFolds = 3
  Embargo = 3
  RowsMin = 1
  ValMin = 1
  TrainMin = 1
  MaxKills = 1
SPECIFICATION Spec
INVARIANTS LabelTypeOK LabelsAreMarket EmbargoOfEnoughRows
PROPERTIES LabelsKept RowsGetLabelled
CHECK_DEADLOCK FALSE
