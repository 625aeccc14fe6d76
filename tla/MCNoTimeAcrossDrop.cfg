SPECIFICATION Spec
CONSTANTS
  editor = editor
  browser = browser
  Apps <- MCApps
  HourTicks = 2
  DayTicks = 4
  ZoneOffset = 1
  GapCap = 2
  MaxGapCap = 2
  WorkBreak = 2
  SkewTolerance = 0
  MaxBusy = 1
  Kinds <- MCKinds
  Masks <- MCMasks
  Lifecycle <- MCLifecycle
  Steps = {1, 3}
  Lags = {0, 1}
  Jumps <- MCJumps
  Start = 3
  MaxUtc = 9
  MaxEvents = 5
  MaxUpsets = 1
INVARIANT NoTimeAcrossDrop
CHECK_DEADLOCK FALSE
