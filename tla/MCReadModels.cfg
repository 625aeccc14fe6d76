SPECIFICATION ReadSpec
CONSTANTS
  editor = editor
  browser = browser
  Apps <- MCApps
  AppId <- MCAppId
  HourTicks = 1
  DayTicks = 3
  ZoneOffset = 1
  GapCap = 2
  MaxGapCap = 2
  WorkBreak = 2
  SkewTolerance = 0
  MaxBusy = 0
  Kinds <- MCKinds
  Masks = {}
  Lifecycle = {}
  Steps = {1, 3}
  Lags = {0}
  Jumps <- MCJumps
  Start = 3
  MaxUtc = 11
  MaxEvents = 4
  MaxUpsets = 1
  TopSlots = 1
  AvgDays = 2
  MinDays = 1
  FullDays = 2
  WeekDays = 3
  LunchHours = {1}
  MorningTicks = {1}
  PageSize = 1
  Ranges = {2, 3}
  WeekRange = 3
  SummaryDays = 1
  PaceDays = 2
  Weeks = 2
  Months = 2
  MonthDays = 3
  EarlyHours = {0}
  MaxReadings = 1
INVARIANTS
  TimelineComplete
  TodayAddsUp
  LiveMatchesProjection
  ViewsAgree
  SpellAroundPeak
CHECK_DEADLOCK FALSE
