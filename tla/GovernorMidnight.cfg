SPECIFICATION Spec
CONSTANTS
  Prefix = {n1}
  LeaseId = {1}
  MaxTime = 4
  DayLen = 2
  Busy = 0
  Tail = 1
  StartMargin = 0
  LeaseTTL = 1
  SettleBy = 2
  DbTimes = {0}
  PrefixAnalyses = 1
  PrefixAdmissions = 1
  PrefixLookups = 0
  GlobalAnalyses = 1
  HeavyAnalyses = 0
  GlobalLookups = 0
  Networks = 1
  CeilingConservative = 20
  CeilingTruth = 20
  LightEgress = 0
  HeavyEgress = 0
  LookupEgress = 0
  EgressDay = 100
  EgressStop = 100
  Retention = 40
  NeonConfigured = TRUE
  PollInterval = 2
  PollTimeout = 1
  TruthAge = 2
  PeriodLen = 3
  PaceFloor = 100
  PaceSlope = 0
  PaceCap = 100
  NeonFigures <- OneFigure
INVARIANT MidnightAlarm
CHECK_DEADLOCK FALSE
