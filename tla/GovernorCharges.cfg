SPECIFICATION Spec
CONSTANTS
  Prefix = {n1}
  LeaseId = {1, 2}
  MaxTime = 5
  DayLen = 5
  Busy = 2
  Tail = 1
  StartMargin = 0
  LeaseTTL = 3
  SettleBy = 2
  DbTimes = {0, 1}
  PrefixAnalyses = 2
  PrefixAdmissions = 3
  PrefixLookups = 1
  GlobalAnalyses = 2
  HeavyAnalyses = 0
  GlobalLookups = 1
  Networks = 1
  CeilingConservative = 4
  CeilingTruth = 0
  LightEgress = 0
  HeavyEgress = 0
  LookupEgress = 0
  EgressDay = 100
  EgressStop = 100
  Retention = 40
  NeonConfigured = FALSE
  PollInterval = 2
  PollTimeout = 0
  TruthAge = 4
  PeriodLen = 100
  PaceFloor = 100
  PaceSlope = 0
  PaceCap = 100
  NeonFigures <- NoFigures
INVARIANTS NeverUndercharged UptimeWithinCeiling
CHECK_DEADLOCK FALSE
