SPECIFICATION Spec
CONSTANTS
  Prefix = {n1}
  LeaseId = {1, 2}
  MaxTime = 13
  DayLen = 14
  Busy = 1
  Tail = 2
  StartMargin = 0
  LeaseTTL = 4
  SettleBy = 4
  DbTimes = {0, 1}
  PrefixAnalyses = 4
  PrefixAdmissions = 4
  PrefixLookups = 0
  GlobalAnalyses = 4
  HeavyAnalyses = 0
  GlobalLookups = 0
  Networks = 1
  CeilingConservative = 7
  CeilingTruth = 0
  LightEgress = 0
  HeavyEgress = 0
  LookupEgress = 0
  EgressDay = 100
  EgressStop = 100
  Retention = 40
  NeonConfigured = FALSE
  PollInterval = 2
  PollTimeout = 0
  TruthAge = 4
  PeriodLen = 100
  PaceFloor = 100
  PaceSlope = 0
  PaceCap = 100
  NeonFigures <- NoFigures
INVARIANT OvershootBounded
CHECK_DEADLOCK FALSE
