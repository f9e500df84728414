SPECIFICATION Spec
CONSTANTS
  Prefix = {n1, n2}
  LeaseId = {1, 2}
  MaxTime = 3
  DayLen = 2
  Busy = 0
  Tail = 0
  StartMargin = 0
  LeaseTTL = 1
  SettleBy = 2
  DbTimes = {0, 1}
  PrefixAnalyses = 1
  PrefixAdmissions = 2
  PrefixLookups = 0
  GlobalAnalyses = 2
  HeavyAnalyses = 1
  GlobalLookups = 0
  Networks = 1
  CeilingConservative = 20
  CeilingTruth = 20
  LightEgress = 0
  HeavyEgress = 0
  LookupEgress = 0
  EgressDay = 100
  EgressStop = 100
  Retention = 40
  NeonConfigured = FALSE
  PollInterval = 2
  PollTimeout = 0
  TruthAge = 4
  PeriodLen = 100
  PaceFloor = 100
  PaceSlope = 0
  PaceCap = 100
  NeonFigures <- NoFigures
SYMMETRY NetworkSymmetry
INVARIANTS CountsConserved DailyCaps
PROPERTY QuotaKept
CHECK_DEADLOCK FALSE
