SPECIFICATION FairSpec
CONSTANTS
    a = a
    b = b
    None = None
    Slot <- Two
    Asks <- AnalysesAndWakes
    MaxRelease = 1
    MaxTime = 2
    DayLen = 1
    Threshold = 2
    OpenFor = 2
    WakeRetry = 1
    WakeInterval = 1
    PrefixCap = 1
    Budget = 2
    MaxDelay = 1
INVARIANTS RefundsEarned StoredIsCurrent NetworkDayCap ComputedAtMostTwice
PROPERTIES OneCallIntoOpen CallsSettle
