SPECIFICATION FairSpec
CONSTANTS
    None = None
    l1 = l1
    l2 = l2
    r1 = r1
    Loader = {l1, l2}
    Reader = {r1}
    Canonical <- TwoTables
    MaxRun = 2
    MaxAttempts = 2
INVARIANTS AllOldOrAllNew VersionIsLive
PROPERTIES ReloadIsAtomic SucceededStays LoadsEnd ReadersGoOn
