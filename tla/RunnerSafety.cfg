SPECIFICATION Spec
CONSTANTS
    None = None
    Failed = Failed
    Overloaded = Overloaded
    c1 = c1
    c2 = c2
    t1 = t1
    t2 = t2
    light = light
    heavy = heavy
    Client = {c1, c2}
    Task = {t1, t2}
    Op = {light, heavy}
    Heavy = {heavy}
    MaxVersion = 1
    MaxDay = 1
    Limit = 1
    Burst = 1
    MaxInflight = 2
    MaxHeavy = 1
    CacheSize = 1
INVARIANTS ResultsTrue LanesBound CapConserved DailyCapBound TokensKept
PROPERTY FlightsShared
SYMMETRY Symmetry
CHECK_DEADLOCK FALSE
