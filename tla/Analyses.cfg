SPECIFICATION AnalysesSpec
CONSTANTS
    None = None
    Null = Null
    Failed = Failed
    Overloaded = Overloaded
    Client = {c1, c2}
    Task = {t1, t2}
    Op = {"estimate", "compare", "refused"}
    Heavy = {"compare"}
    MaxVersion = 1
    MaxDay = 0
    Limit = 1
    Burst = 1
    MaxInflight = 2
    MaxHeavy = 1
    CacheSize = 1
    YearLen = 4
    WeekLen = 3
    GapDays = {1}
    Replicate = {1, 2}
    MaxMinutes = 10
    HeavyYears = 4
    Presets <- MCPresets
    Digest <- MCDigest
    Request <- MCRequest
    Survey <- MCSurvey
    Tables <- MCTables
    Surveys <- MCSurveys
    Questions <- MCQuestions
INVARIANTS AnswersAreTrue EstimatesAreTrue TrendIsEstimates ComparisonIsFair
PROPERTY WaitersReleased
CHECK_DEADLOCK FALSE
