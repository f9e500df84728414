SPECIFICATION ApiFairSpec
CONSTANTS
    None = None
    Failed = Failed
    r1 = r1
    Request = {r1}
    MaxVersion = 1
    MaxTime = 1
    TTL = 1
    StaleRetry = 1
    reader = reader
    analyst = analyst
    Caller = {reader, analyst}
    Analyst = {analyst}
    Reader = reader
    c1 = c1
    Conn = {c1}
    Statements <- LockThenRead
    Nobody = Nobody
INVARIANTS ReportedIsKept CancelStaysHome NoneSlipsPast
PROPERTIES WaitersGoOn DeadlineEnds
CHECK_DEADLOCK FALSE
