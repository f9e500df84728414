SPECIFICATION FairSpec
CONSTANTS
    None = None
    Absent = Absent
    MaxIssue = 1
    Session = {"s1"}
    MaxFaults = 1
INVARIANTS NoStaleSession ServedIsRecorded
PROPERTIES UnaskedHarmless FinishedByAdvice
CHECK_DEADLOCK FALSE
