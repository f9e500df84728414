SPECIFICATION Spec
CONSTANTS
    None = None
    l1 = l1
    r1 = r1
    Loader = {l1}
    Reader = {r1}
    Canonical <- OneTable
    MaxRun = 1
    MaxAttempts = 1
INVARIANT BuilderConsistent
