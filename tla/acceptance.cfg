SPECIFICATION Spec
CONSTANTS
    Callers = {c1, c2}
    Overlap = FALSE
    MaxTests = 2
    MaxResults = 2
    MaxOps = 5
    MaxFaults = 1
INVARIANTS TypeOK CacheBacked CacheCurrent
CHECK_DEADLOCK FALSE
