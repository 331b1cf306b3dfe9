SPECIFICATION FairSpec
CONSTANTS
    Sessions = {s1, s2}
    Opened = {s1}
    MaxRuns = 2
    MaxDeltas = 1
    MaxActs = 3
    MaxFaults = 1
    MaxLoads = 4
PROPERTIES PaneSettles
CHECK_DEADLOCK FALSE
