SPECIFICATION FairSpec
CONSTANTS
    f1 = f1
    f2 = f2
    Fleets = {f1, f2}
    Clones = {}
    Ports = {1, 2}
    Preferred = 1
    MaxCommands = 3
    MaxFaults = 1
INVARIANTS StatusIsTrue OnePressIsGraceful
PROPERTIES ChildrenEnd
CHECK_DEADLOCK FALSE
