SPECIFICATION FairSpec
CONSTANTS
    Agents = {a1}
    TailPerAgent = 1
    LogLimit = 2
    MaxChanges = 2
    MaxFaults = 2
PROPERTIES BoardCatchesUp ConsoleCatchesUp
CHECK_DEADLOCK FALSE
