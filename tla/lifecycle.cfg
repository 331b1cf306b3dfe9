SPECIFICATION FairSpec
CONSTANTS
    Pids = {1, 2, 3}
    Commands = {"up", "down", "restart -d"}
    PatientOperator = TRUE
    MaxCommands = 3
    MaxFaults = 1
    MaxSlow = 1
INVARIANTS TypeOK Reachable HandledOnce
PROPERTIES DownStops EndpointKept
CHECK_DEADLOCK FALSE
