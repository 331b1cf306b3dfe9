SPECIFICATION FairSpec
CONSTANTS
    Epics = {1}
    Frontend = {}
    DependsOn <- Chained
    Agents = {1, 2, 3, 4}
    Role <- RoleByAgent
    FlakyAgents = {}
    FailingEvents <- DeveloperEvents
    AgentsObeyPrompts = TRUE
    ConfirmsReset = TRUE
    TriggerEvents <- NoEvents
    QueueConsumeMax = 2
    MaxFailures = 1
    MaxReworks = 1
    MaxStops = 2
    MaxTriggers = 0
INVARIANTS InHandOnDisk
PROPERTIES Delivered
CHECK_DEADLOCK FALSE
