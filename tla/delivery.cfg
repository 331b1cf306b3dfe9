SPECIFICATION FairSpec
CONSTANTS
    Epics = {1, 2}
    Frontend = {}
    DependsOn <- Independent
    Agents = {1, 2, 3, 4}
    Role <- RoleByAgent
    FlakyAgents = {}
    FailingEvents <- DeveloperEvents
    AgentsObeyPrompts = TRUE
    ConfirmsReset = TRUE
    TriggerEvents <- NoEvents
    QueueConsumeMax = 2
    MaxFailures = 2
    MaxReworks = 2
    MaxStops = 0
    MaxTriggers = 0
INVARIANTS TypeOK PolishedBeforeReview OneInFlight DecisionPossible
PROPERTIES Delivered TestsRun
CHECK_DEADLOCK FALSE
