SPECIFICATION Spec
CONSTANTS
    Epics = {1, 2}
    Frontend = {2}
    DependsOn <- Independent
    Agents = {1, 2, 3, 4, 5}
    Role <- RoleByAgentWithFrontend
    FlakyAgents = {5}
    FailingEvents <- NoEvents
    AgentsObeyPrompts = FALSE
    ConfirmsReset = TRUE
    TriggerEvents <- HandTriggered
    QueueConsumeMax = 2
    MaxFailures = 0
    MaxReworks = 0
    MaxStops = 1
    MaxTriggers = 1
INVARIANTS Serialized ClaimHeld
PROPERTIES GateRefined HandoffHeld
CHECK_DEADLOCK FALSE
