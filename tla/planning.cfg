SPECIFICATION FairSpec
CONSTANTS
    Chats = {c1}
    Agents = {1, 2, 3}
    Role <- OneOfEach
    MaxSeconds = 2
    MaxTexts = 2
    MaxCommits = 2
    MaxFaults = 1
    MaxByHand = 1
INVARIANTS PlanKept
PROPERTIES PlansReachBacklog
CHECK_DEADLOCK FALSE
