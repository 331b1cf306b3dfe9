SPECIFICATION FairSpec
CONSTANTS
    Processes = {1, 2}
    EpicTargets = {"todo", "in-progress", "done"}
    ItemTargets = {"todo", "in-progress"}
    Forced = {FALSE, TRUE}
    Reopened = {TRUE}
    StartBacklogs <- LeftBacklogs
    MaxChanges = 2
    MaxCrashes = 1
INVARIANTS TypeOK NoDanglingItem UniqueIds HistoryChained
PROPERTIES RetryServed
CHECK_DEADLOCK FALSE
