SPECIFICATION FairSpec
CONSTANTS
    Docs = {d1}
    Existing = {}
    Editors = {e1}
    Anonymous = {e1}
    Watchers = {w1}
    MaxPolls = 2
    MaxWrites = 3
    MaxNews = 1
PROPERTIES WatchCatchesUp
CHECK_DEADLOCK FALSE
