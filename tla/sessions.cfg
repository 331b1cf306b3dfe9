SPECIFICATION OutputSpec
CONSTANTS
    Codex = {c1}
    Claude = {k1}
    MaxCompletedTurnCache = 2
    MaxDispatches = 2
    MaxLines = 2
    MaxFaults = 2
    Texts = {t1}
    NoText = NoText
    Blocks = {1}
    MaxQueued = 2
    Nobody = Nobody
    t1 = t1
    c1 = c1
    k1 = k1
INVARIANTS OwnTurn WaitJustified DownCompletes OutputLogged EndsShown
PROPERTIES Settles
CHECK_DEADLOCK FALSE
