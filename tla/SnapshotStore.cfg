SPECIFICATION Spec
CONSTANTS
    Writers = {w1, w2}
    Seconds = {0, 1}
    Sizes = {2, 3}
    MaxSaves = 3
    Kills = TRUE
    DiskFills = TRUE
    PowerFails = TRUE
INVARIANTS
    IntegrityHolds
    SecondsIsolated
    ListedWasAcked
    HistoryExact
CHECK_DEADLOCK FALSE
