SPECIFICATION Spec
CONSTANTS
    Rows = {1}
    Actions = {"PASS"}
    MaxEntries = 4
    Cap = 4
    Kills = TRUE
    PowerFails = FALSE
    DiskFills = FALSE
    CompactFills = FALSE
    Compacts = FALSE
    CompactsLive = FALSE
    OpensTorn = TRUE
INVARIANT
    Recoverable
