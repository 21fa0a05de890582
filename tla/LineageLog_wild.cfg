SPECIFICATION Spec
CONSTANTS
    Rows = {1}
    Actions = {"PASS", "DROP"}
    MaxEntries = 3
    Cap = 4
    Kills = TRUE
    PowerFails = TRUE
    DiskFills = TRUE
    CompactFills = TRUE
    Compacts = TRUE
    CompactsLive = TRUE
    OpensTorn = TRUE
INVARIANT
    EntriesInOrder
