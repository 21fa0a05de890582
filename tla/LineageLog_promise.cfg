SPECIFICATION Spec
CONSTANTS
    Rows = {1, 2}
    Actions = {"MODIFY", "DROP"}
    MaxEntries = 3
    Cap = 4
    Kills = TRUE
    PowerFails = TRUE
    DiskFills = TRUE
    CompactFills = FALSE
    Compacts = TRUE
    CompactsLive = FALSE
    OpensTorn = FALSE
INVARIANT
    Recoverable
PROPERTIES
    CompactKeepsAnswers
    CompactRepairs
    KeepsPromise
