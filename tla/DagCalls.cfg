SPECIFICATION CallsSpec
CONSTANTS
    Names = {1, 2, 3}
    DepLists <- MCDepLists
INVARIANTS
    OrderIsCanonical
    CycleVerdictExact
    UnknownVerdictExact
    LevelsExact
    ResultIsReach
    DependenciesBefore
PROPERTY
    CallsReturn
