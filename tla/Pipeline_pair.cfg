SPECIFICATION FairSpec
CONSTANTS
    Names = {1, 2}
    DepLists <- PairLists
    Endings <- TableOrError
    Runners = {r1, r2}
    Nil = Nil
PROPERTIES
    PublishedWhole
    RunReturns
