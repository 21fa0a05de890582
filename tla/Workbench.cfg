SPECIFICATION BenchSpec
CONSTANTS
    CsvTables <- MCCsvTables
    JsonInputs <- MCJsonInputs
    FixedInputs <- MCFixedInputs
    Chains <- MCChains
    Fills <- MCFills
    Names <- MCNames
    Bounds <- MCBounds
    Basic <- MCBasic
    Extended <- MCExtended
    MaxCalls = 2
    Mantissas = 32
    Gaps = {1, 2, 4, 8, 16, 32, 64, 128}
    FloatOne = 64
INVARIANTS
    ProfileExact
    MergedExact
    GuaranteesLast
    NumbersPlaced
    FillsExact
    BoundsMet
