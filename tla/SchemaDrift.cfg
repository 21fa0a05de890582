SPECIFICATION Spec
CONSTANTS
    Tables <- MCTables
    Options <- MCOptions
    Schemas <- MCSchemas
INVARIANTS
    InferredExact
    AppendedRowsWiden
    DriftExact
