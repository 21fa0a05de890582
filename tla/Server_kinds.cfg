SPECIFICATION ServerSpec
CONSTANTS
    Bytes <- MCBytes
    Inputs <- MCInputs
    Tables <- MCTables
    Parsed <- MCParsed
    RuleLists <- MCRuleLists
    Options <- MCOptions
    MaxRounds = 4
INVARIANT
    DocumentedKindsAccepted
