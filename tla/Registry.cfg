SPECIFICATION RegistrySpec
CONSTANTS
    Goroutines = {g1, g2}
    Kinds = {k1, k2}
    Factories = {f1, f2}
    MaxDepth = 2
INVARIANT
    RegisteredOnce
PROPERTY
    CallsReturn
CHECK_DEADLOCK FALSE
