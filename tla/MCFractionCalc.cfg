SPECIFICATION CalcSpec
CONSTANTS
    MaxVal = 15
    MaxInput = 6
    Integrals <- MCIntegrals
    MaxCalls = 2
    NoObject = NoObject
    Crash = Crash
INVARIANTS
    EqualIsSameValue
PROPERTIES
    ProductExact
CHECK_DEADLOCK FALSE
