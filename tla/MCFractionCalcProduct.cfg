SPECIFICATION CalcSpec
CONSTANTS
    MaxVal = 15
    MaxInput = 6
    Integrals <- MCIntegrals
    MaxCalls = 1
    NoObject = NoObject
    Crash = Crash
PROPERTIES
    ProductIsProduct
CHECK_DEADLOCK FALSE
