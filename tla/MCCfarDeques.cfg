SPECIFICATION FairSpec
CONSTANTS
    Shapes <- MCShapes
    Percentiles <- MCPercentiles
    Values <- MCValues
    Unset = Unset
INVARIANTS
    WindowExact
PROPERTIES
    ImplementsCfar
    RunReturns
