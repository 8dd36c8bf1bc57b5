SPECIFICATION Spec
CONSTANTS
    Shapes <- Supported
    Percentiles <- MCPercentiles
    Values = {1, 2}
    Unset = Unset
    Unread = Unread
INVARIANTS
    TypeOK
    WindowExact
    NoInternalError
PROPERTIES
    ImplementsCfar
