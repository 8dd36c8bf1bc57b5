SPECIFICATION Spec
CONSTANTS
    Shapes <- MCShapes
    Percentiles <- MCMedian
    Values = {1}
    Unset = Unset
    Unread = Unread
    Slots <- MCSlots
    MaxRuns = 2
CHECK_DEADLOCK FALSE
INVARIANTS
    TypeOK
    FirstRunKeys
    OneEntryPerIndex
