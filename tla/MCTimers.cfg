SPECIFICATION TimersSpec
CONSTANTS
    Delay = 5
    Period = 1
    Limit = 5
    MaxTime = 14
INVARIANTS
    NoDrift
    AllCallsMade
