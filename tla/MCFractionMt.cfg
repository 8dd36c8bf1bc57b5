SPECIFICATION FairSpec
CONSTANTS
    f = f
    g = g
    t1 = t1
    t2 = t2
    Threads <- TwoThreads
    Fractions <- MCFractions
    Operations <- Locked
    MaxOps = 1
    NoOp = NoOp
INVARIANTS
    NoDataRace
    NoTornRead
PROPERTIES
    IsAtomic
    CallsReturn
