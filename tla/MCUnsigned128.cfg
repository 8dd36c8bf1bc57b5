SPECIFICATION Spec
CONSTANTS
    Base = 4
    Undefined = Undefined
INVARIANTS
    OrderAgrees
PROPERTIES
    SumExact
    ExactUnlessMisjudged
    ProductButTwoTerms
    QuotientNeverShort
CHECK_DEADLOCK FALSE
