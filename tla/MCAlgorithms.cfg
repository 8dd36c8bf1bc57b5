SPECIFICATION AlgorithmsSpec
CONSTANTS
    Vectors <- MCVectors
    Utterances <- MCUtterances
    Expressions <- MCExpressions
INVARIANTS
    MakesHeap
    Sorts
    RunsCanBeReadBack
    ComputesValue
CHECK_DEADLOCK FALSE
