SPECIFICATION Spec
CONSTANTS
    c1 = c1
    c2 = c2
    Clients <- TwoClients
    NoClient = NoClient
    Lengths = {0, 1, 2}
    Answer = 2
    MaxFaults = 1
INVARIANTS
    AnswerMeansReceived
    BothWaitOnlyIfEmpty
    WholeMessageAnswered
PROPERTIES
    ClientsReturn
CHECK_DEADLOCK FALSE
