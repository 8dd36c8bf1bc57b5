SPECIFICATION FairSpec
CONSTANTS
    c1 = c1
    c2 = c2
    s1 = s1
    s2 = s2
    s3 = s3
    NoClient = NoClient
    Clients <- TwoClients
    Sessions <- ThreeSessions
    MaxLength = 2
    Window = 2
    MaxBytes <- TwoAndOne
    MaxFailures = 1
INVARIANTS
    OneHandler
    AlwaysAccepting
PROPERTIES
    ImplementsEcho
    ImplementsFairEcho
    SessionsFreed
    ConnectionsAccepted
CHECK_DEADLOCK FALSE
