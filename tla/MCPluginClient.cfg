CONSTANTS
    None = None
    c1 = c1
    c2 = c2
    c3 = c3
    s1 = s1
    s2 = s2
    s3 = s3
    Clients <- MCClients
    Sockets <- MCSockets

SPECIFICATION Spec

INVARIANTS
    IInv
    OneLine

PROPERTIES
    ImplementsLine
    KeepsTrying

CHECK_DEADLOCK FALSE
