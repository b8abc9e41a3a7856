CONSTANTS
    None = None
    s1 = s1
    s2 = s2
    c1 = c1
    c2 = c2
    c3 = c3
    x1 = x1
    x2 = x2
    Sessions <- MCSessions
    Conversations <- MCConversations
    Calls <- MCCalls
    MaxStarts = 2

SYMMETRY Symmetry

SPECIFICATION Spec

INVARIANTS
    IInv
    NoSplit
    BoundBothWays
    ReadyUnlessLost

PROPERTIES
    ImplementsThreads

CHECK_DEADLOCK FALSE
