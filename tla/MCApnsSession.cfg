CONSTANTS
    None = None
    s1 = s1
    s2 = s2
    s3 = s3
    r1 = r1
    r2 = r2
    r3 = r3
    Sessions <- MCSessions
    Requests <- MCRequests
    Ttl = 2
    MaxTime = 4

SYMMETRY Symmetry

SPECIFICATION Spec

INVARIANTS
    IInv
    NoLeak

PROPERTIES
    StartsWell
