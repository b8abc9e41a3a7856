CONSTANTS
    None = None
    k1 = k1
    p1 = p1
    p2 = p2
    a = a
    b = b
    Keys <- MCKeys
    Pairings <- MCPairings
    Codes <- MCCodes
    Limiters <- MCLimiters
    Max <- MCMax
    Window <- MCWindow
    Lifetime = 3
    MaxTime = 4
    MaxBoots = 1

SYMMETRY Symmetry

SPECIFICATION Spec

INVARIANTS
    IInv
    RateIsBounded
    RefusedNotForever
    TokenIsPaired

PROPERTIES
    ImplementsOneTimeCodes
