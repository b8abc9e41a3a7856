CONSTANTS
    None = None
    h1 = h1
    h2 = h2
    t1 = t1
    t2 = t2
    t3 = t3
    u1 = u1
    u2 = u2
    x1 = x1
    x2 = x2
    Handles <- MCHandles
    Tokens <- MCTokens
    Updates <- MCUpdates
    Sends <- MCSends
    MaxBoots = 0

SPECIFICATION Spec

PROPERTIES
    EnabledOnceReachable
