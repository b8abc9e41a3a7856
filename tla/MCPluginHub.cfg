CONSTANTS
    None = None
    s1 = s1
    s2 = s2
    s3 = s3
    i1 = i1
    i2 = i2
    tokenOfI1 = tokenOfI1
    setupToken = setupToken
    Sockets <- MCSockets
    Instances <- MCInstances
    Tokens <- MCTokens
    Owner <- MCOwner
    MaxBoots = 1

SPECIFICATION Spec

INVARIANTS
    IInv
    OpenIsActive
    StatusTruthful
    AnnouncementAgrees
    SendIsTruthful

PROPERTIES
    ImplementsSlots
    DeadIsFreed
