CONSTANTS
    None = None
    phone = phone
    specialist = specialist
    Clients <- MCClients
    Convs <- MCConvs
    ReplayLimit = 2
    MaxEvents = 4
    MaxDeletes = 1
    MaxBoots = 1

SPECIFICATION Spec

INVARIANTS
    IInv
    InOrder
    LiveHasNoGap
    NoOtherLoss
    CursorsHold

PROPERTIES
    Delivered
