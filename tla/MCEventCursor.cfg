CONSTANTS
    None = None
    phone = phone
    specialist = specialist
    Clients <- MCClients
    Convs <- MCConvs
    ReplayLimit = 10
    MaxEvents = 4
    MaxDeletes = 1
    MaxBoots = 0

SPECIFICATION Spec

INVARIANTS
    AfterCursorIsComplete
