CONSTANTS
    None = None
    phone = phone
    specialist = specialist
    Clients <- MCClients
    Convs <- MCConvs
    ReplayLimit = 10
    MaxEvents = 4
    MaxDeletes = 0
    MaxBoots = 0

SPECIFICATION Spec

INVARIANTS
    NewConversationIsSeen
