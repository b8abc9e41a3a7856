CONSTANTS
    None = None
    e1 = e1
    e2 = e2
    main = main
    c1 = c1
    i1 = i1
    i2 = i2
    a1 = a1
    a2 = a2
    Ids <- MCIds
    Conversations <- MCConversations
    Mains <- MCMains
    Instances <- MCInstances
    InstanceOf <- MCInstanceOf
    Attachments <- MCAttachments
    Nameless <- MCNameless
    Lists <- MCLists
    MaxBoots = 1

SYMMETRY Symmetry
CONSTRAINT Bounded

SPECIFICATION Spec

INVARIANTS
    IInv
    NothingOrphaned
    LogAgrees
    AnswersAreTrue
    AttachmentsAreThere

PROPERTIES
    ImplementsChat

CHECK_DEADLOCK FALSE
