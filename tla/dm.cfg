SPECIFICATION FairSpec
CONSTANTS
    a = a
    b = b
    Instance = {a, b}
    Attempts = 2
    MaxOpens = 2
    MaxPosts = 1
    MaxToggles = 1
    MaxFailures = 1
    MaxCrashes = 1
CHECK_DEADLOCK FALSE
INVARIANTS
    OneConversation
    SplitOnlyByCrossing
    ArrivedBelongs
    AcknowledgedIsStored
PROPERTY OpenGetsThrough
