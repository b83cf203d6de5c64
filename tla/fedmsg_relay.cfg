SPECIFICATION Spec
CONSTANTS
    a = a
    b = b
    c = c
    Instance = {a, b, c}
    Home = a
    Author = b
    FreshNonces = FALSE
    Attempts = 3
    MaxEdits = 1
    MaxFailures = 2
    MaxCrashes = 1
INVARIANTS
    AnnouncedOnce
    NothingEchoes
    CreateReachesAll
PROPERTY Replicates
CHECK_DEADLOCK FALSE
