SPECIFICATION Spec
CONSTANTS
    a = a
    b = b
    c = c
    Instance = {a, b}
    Home = a
    Author = a
    FreshNonces = FALSE
    Attempts = 3
    MaxEdits = 2
    MaxFailures = 0
    MaxCrashes = 0
INVARIANT EditsConverge
CHECK_DEADLOCK FALSE
