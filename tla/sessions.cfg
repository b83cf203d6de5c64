SPECIFICATION Spec
CONSTANTS
    Request = {r1, r2}
    ResetToken = {t1}
    MaxSessions = 3
    MaxPasswords = 2
    Cap = 1
    SecondFactor = TRUE
SYMMETRY Slots
INVARIANTS
    CapHoldsWhenQuiet
    RevocationEndsSessions
PROPERTY
    KeepsSessionsApart
CHECK_DEADLOCK FALSE
