SPECIFICATION Spec
CONSTANTS
    Request = {r1, r2}
    LoginLimit = 2
    TotpLimit = 2
    CodesPerSet = 1
    MaxSlot = 2
    MaxSecrets = 2
    MaxSets = 2
    MaxFails = 2
    MaxHandlers = 8
SYMMETRY Handlers
INVARIANTS
    CodeLogsInOnce
    FailuresAreCounted
    EnrolledIsUsable
CHECK_DEADLOCK FALSE
