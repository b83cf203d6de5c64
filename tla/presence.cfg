SPECIFICATION PresenceSpec
CONSTANTS
    Call = {r1, r2}
    Socket = {k1, k2}
    Status = {none, away}
    NoStatus = none
    MaxWrites = 2
    MaxRestarts = 1
SYMMETRY Slots
INVARIANTS
    CountCoversOpenSockets
    FanOutCoversLatest
CHECK_DEADLOCK FALSE
