SPECIFICATION FairSpec
CONSTANTS
    a = a
    b = b
    messages = messages
    dms = dms
    Instance = {a, b}
    Capability = {messages, dms}
    Advertised <- MCAdvertised
    MaxInitiations = 3
    MaxRevocations = 1
    MaxLost = 1
INVARIANTS
    PeeredTakesTwoAdmins
PROPERTIES
    RevocationHolds
    HandshakeCompletes
CHECK_DEADLOCK FALSE
