SPECIFICATION Spec
CONSTANTS
    Den = den
    Field = {f1, f2}
    Channel = {c1}
    Other = {u}
    Guest = {g1, g2}
    Owner = owner
    Staff = staff
    Attempts = 2
    MaxEvents = 4
    MaxFaults = 1
SYMMETRY Alike
INVARIANTS
    MirrorIsCurrent
    LeftIsGone
    JoinedIsOnMirror
    NoOrphanMirror
CHECK_DEADLOCK FALSE
