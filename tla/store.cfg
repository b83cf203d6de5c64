SPECIFICATION StoreFairSpec
CONSTANTS
    x = x
    y = y
    Item = {x, y}
    MaxChanges = 3
    MaxReplies = 1
    MaxOpens = 2
    MaxFailures = 1
INVARIANTS
    RosterIsCurrent
    RoomIsCurrent
PROPERTY LoadingEnds
CHECK_DEADLOCK FALSE
