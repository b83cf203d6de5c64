SPECIFICATION UploadsSpec
CONSTANTS
    Attachment = {a1, a2, a3, a4}
    Message = {m1, m2}
    Patch = {p1, p2}
    None = None
    Followed = {a1}
    MaxConcurrent = 2
    MaxCompletes = 2
    MaxRestarts = 2
INVARIANTS
    SlotsAreUsed
    IconFollowsScan
    PostedKeepsFile
PROPERTIES
    ScansSettle
CHECK_DEADLOCK FALSE
