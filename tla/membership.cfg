SPECIFICATION Spec
CONSTANTS
    owner = owner
    local = local
    remote = remote
    User = {owner, local, remote}
    Owner = owner
    Remote = {remote}
    Slot = {s1, s2, s3}
    MaxUses = 2
    MaxLost = 1
SYMMETRY Slots
INVARIANTS
    InviteIsBounded
    BannedMemberIsExcused
PROPERTIES
    UsePerAdmission
