CONSTANTS
    ann = ann
    bob = bob
    eve = eve
    k1 = k1
    None = None
    Out = Out
    Users = {ann, bob, eve}
    Admin = ann
    MaxPortfolios = 2
    MaxInvites = 1
    Keys = {k1}
    Roles = {"owner", "viewer"}
    KeyScopes = {TRUE}
    MaxEdits = 3
    MaxPending = 1
SPECIFICATION Spec
SYMMETRY Alike
VIEW Tables
INVARIANTS OwnerKept InviteOnce
PROPERTIES WritesAllowed
