CONSTANTS
    ann = ann
    bob = bob
    s1 = s1
    s2 = s2
    None = None
    Users = {ann, bob}
    Residents = {ann}
    Subjects = {s1, s2}
    EmailOf <- MCEmailOf
    Provisioning = "invite"
    Invites = {"i1"}
    Browsers = {"b1"}
    Passkeys = {"k1"}
    MaxAttempts = 2
    MaxChallenges = 1
    MaxSessions = 2
    MaxEdits = 1
SPECIFICATION Spec
INVARIANTS WayIn OnceEach
CHECK_DEADLOCK FALSE
