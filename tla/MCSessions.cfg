CONSTANTS
    u1 = u1
    b1 = b1
    b2 = b2
    None = None
    Users = {u1}
    Browsers = {b1, b2}
    Accounts <- MCAccounts
    Chosen = {"mine", "new"}
    Temporary = "handed"
    MaxAttempts = 2
    Window = 2
    Lockout = 2
    Idle = 2
    Absolute = 3
    Ttl = 2
    Retention = 2
    PerList = 2
    MaxTokens = 3
    MaxSecrets = 2
    MaxLists = 2
    MaxRequests = 4
    LastTick = 3
SPECIFICATION Spec
SYMMETRY Alike
INVARIANTS OneUseEach TwoFactors SignedOutEverywhere GuessesBounded
CHECK_DEADLOCK FALSE
