CONSTANTS
    ax = ax
    ay = ay
    ann = ann
    Listings = {ax, ay}
    Namesakes = {ax, ay}
    AlwaysOpen = {ay}
    Malformed = {ay}
    AllowNew = TRUE
    SignIns = {a1, a2}
    UserOf <- AnnTwice
    Books <- TwoBooks
    Uploads = {u1}
    Files <- ThreeFiles
    Advices <- OneAdvice
    MaxTrades = 4
    NULL = NULL
SYMMETRY Alike
SPECIFICATION ImportSpec
INVARIANTS RefusalsAgree AdvicesOnce
PROPERTIES NeverShort ImportMerges
CHECK_DEADLOCK FALSE
