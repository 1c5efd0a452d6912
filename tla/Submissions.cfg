CONSTANTS
    Forms = {f, g}
    Presses = {p1, p2, p3, p4}
    TTL = 1
    LIMIT = 9
    LastTick = 2
    None = None
SPECIFICATION FairSpec
INVARIANTS OneRecord
PROPERTIES EveryPressAnswered ImplementsOncePerForm
CHECK_DEADLOCK FALSE
