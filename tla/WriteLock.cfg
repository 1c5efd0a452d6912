CONSTANTS
    Pages = {a}
    Posts = {d}
    Slow = {c}
    Instruments = 2
    Busy = 5
    SlowTicks = 7
    None = None
SPECIFICATION FairSpec
INVARIANTS OnlySlowWorkLocksOut
PROPERTIES EveryRequestEnds
CHECK_DEADLOCK FALSE
