SPECIFICATION Spec
CONSTANTS
    Insts = {vas}
    MaxDay = 4
    BackfillStart = 2
    Sparse = 2
    GapDays = 1
    Reach = 1
    FeedPhase = "settled"
    TradeDays = {1}
    MaxFaults = 1
CHECK_DEADLOCK FALSE
PROPERTIES EveryDayCloses RateArrives
