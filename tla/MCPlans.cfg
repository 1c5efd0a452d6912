CONSTANTS
    Instruments = {a, b, c}
    Ticker <- Listed
    Intervals = {1}
    Starts = {2}
    Today = 1
    Dues = {2, 3}
    MaxSlots = 3
    MaxSteps = 2
    NULL = NULL
SPECIFICATION PlanSpec
SYMMETRY Symmetry
INVARIANTS PreviewHonest
PROPERTIES KeepsItsPlace
CHECK_DEADLOCK FALSE
