CONSTANTS
    Quantities = {1, 3}
    Costs = {10, 25}
    Nets = {7}
    Changes <- Reductions
    Ratios <- Uneven
    Prices = {4}
    RateKnown = {TRUE, FALSE}
    LastDay = 3
    NewRules = 2
    MaxRows = 4
    Grain = 2
SPECIFICATION Spec
INVARIANTS BilledToDate CostConserved ProceedsWhole UnitsAgree OldestFirst BillsInRange
CHECK_DEADLOCK FALSE
