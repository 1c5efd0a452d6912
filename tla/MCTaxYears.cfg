CONSTANTS
    Disposals <- Sold
    Indexes <- Numbers
    References = {1, 2}
    FirstYear = 2026
    LastYear = 2029
    NewRules = 2028
    Domestic = {"AAA"}
    MaxSales = 2
SPECIFICATION Spec
INVARIANTS LossesOnce LeastGain MissingIsNamed SaleAddsUp
