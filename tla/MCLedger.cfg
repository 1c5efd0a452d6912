CONSTANTS
    Portfolios = {p, q}
    Days = {1,2}
    Quantities = {1}
    Ratios <- Halving
    Credentials = {web, key}
    Web = web
    Serialised = TRUE
    MaxTrades = 2
    MaxDividends = 1
    MaxActions = 1
    MaxSteps = 1
    None = None
    Markets <- Stored
SPECIFICATION Spec
SYMMETRY Symmetry
INVARIANTS DialogComplete ReadersAgree NeverOversold PairWhole StepHonest
PROPERTIES StepKeepsHistory
CHECK_DEADLOCK FALSE
