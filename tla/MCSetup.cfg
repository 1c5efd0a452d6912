SPECIFICATION SetupSpec
CONSTANTS
    Tabs = {tab1}
    DBs = {"mine", "other"}
    Zones = {"utc", "melbourne"}
    Default = "utc"
INVARIANTS RestartFindsTheSame
PROPERTIES SetupOnce
