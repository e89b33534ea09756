SPECIFICATION LinksSpec
CONSTANTS
    MaxTrouble = 3
    MaxCycles = 2
    QuietPreflight = TRUE
    None = None
INVARIANTS
    ObligationOnDisk
    UserChoiceStands
PROPERTIES
    RadioReturns
    RecoveryEarned
    AncsFollows
    RouteSettles
CHECK_DEADLOCK FALSE
