SPECIFICATION SafetySpec
CONSTANTS
    MaxTrouble = 3
    MaxCycles = 1
    QuietPreflight = FALSE
    None = None
PROPERTIES
    OldSignalsExcluded
