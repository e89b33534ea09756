SPECIFICATION SafetySpec
CONSTANTS
    MaxMessages = 2
    MaxTime = 3
    MaxTrouble = 2
    Margin = 0
    None = None
INVARIANTS
    EveryGapFilled
