SPECIFICATION SafetySpec
CONSTANTS
    MaxPending = 2
    MaxTrouble = 2
    Cleanup = Cleanup
    None = None
INVARIANTS
    NeverStuck
    NoMissedLoss
    StatusHonest
