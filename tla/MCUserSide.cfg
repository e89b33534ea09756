SPECIFICATION UserSideSpec
CONSTANTS
    MaxMessages = 2
    MaxTime = 2
    MaxTrouble = 1
    Margin = 0
    None = None
INVARIANTS
    StoredOnce
    CaughtUp
PROPERTIES
    ErasedStaysErased
    BackfillEnds
    PopupsHonest
    CodesKept
    PairingSound
    RepliesAsApproved
    RequestsKept
CHECK_DEADLOCK FALSE
