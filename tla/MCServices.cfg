SPECIFICATION ServicesSpec
CONSTANTS
    Jobs = {sync, send, probe, cycle}
    ReservedJobs = {cycle}
    MaxPending = 3
    Cleanup = Cleanup
    None = None
INVARIANTS
    FuturesExact
    ReservationExclusive
PROPERTIES
    CleanupIsLast
    EveryJobSettles
    CallsServed
    MediaFollowsChoice
    VerdictFollows
    TetherFollows
    LockFollows
    CallLogFollows
    MnsWatched
    ReceiptsArrive
    ContactsFollow
CHECK_DEADLOCK FALSE
