SPECIFICATION SupervisorsSpec
CONSTANTS
    MaxTrouble <- Trouble
    RestingAfter = 2
    Builds = {"signals", "polled", "legacy"}
    Cleanup = Cleanup
    None = None
INVARIANTS
    EveryWaitIsAnswered
    DialPublished
PROPERTIES
    Recovers
    BearersReturn
