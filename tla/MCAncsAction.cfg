SPECIFICATION SafetySpec
CONSTANTS
    Uids = {u1}
    MaxRequests = 3
    MaxPending = 1
    MaxBusy = 1
    MaxEvents = 3
    MaxFaults = 1
    Modes = {"le", "legacy"}
    None = None
INVARIANT ActionsStayWithTheirEvent
CHECK_DEADLOCK FALSE
