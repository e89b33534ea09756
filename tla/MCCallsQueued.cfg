SPECIFICATION SafetySpec
CONSTANTS
    Ids = {c1}
    MaxTracked = 1
    MaxAttempts = 2
    MaxEvents = 1
    MaxFaults = 1
    None = None
INVARIANT CallsExact
CHECK_DEADLOCK FALSE
