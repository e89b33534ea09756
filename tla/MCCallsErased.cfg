SPECIFICATION SafetySpec
CONSTANTS
    Lists = 2
    MaxBackoff = 1
    MaxAsks = 1
    MaxFaults = 1
    None = None
INVARIANT ErasedCallsGone
CHECK_DEADLOCK FALSE
