SPECIFICATION Spec
CONSTANTS
    Policies = {"encrypted", "plaintext", "none"}
    MaxKeys = 2
    MaxWishes = 1
    MaxFaults = 1
    None = None
INVARIANT NoWrongPolicyAfterCrash
CHECK_DEADLOCK FALSE
