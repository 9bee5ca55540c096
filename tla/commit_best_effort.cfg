CONSTANTS
    s1 = s1
    s2 = s2
    b1 = b1
    None = None
    Strict = {}
    BestEffort = {b1}
    Minutes = 1
    FaultSets <- RebootOnly
SPECIFICATION Spec
INVARIANT FailedConfirmReverts
CHECK_DEADLOCK FALSE
