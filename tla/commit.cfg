CONSTANTS
    s1 = s1
    s2 = s2
    b1 = b1
    None = None
    Strict = {s1, s2}
    BestEffort = {b1}
    Minutes = 1
    FaultSets <- MCFaultSets
SPECIFICATION Spec
SYMMETRY StrictSymmetry
INVARIANTS IInv AckedIsConfirmed PlainFailureReverts
PROPERTIES ImplementsChanges ConfirmsOwnCommit
CHECK_DEADLOCK FALSE
