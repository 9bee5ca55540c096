CONSTANTS
    A = A
    B = B
    p1 = p1
    h1 = h1
    h2 = h2
    Pollers = {p1}
    Handlers = {h1}
    Configs = {A, B}
    MaxChanges = 3
    FaultSets <- MCFaultSets
SPECIFICATION Spec
SYMMETRY ConfigSymmetry
INVARIANTS ParentDiffers NoDuplicateInARow OneChain AnswerIsCurrent
