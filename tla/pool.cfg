CONSTANTS
    c1 = c1
    c2 = c2
    e1 = e1
    e2 = e2
    t1 = t1
    Original = Original
    None = None
    Callers = {c1, c2}
    Editors = {e1, e2}
    Taggers = {t1}
    Gives <- MCGives
    FaultSets <- MCFaultSets
SPECIFICATION Spec
SYMMETRY CallerSymmetry
INVARIANTS FreshWhenQuiet NextCallUsesNewSettings
PROPERTIES SharedClient ImplementsRowCache
CHECK_DEADLOCK FALSE
