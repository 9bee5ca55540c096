CONSTANTS
    n1 = n1
    n2 = n2
    r1 = r1
    r2 = r2
    Names = {n1}
    Requests = {r1, r2}
    FaultSets <- MCFaultSets
SPECIFICATION FairSpec
PROPERTIES CollectsOnlyOrphans OrphansGo
