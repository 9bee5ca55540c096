---------------------------- MODULE MCClientPool ----------------------------
(* Instances of ClientPool for TLC: e1 changes the connection settings, e2 *)
(* only the tags, c1 and c2 are interchangeable.                           *)
EXTENDS ClientPool, TLC

CONSTANTS c1, c2, e1, e2, t1

MCGives == [e \in Editors |-> IF e = e1 THEN {"connection"} ELSE {"tags"}]

MCFaultSets == {{}, {"lost_answer"}, AllFaults}

CallerSymmetry == Permutations(Callers)

=============================================================================
