-------------------------- MODULE MCSnapshotChain --------------------------
(* Instances of SnapshotChain for TLC.                                     *)
EXTENDS SnapshotChain, TLC

CONSTANTS A, B, p1, h1, h2

ConfigSymmetry == Permutations({A, B})

MCFaultSets == {{}, {"fail"}, AllFaults}

=============================================================================
