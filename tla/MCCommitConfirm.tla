-------------------------- MODULE MCCommitConfirm --------------------------
(* Instances of CommitConfirm for TLC.                                     *)
EXTENDS CommitConfirm, TLC

CONSTANTS s1, s2, b1

StrictSymmetry == Permutations({s1, s2})

(* Everything; no late calls; no crashes and reboots; nothing.             *)
MCFaultSets ==
    {AllFaults, AllFaults \ {"late"}, {"answer", "late"}, {}}
RebootOnly == {{"reboot"}}

=============================================================================
