---------------------------- MODULE MCUserAdmin ----------------------------
(* Instances of UserAdmin for TLC.                                         *)
EXTENDS UserAdmin, TLC

CONSTANTS u1, u2, u3, h1, h2

Symmetry == Permutations(Users) \cup Permutations(Handlers)
=============================================================================
