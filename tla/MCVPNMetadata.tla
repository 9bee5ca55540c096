--------------------------- MODULE MCVPNMetadata ---------------------------
(* Instances of VPNMetadata for TLC.                                       *)
EXTENDS VPNMetadata

CONSTANTS n1, n2, r1, r2

MCFaultSets == {{"store", "device", "lost_answer"}, {"overlap", "readd", "lost_answer"}}

=============================================================================
