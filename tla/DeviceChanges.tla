--------------------------- MODULE DeviceChanges ---------------------------
(***************************************************************************)
(* What the write flow promises of a device: a change is applied as a      *)
(* whole, one that awaits its confirmation at a time, then it is kept or   *)
(* taken back as a whole.  A change reported as a success is one that is   *)
(* kept, and what is kept goes by a restart only, which brings back what   *)
(* was stored last, a change on trial included.                            *)
(***************************************************************************)
CONSTANTS Change, Reported \* the changes whose success is reported with care
VARIABLES kept,   \* changes that nobody takes back
          trial,  \* the change that awaits its confirmation, if any
          stored, \* what a restart brings back
          acked   \* changes reported as a success

vars == <<kept, trial, stored, acked>>

Init == kept = {} /\ trial = {} /\ stored = {} /\ acked = {}

Apply ==
  /\ trial = {} /\ stored' = stored
  /\ \E c \in Change : \/ trial' = {c} /\ kept' = kept
                       \/ trial' = {} /\ kept' = kept \cup {c}
Keep     == kept' = kept \cup trial /\ trial' = {} /\ stored' = stored
TakeBack == kept' = kept /\ trial' = {} /\ stored' = stored
Store    == stored' = kept \cup trial /\ UNCHANGED <<kept, trial>>
Restart  == kept' = stored /\ trial' = {} /\ stored' = stored /\ acked' = acked

\* Only what is kept is reported, at once or later; a report is not taken back.
Report == acked \subseteq acked' /\ acked' \ acked \subseteq kept' \cap Reported

Next ==
  /\ Apply \/ Keep \/ TakeBack \/ Store \/ Restart \/ UNCHANGED <<kept, trial, stored>>
  /\ Report

Spec == Init /\ [][Next]_vars
=============================================================================
