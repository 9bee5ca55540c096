----------------------------- MODULE ItemStore -----------------------------
(***************************************************************************)
(* What a page that edits one item at a time promises of the device: a     *)
(* step puts or removes one item.  The others stay, but for what the page  *)
(* cannot carry (Worn(b) is b after a trip to the page and back) and those *)
(* the page does not tell from it (Alike(k)), which may go.  Once a click  *)
(* met a list that was not current nothing is promised any more.           *)
(***************************************************************************)
CONSTANTS Key, Body, None, Worn(_), Alike(_)
VARIABLES items,  \* [Key -> Body \cup {None}]
          raced   \* a click met a list that was not, or no longer, current

vars == <<items, raced>>

Init == items \in [Key -> Body \cup {None}] /\ raced = FALSE

Put(k, b) ==
  /\ items' \in [Key -> Body \cup {None}]
  /\ items'[k] = b
  /\ \A j \in Key \ Alike(k) : items'[j] \in {items[j], Worn(items[j])}
  /\ \A j \in Alike(k) \ {k} : items'[j] \in {items[j], Worn(items[j]), None}

Change == \E k \in Key, b \in Body \cup {None} : Put(k, b)
Wipe   == items' = [k \in Key |-> None]

Next ==
  \/ ~raced /\ (Change \/ Wipe) /\ raced' \in BOOLEAN
  \/ ~raced /\ raced' /\ UNCHANGED items
  \/ raced /\ raced'

Spec == Init /\ [][Next]_vars
=============================================================================
