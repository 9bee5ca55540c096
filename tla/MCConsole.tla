----------------------------- MODULE MCConsole -----------------------------
(***************************************************************************)
(* Console with the pages of the program.  Of each page only the keys are  *)
(* kept that its own operations change, or that it polls if it has none:   *)
(* the GETs of the other keys only interleave.  Of the two NAT lists one   *)
(* stands for both, and of the QoS page the bindings: what the other two   *)
(* lists of it would add is the interleaving of three GETs.                *)
(***************************************************************************)
EXTENDS Console, ConsolePages

SetAside(p) == {"nat destination"} \cup (IF "qos" \in p.reads THEN {"qos", "interfaces"} ELSE {})
Touched(p) == IF p.ops = {} THEN p.polls
              ELSE UNION {op.changes : op \in p.ops} \ SetAside(p)
SomePages ==
  [r \in DOMAIN PageTable |->
     [PageTable[r] EXCEPT !.reads = @ \cap Touched(PageTable[r])]]
AllRoutes == DOMAIN PageTable
AllKeys == UNION {SomePages[r].reads : r \in AllRoutes}
=============================================================================
