------------------------------ MODULE RowCache ------------------------------
(***************************************************************************)
(* What the pool of device clients promises: a cache that is looked up and *)
(* filled in one step, with a client of settings no older than the last    *)
(* edit that is over.  loose: edits are so much faster than Get that an    *)
(* older one may be filled in after all.                                   *)
(***************************************************************************)
EXTENDS Naturals

CONSTANTS Caller, None
VARIABLES loose,
          newest,   \* the version of the settings in the row
          finished, \* the newest version whose edit is over
          cache,    \* the cached client, known by its version, or None
          got       \* got[c]: what c got last

vars == <<loose, newest, finished, cache, got>>

Init ==
  /\ loose \in BOOLEAN /\ newest = 0 /\ finished = 0
  /\ cache = None /\ got = [c \in Caller |-> None]

Write  == newest' = newest + 1 /\ UNCHANGED <<finished, cache, got>>
Finish == finished' \in finished..newest /\ cache' = None /\ UNCHANGED <<newest, got>>
Drop   == cache' = None /\ UNCHANGED <<newest, finished, got>>

Hit(c)  == cache # None /\ got' = [got EXCEPT ![c] = cache] /\ cache' = cache
Load(c) == cache = None /\ \E v \in (IF loose THEN 0 ELSE finished)..newest :
             got' = [got EXCEPT ![c] = v] /\ cache' = v
Fail(c) == got' = [got EXCEPT ![c] = None] /\ cache' = cache
Get(c)  == (Hit(c) \/ Load(c) \/ Fail(c)) /\ UNCHANGED <<newest, finished>>

Next == (Write \/ Finish \/ Drop \/ \E c \in Caller : Get(c)) /\ loose' = loose

Spec == Init /\ [][Next]_vars
=============================================================================
