-------------------------- MODULE ClientPoolProofs --------------------------
(***************************************************************************)
(* ClientPool for any number of callers, editors and taggers: Get returns  *)
(* nothing older than the last UpdateDevice that returned.                 *)
(***************************************************************************)
EXTENDS ClientPool, TLAPS

(* Every variable of the client pool keeps its type.                       *)
THEOREM TypeCorrect == Spec => []TypeOK
<1>1. Init => TypeOK
  BY DEF Init, TypeOK, Rows, Writers, Clients
<1>2. TypeOK /\ [Next]_vars => TypeOK'
  <2> SUFFICES ASSUME TypeOK, [Next]_vars PROVE TypeOK'
    OBVIOUS
  <2> USE DEF TypeOK, Clients
  <2>1. ASSUME NEW c \in Callers, Lookup(c) PROVE TypeOK'
    BY <2>1 DEF Lookup, Return
  <2>2. ASSUME NEW c \in Callers, ReadRow(c) PROVE TypeOK'
    BY <2>2 DEF ReadRow, Return
  <2>3. ASSUME NEW c \in Callers, Fill(c) PROVE TypeOK'
    BY <2>3 DEF Fill, Return
  <2>4. ASSUME NEW c \in Callers, RebootDevice(c) PROVE TypeOK'
    BY <2>4 DEF RebootDevice
  <2>5. ASSUME NEW e \in Editors, ReadWhole(e) PROVE TypeOK'
    BY <2>5 DEF ReadWhole
  <2>6. ASSUME NEW e \in Editors, WriteWhole(e) PROVE TypeOK'
    <3>1. row' \in Rows \cup {None}
      BY <2>6, GivesFields DEF WriteWhole, Patched, Rows, Writers
    <3>2. pc' \in [Callers \cup Editors \cup Taggers ->
                     {"idle", "read", "fill", "write", "invalidate", "done"}]
      BY <2>6 DEF WriteWhole
    <3> QED BY <2>6, <3>1, <3>2 DEF WriteWhole
  <2>7. ASSUME NEW e \in Editors, WriteFails(e) PROVE TypeOK'
    BY <2>7 DEF WriteFails
  <2>8. ASSUME NEW e \in Editors, Invalidate(e) PROVE TypeOK'
    BY <2>8 DEF Invalidate
  <2>9. ASSUME NEW t \in Taggers, UpdateDeviceTags(t) PROVE TypeOK'
    BY <2>9 DEF UpdateDeviceTags, Rows, Writers, Fields
  <2>10. CASE DeleteDevice
    BY <2>10 DEF DeleteDevice
  <2>11. CASE UNCHANGED vars
    BY <2>11 DEF vars
  <2> QED
    BY <2>1, <2>2, <2>3, <2>4, <2>5, <2>6, <2>7, <2>8, <2>9, <2>10, <2>11
    DEF Next, Get, UpdateDevice
<1> QED BY <1>1, <1>2, PTL DEF Spec

---------------------------------------------------------------------------
USE DEF NewEnough, ReadIsFresh, InOrder, FreshWhenQuiet,
        NextCallUsesNewSettings, Editing

(* One step keeps the inductive invariant.                                 *)
LEMMA StepInv ==
    ASSUME TypeOK, IInv, [Next]_vars
    PROVE  IInv'
<1> USE NoneIsNone DEF TypeOK, Clients, IInv
<1>1. ASSUME NEW c \in Callers, Lookup(c) PROVE IInv'
  <2>1. \A e \in Editors : pc'[e] = pc[e]
    BY <1>1, ApartActors DEF Lookup, Return
  <2> QED BY <1>1, <2>1 DEF Lookup, Return
<1>2. ASSUME NEW c \in Callers, ReadRow(c) PROVE IInv'
  <2>1. \A e \in Editors : pc'[e] = pc[e]
    BY <1>2, ApartActors DEF ReadRow, Return
  <2> QED BY <1>2, <2>1 DEF ReadRow, Return
<1>3. ASSUME NEW c \in Callers, Fill(c) PROVE IInv'
  <2>1. \A e \in Editors : pc'[e] = pc[e]
    BY <1>3, ApartActors DEF Fill, Return
  <2> QED BY <1>3, <2>1 DEF Fill, Return
<1>4. ASSUME NEW c \in Callers, RebootDevice(c) PROVE IInv'
  <2>1. \A e \in Editors : pc'[e] = pc[e]
    BY <1>4, ApartActors DEF RebootDevice
  <2> QED BY <1>4, <2>1 DEF RebootDevice
<1>5. ASSUME NEW e \in Editors, ReadWhole(e) PROVE IInv'
  <2>1. /\ \A c \in Callers : pc'[c] = pc[c]
        /\ Editing' <=> Editing
    BY <1>5, ApartActors DEF ReadWhole
  <2> QED BY <1>5, <2>1 DEF ReadWhole
<1>6. ASSUME NEW e \in Editors, WriteWhole(e) PROVE IInv'
  <2>1. /\ \A c \in Callers : pc'[c] = pc[c]
        /\ "lost_answer" \notin faults => Editing'
    BY <1>6, ApartActors DEF WriteWhole
  <2> QED BY <1>6, <2>1 DEF WriteWhole
<1>7. ASSUME NEW e \in Editors, WriteFails(e) PROVE IInv'
  <2>1. /\ \A c \in Callers : pc'[c] = pc[c]
        /\ Editing' <=> Editing
    BY <1>7, ApartActors DEF WriteFails
  <2> QED BY <1>7, <2>1 DEF WriteFails
<1>8. ASSUME NEW e \in Editors, Invalidate(e) PROVE IInv'
  <2>1. \A c \in Callers : pc'[c] = pc[c]
    BY <1>8, ApartActors DEF Invalidate
  <2>2. "slow_fill" \notin faults =>
            \A c \in Callers : pc[c] = "fill" => read[c] = version
    BY <1>8 DEF Invalidate, Overtaken
  <2> QED BY <1>8, <2>1, <2>2 DEF Invalidate
<1>9. ASSUME NEW t \in Taggers, UpdateDeviceTags(t) PROVE IInv'
  <2>1. /\ \A c \in Callers : pc'[c] = pc[c]
        /\ Editing' <=> Editing
    BY <1>9, ApartActors DEF UpdateDeviceTags
  <2> QED BY <1>9, <2>1 DEF UpdateDeviceTags
<1>10. CASE DeleteDevice
  BY <1>10 DEF DeleteDevice
<1>11. CASE UNCHANGED vars
  BY <1>11 DEF vars
<1> QED
  BY <1>1, <1>2, <1>3, <1>4, <1>5, <1>6, <1>7, <1>8, <1>9, <1>10, <1>11
  DEF Next, Get, UpdateDevice

(* If no Get is overtaken by a whole UpdateDevice, a read that is about to *)
(* fill the cache, and the cache itself, are as new as the last finished   *)
(* edit (pool.go:24-55, completeness.go:245-252).                          *)
THEOREM Invariant == Spec => []IInv
<1>1. Init => IInv
  BY NoneIsNone DEF Init, IInv
<1>2. TypeOK /\ IInv /\ [Next]_vars => IInv'
  BY StepInv
<1> QED BY <1>1, <1>2, TypeCorrect, PTL DEF Spec

(* The promise of UpdateDevice: a Get that begins after it returned uses   *)
(* the new address and key (completeness.go:251).                          *)
THEOREM NextCallIsFresh == Spec => []NextCallUsesNewSettings
<1>1. IInv => NextCallUsesNewSettings
  BY DEF IInv
<1> QED BY <1>1, Invariant, PTL

(* If moreover no UPDATE loses its answer, a client cached while nothing   *)
(* is being edited was built from the row as it is (pool.go:24-55).        *)
THEOREM QuietIsFresh == Spec => []FreshWhenQuiet
<1>1. IInv => FreshWhenQuiet
  BY DEF IInv
<1>2. Spec => []IInv
  BY Invariant
<1> QED BY <1>1, <1>2, PTL

(* Callers share the cached client: nobody replaces a client others are    *)
(* using, and whoever gets one gets the one that stays (pool.go:37-39).    *)
THEOREM ClientIsShared == Spec => SharedClient
<1> DEFINE Shared == /\ cache # None => cache' \in {cache, None}
                     /\ \A c \in Callers :
                            pc'[c] = "done" /\ pc[c] # "done" /\ got'[c] # None
                                => got'[c] = cache'
<1>1. TypeOK /\ [Next]_vars => [Shared]_vars
  <2> SUFFICES ASSUME TypeOK, Next PROVE Shared
    OBVIOUS
  <2>1. ASSUME NEW d \in Callers, Lookup(d) PROVE Shared
    BY <2>1 DEF Lookup, Return, TypeOK
  <2>2. ASSUME NEW d \in Callers, ReadRow(d) PROVE Shared
    BY <2>2 DEF ReadRow, Return, TypeOK
  <2>3. ASSUME NEW d \in Callers, Fill(d) PROVE Shared
    BY <2>3 DEF Fill, Return, TypeOK
  <2>4. ASSUME NEW d \in Callers, RebootDevice(d) PROVE Shared
    BY <2>4 DEF RebootDevice, TypeOK
  <2>5. ASSUME NEW e \in Editors, UpdateDevice(e) PROVE Shared
    <3>1. cache' \in {cache, None}
      BY <2>5 DEF UpdateDevice, ReadWhole, WriteWhole, WriteFails, Invalidate
    <3>2. \A c \in Callers : pc'[c] = pc[c]
      BY <2>5, ApartActors DEF UpdateDevice, ReadWhole, WriteWhole, WriteFails, Invalidate, TypeOK
    <3> QED BY <3>1, <3>2
  <2>6. ASSUME NEW t \in Taggers, UpdateDeviceTags(t) PROVE Shared
    BY <2>6, ApartActors DEF UpdateDeviceTags, TypeOK
  <2>7. CASE DeleteDevice
    BY <2>7 DEF DeleteDevice
  <2> QED BY <2>1, <2>2, <2>3, <2>4, <2>5, <2>6, <2>7 DEF Next, Get
<1> QED BY <1>1, TypeCorrect, PTL DEF Spec, SharedClient

---------------------------------------------------------------------------
(* A step of the pool is a step of the cache that is filled in one step.   *)
LEMMA StepImplements ==
    ASSUME TypeOK, IInv, [Next]_vars
    PROVE  [AtomicCache!Next]_(AtomicCache!vars)
<1> DEFINE Same == UNCHANGED <<faults, version, finished, cache, got>>
<1>1. /\ TypeOK /\ InOrder
      /\ "slow_fill" \notin faults => NewEnough
  BY DEF IInv
<1>2. CASE Same
  BY <1>2 DEF AtomicCache!vars
<1>3. ASSUME NEW c \in Callers, Lookup(c) PROVE Same \/ AtomicCache!Next
  BY <1>3 DEF Lookup, Return, AtomicCache!Next, AtomicCache!Get, AtomicCache!Hit
<1>4. ASSUME NEW c \in Callers, ReadRow(c) PROVE Same \/ AtomicCache!Next
  BY <1>4 DEF ReadRow, Return, AtomicCache!Next, AtomicCache!Get, AtomicCache!Fail
<1>5. ASSUME NEW c \in Callers, Fill(c) PROVE AtomicCache!Next
  <2>1. /\ cache' = IF cache # None THEN cache ELSE read[c]
        /\ got' = [got EXCEPT ![c] = cache'] /\ UNCHANGED <<faults, version, finished>>
    BY <1>5 DEF Fill, Return
  <2>2. read[c] \in (IF "slow_fill" \in faults THEN 0 ELSE finished)..version
    BY <1>1, <1>5 DEF Fill, TypeOK
  <2>3. CASE cache # None
    BY <2>1, <2>3 DEF AtomicCache!Next, AtomicCache!Get, AtomicCache!Hit
  <2>4. CASE cache = None
    BY <2>1, <2>2, <2>4 DEF AtomicCache!Next, AtomicCache!Get, AtomicCache!Load
  <2> QED
    BY <2>3, <2>4
<1>6. ASSUME NEW c \in Callers, RebootDevice(c) PROVE AtomicCache!Next
  BY <1>6 DEF RebootDevice, AtomicCache!Next, AtomicCache!Drop
<1>7. ASSUME NEW e \in Editors, ReadWhole(e) \/ WriteFails(e) PROVE Same
  BY <1>7 DEF ReadWhole, WriteFails
<1>8. ASSUME NEW e \in Editors, WriteWhole(e) PROVE AtomicCache!Next
  BY <1>8 DEF WriteWhole, AtomicCache!Next, AtomicCache!Write
<1>9. ASSUME NEW e \in Editors, Invalidate(e) PROVE AtomicCache!Next
  <2>1. finished' \in finished..version
    BY <1>1, <1>9 DEF Invalidate, TypeOK
  <2> QED
    BY <1>9, <2>1 DEF Invalidate, AtomicCache!Next, AtomicCache!Finish
<1>10. ASSUME NEW t \in Taggers, UpdateDeviceTags(t) PROVE Same
  BY <1>10 DEF UpdateDeviceTags
<1>11. CASE DeleteDevice
  BY <1>2, <1>11 DEF DeleteDevice
<1>12. CASE UNCHANGED vars
  BY <1>2, <1>12 DEF vars
<1> HIDE DEF Same
<1> QED
  BY <1>2, <1>3, <1>4, <1>5, <1>6, <1>7, <1>8, <1>9, <1>10, <1>11, <1>12
     DEF Next, Get, UpdateDevice

(* The two looks of Get and the read between them come to one step, with a *)
(* client that is no older than the last edit that is over: a fill is as   *)
(* new as that (NewEnough), so the cache always is.                        *)
THEOREM FillsInOneStep == Spec => ImplementsRowCache
<1>1. Init => AtomicCache!Init
  BY DEF Init, AtomicCache!Init
<1>2. TypeOK /\ IInv /\ [Next]_vars => [AtomicCache!Next]_(AtomicCache!vars)
  BY StepImplements
<1> QED
  BY <1>1, <1>2, Invariant, TypeCorrect, PTL DEF Spec, ImplementsRowCache, AtomicCache!Spec

=============================================================================
