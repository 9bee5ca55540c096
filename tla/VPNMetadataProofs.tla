------------------------- MODULE VPNMetadataProofs -------------------------
(* Orphan collection is safe as long as requests do not overlap and no     *)
(* profile that has a row comes back from outside, for any set of profiles *)
(* and of requests and all other faults.                                   *)
EXTENDS VPNMetadata, TLAPS

LEMMA InitIInv == Init => IInv
  BY DEF Init, IInv, TypeOK, OneAtATime, ReadsAgree, Kinds

(* The steps of a request that stay within its own entries.                *)
LEMMA RequestSteps ==
    ASSUME IInv, NEW r \in Requests,
           \/ Start(r) \/ ReadConfig(r) \/ ReadRows(r) \/ AfterRead(r)
           \/ \E n \in Names : CollectOrphan(r, n)
    PROVE  IInv'
  <1>1. CASE Start(r)
    <2>1. PICK kind \in Kinds, n \in Names : Begin(r, kind, n)
      BY <1>1 DEF Start
    <2>2. TypeOK'
      BY <2>1 DEF Begin, Goto, IInv, TypeOK
    <2>3. ReadsAgree'
      BY <2>1 DEF Begin, Goto, IInv, TypeOK, ReadsAgree, OneAtATime, Calm
    <2>4. OneAtATime'
      BY <2>1 DEF Begin, Goto, IInv, TypeOK, OneAtATime
    <2> QED  BY <2>2, <2>3, <2>4 DEF IInv
  <1>2. CASE ReadConfig(r)
    <2>1. /\ pc' \in [Requests -> {"idle", "config", "meta", "gc", "configure", "store"}]
          /\ UNCHANGED <<faults, device, used, rows, req, orphans>>
      BY <1>2 DEF ReadConfig, Goto, IInv, TypeOK
    <2>3. seen' \in [Requests -> [names: SUBSET Names, used: SUBSET Names]]
      <3>1. [names |-> device, used |-> used] \in [names: SUBSET Names, used: SUBSET Names]
        BY DEF IInv, TypeOK
      <3>2. \/ seen' = [seen EXCEPT ![r] = [names |-> device, used |-> used]]
            \/ seen' = seen
        BY <1>2 DEF ReadConfig
      <3> QED  BY <3>1, <3>2 DEF IInv, TypeOK
    <2>4. TypeOK'
      BY <2>1, <2>3 DEF IInv, TypeOK
    <2>7. \A q \in Requests : q = r \/ (pc'[q] = pc[q] /\ seen'[q] = seen[q])
      BY <1>2 DEF ReadConfig, Goto, IInv, TypeOK
    <2>8. pc'[r] = "meta" => seen'[r].names = device
      BY <1>2 DEF ReadConfig, Goto, IInv, TypeOK
    <2>2. ReadsAgree'
      <3>1. \A q \in Requests : pc'[q] # "gc" => orphans'[q] = {}
        BY <1>2, <2>1, <2>7 DEF ReadConfig, IInv, ReadsAgree
      <3>2. Calm' => Calm
        BY <2>1 DEF Calm
      <3> QED  BY <2>1, <2>7, <2>8, <3>1, <3>2 DEF IInv, ReadsAgree
    <2>5. OneAtATime'
      BY <1>2 DEF ReadConfig, Goto, IInv, TypeOK, OneAtATime
    <2> QED  BY <2>4, <2>2, <2>5 DEF IInv
  <1>3. CASE ReadRows(r)
    <2>1. TypeOK'
      BY <1>3 DEF ReadRows, Goto, IInv, TypeOK
    <2>2. ReadsAgree'
      BY <1>3 DEF ReadRows, Goto, IInv, TypeOK, ReadsAgree, OneAtATime, Calm
    <2>5. OneAtATime'
      BY <1>3 DEF ReadRows, Goto, IInv, TypeOK, OneAtATime
    <2> QED  BY <2>1, <2>2, <2>5 DEF IInv
  <1>4. CASE AfterRead(r)
    <2>1. TypeOK'
      BY <1>4 DEF AfterRead, Goto, IInv, TypeOK
    <2>2. ReadsAgree'
      BY <1>4 DEF AfterRead, Goto, IInv, TypeOK, ReadsAgree, OneAtATime, Calm
    <2>5. OneAtATime'
      BY <1>4 DEF AfterRead, Goto, IInv, TypeOK, OneAtATime
    <2> QED  BY <2>1, <2>2, <2>5 DEF IInv
  <1>5. ASSUME NEW n \in Names, CollectOrphan(r, n)
        PROVE  IInv'
    <2>1. TypeOK'
      BY <1>5 DEF CollectOrphan, IInv, TypeOK
    <2>2. ReadsAgree'
      BY <1>5 DEF CollectOrphan, IInv, TypeOK, ReadsAgree, OneAtATime, Calm
    <2>5. OneAtATime'
      BY <1>5 DEF CollectOrphan, IInv, OneAtATime
    <2> QED  BY <2>1, <2>2, <2>5 DEF IInv
  <1> QED  BY <1>1, <1>2, <1>3, <1>4, <1>5

(* The writes: no request has orphans or reads under way while one of them *)
(* happens, because the only request is the one that writes.               *)
LEMMA Writes ==
    ASSUME IInv, NEW r \in Requests, Configure(r) \/ StoreRow(r)
    PROVE  IInv'
  <1>1. CASE Configure(r)
    <2>1. TypeOK'
      BY <1>1 DEF Configure, Goto, IInv, TypeOK
    <2>2. ReadsAgree'
      BY <1>1 DEF Configure, Goto, IInv, TypeOK, ReadsAgree, OneAtATime, Calm
    <2>5. OneAtATime'
      BY <1>1 DEF Configure, Goto, IInv, TypeOK, OneAtATime
    <2> QED  BY <2>1, <2>2, <2>5 DEF IInv
  <1>2. CASE StoreRow(r)
    <2>1. TypeOK'
      BY <1>2 DEF StoreRow, Goto, IInv, TypeOK, Kinds
    <2>2. ReadsAgree'
      BY <1>2 DEF StoreRow, Goto, IInv, TypeOK, ReadsAgree, OneAtATime, Calm
    <2>5. OneAtATime'
      BY <1>2 DEF StoreRow, Goto, IInv, TypeOK, OneAtATime
    <2> QED  BY <2>1, <2>2, <2>5 DEF IInv
  <1> QED  BY <1>1, <1>2

(* A profile that appears outside has no row, one that disappears only     *)
(* makes orphans.                                                          *)
LEMMA OutsideSteps ==
    ASSUME IInv, Outside
    PROVE  IInv'
  <1>1. PICK n \in Names : AddOutside(n) \/ RemoveOutside(n) \/ ChangePeer(n)
    BY DEF Outside
  <1>2. TypeOK'
    BY <1>1 DEF AddOutside, RemoveOutside, ChangePeer, IInv, TypeOK
  <1>5. OneAtATime'
    BY <1>1 DEF AddOutside, RemoveOutside, ChangePeer, IInv, OneAtATime
  <1>3. CASE AddOutside(n)
    <2>1. (Calm => n \notin rows) /\ device' = device \cup {n}
      BY <1>3 DEF AddOutside, Calm
    <2>2. UNCHANGED <<faults, rows, pc, seen, orphans>>
      BY <1>3 DEF AddOutside
    <2>3. ReadsAgree'
      BY <2>1, <2>2 DEF IInv, ReadsAgree, Calm
    <2> QED  BY <1>2, <1>5, <2>3 DEF IInv
  <1>4. CASE RemoveOutside(n) \/ ChangePeer(n)
    <2>1. device' \subseteq device /\ UNCHANGED <<faults, rows, pc, seen, orphans>>
      BY <1>4 DEF RemoveOutside, ChangePeer
    <2>2. ReadsAgree'
      BY <2>1 DEF IInv, ReadsAgree, Calm
    <2> QED  BY <1>2, <1>5, <2>2 DEF IInv
  <1> QED  BY <1>1, <1>3, <1>4

LEMMA NextIInv == IInv /\ [Next]_vars => IInv'
  <1> SUFFICES ASSUME IInv, [Next]_vars PROVE IInv'
    OBVIOUS
  <1>1. CASE Outside
    BY <1>1, OutsideSteps
  <1>2. ASSUME NEW r \in Requests, Start(r) \/ Progress(r)
        PROVE  IInv'
    BY <1>2, RequestSteps, Writes DEF Progress
  <1>3. CASE UNCHANGED vars
    BY <1>3 DEF vars, IInv, TypeOK, OneAtATime, ReadsAgree, Calm
  <1> QED  BY <1>1, <1>2, <1>3 DEF Next

(* A request's view of the device and of the rows agree until it has       *)
(* deleted its orphans.                                                    *)
THEOREM Invariant == Spec => []IInv
  <1>1. Init => IInv
    BY InitIInv
  <1>2. IInv /\ [Next]_vars => IInv'
    BY NextIInv
  <1> QED  BY <1>1, <1>2, PTL DEF Spec

(* Orphan collection never takes the row of a profile that exists.         *)
THEOREM OnlyOrphansGo == Spec => CollectsOnlyOrphans
  <1>1. IInv => [\A r \in Requests, n \in Names :
                    Calm /\ CollectOrphan(r, n) /\ rows' # rows => n \notin device]_vars
    BY DEF IInv, ReadsAgree, CollectOrphan
  <1>2. Spec => []IInv
    BY Invariant
  <1> QED  BY <1>1, <1>2, PTL DEF CollectsOnlyOrphans

=============================================================================
