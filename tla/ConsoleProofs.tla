--------------------------- MODULE ConsoleProofs ---------------------------
(***************************************************************************)
(* The query cache and the dialogs for any pages, keys and bounds, as long *)
(* as the tables of the pages are as RefreshAssumption and LockAssumption  *)
(* say.                                                                    *)
(***************************************************************************)
EXTENDS Console, TLAPS

LEMMA InitInv == Init => IInv
<1> SUFFICES ASSUME Init PROVE IInv
  OBVIOUS
<1> USE NoneAssumption
<1>1. TypeOK
  BY DEF Init, TypeOK
<1>2. NoOlderThanServer
  <2>1. server \in [Key -> Nat] /\ floor \in [Key -> Nat]
    BY <1>1 DEF TypeOK
  <2>2. \A k \in Key : /\ floor[k] = 0 /\ server[k] = 0
                       /\ data[k] # None => data[k] = 0
                       /\ fetch[k] # None => fetch[k] = 0
    BY DEF Init
  <2>3. ASSUME NEW k \in Key
        PROVE  /\ floor[k] <= server[k]
               /\ fetch[k] # None => floor[k] <= fetch[k] /\ fetch[k] <= server[k]
               /\ data[k] # None => floor[k] <= data[k]
    BY <2>2
  <2> QED BY <2>3 DEF NoOlderThanServer
<1>3. OpsOfThePage /\ OneLockedSave
  BY DEF Init, OpsOfThePage, OneLockedSave, Here
<1> QED BY <1>1, <1>2, <1>3 DEF IInv

(* A GET that mounting a page starts has what the server has.              *)
LEMMA MountFetched ==
  ASSUME IInv, NEW p, NEW aged, NEW k \in Key
  PROVE  /\ MountFetch(p, aged) \in [Key -> Nat \cup {None}]
         /\ MountFetch(p, aged)[k] \in {fetch[k], server[k]}
BY DEF IInv, TypeOK, MountFetch

(* So has one that an invalidation starts.                                 *)
LEMMA InvalidateFetched ==
  ASSUME IInv, NEW keys, NEW k \in Key
  PROVE  /\ InvalidateFetch(keys) \in [Key -> Nat \cup {None}]
         /\ InvalidateFetch(keys)[k] \in {fetch[k], server[k]}
         /\ (k \in keys \cap Reads(page) /\ ~Joined(k))
              => InvalidateFetch(keys)[k] = server[k]
BY DEF IInv, TypeOK, InvalidateFetch

LEMMA GoStep ==
  ASSUME IInv, NEW p \in Route, Go(p) PROVE IInv'
<1>1. PICK aged : fetch' = MountFetch(p, aged)
  BY DEF Go
<1>2. \A k \in Key : fetch'[k] \in {fetch[k], server[k]}
  BY <1>1, MountFetched
<1>3. fetch' \in [Key -> Nat \cup {None}]
  BY <1>1, MountFetched DEF MountFetch, IInv, TypeOK
<1>4. TypeOK'
  BY <1>3 DEF Go, Act, IInv, TypeOK
<1>5. NoOlderThanServer'
  BY <1>2, NoneAssumption DEF Go, IInv, TypeOK, NoOlderThanServer
<1>6. \A w \in writes' : ~(w \in writes /\ w.at = mount')
  BY DEF Go, IInv, TypeOK
<1>7. OpsOfThePage' /\ OneLockedSave'
  BY <1>6 DEF Go, OpsOfThePage, OneLockedSave, Here
<1> QED BY <1>4, <1>5, <1>7 DEF IInv

(* The steps of a GET and those of the server's data.                      *)
LEMMA FetchStep ==
  ASSUME IInv, NEW k \in Key, Poll(k) \/ Answer(k) \/ FailFetch(k) \/ Outside(k)
  PROVE  IInv'
<1>1. UNCHANGED <<page, mount, writes, dialog, floor>>
  BY DEF Poll, Answer, FailFetch, Outside
<1>2. OpsOfThePage' /\ OneLockedSave'
  BY <1>1 DEF IInv, OpsOfThePage, OneLockedSave, Here
<1>3. TypeOK' /\ NoOlderThanServer'
  <2> USE NoneAssumption DEF IInv, TypeOK, NoOlderThanServer
  <2>1. CASE Poll(k)
    BY <2>1 DEF Poll
  <2>2. CASE Answer(k)
    <3>1. PICK v \in fetch[k]..server[k] : data' = [data EXCEPT ![k] = v]
      BY <2>2 DEF Answer
    <3>2. fetch[k] \in Nat /\ v \in Nat /\ floor[k] <= v
      BY <2>2, <3>1 DEF Answer
    <3>3. TypeOK'
      BY <2>2, <3>1, <3>2 DEF Answer
    <3>4. NoOlderThanServer'
      BY <2>2, <3>1, <3>2 DEF Answer
    <3> QED BY <3>3, <3>4
  <2>3. CASE FailFetch(k)
    BY <2>3 DEF FailFetch, Act
  <2>4. CASE Outside(k)
    BY <2>4 DEF Outside, Act
  <2> QED BY <2>1, <2>2, <2>3, <2>4
<1> QED BY <1>2, <1>3 DEF IInv

LEMMA HoverStep ==
  ASSUME IInv, Hover PROVE IInv'
<1>1. PICK k \in Key : fetch' = [fetch EXCEPT ![k] = server[k]]
  BY DEF Hover
<1>2. /\ acts' = acts + 1
      /\ UNCHANGED <<page, mount, server, data, marked, writes, dialog, floor>>
  BY DEF Hover, Act
<1>3. TypeOK'
  BY <1>1, <1>2 DEF IInv, TypeOK
<1>4. NoOlderThanServer'
  BY <1>1, <1>2, NoneAssumption DEF IInv, TypeOK, NoOlderThanServer
<1>5. OpsOfThePage' /\ OneLockedSave'
  BY <1>2 DEF IInv, OpsOfThePage, OneLockedSave, Here
<1> QED BY <1>3, <1>4, <1>5 DEF IInv

(* The user's steps in a dialog.                                           *)
LEMMA DialogStep ==
  ASSUME IInv, OpenDialog \/ CloseDialog PROVE IInv'
<1>1. /\ acts' \in Nat
      /\ UNCHANGED <<page, mount, server, data, marked, fetch, writes, floor>>
  BY DEF OpenDialog, CloseDialog, Act, IInv, TypeOK
<1>2. TypeOK' /\ NoOlderThanServer' /\ OpsOfThePage'
  BY <1>1 DEF IInv, TypeOK, NoOlderThanServer, OpsOfThePage, Here
<1>3. \A w \in writes : ~(Here(w) /\ w.op.from \in LockedDialogs)
  <2> SUFFICES ASSUME NEW w \in writes, Here(w), w.op.from \in LockedDialogs
               PROVE  FALSE
    OBVIOUS
  <2>1. dialog.name = w.op.from /\ dialog.nr = w.nr
    BY DEF IInv, OneLockedSave
  <2>2. dialog.name \in LockedDialogs /\ InFlight(dialog.nr)
    BY <2>1 DEF InFlight
  <2>3. CASE OpenDialog
    BY <2>2, <2>3, LockAssumption DEF OpenDialog, Closed
  <2>4. CASE CloseDialog
    BY <2>2, <2>4 DEF CloseDialog
  <2> QED BY <2>3, <2>4
<1>4. OneLockedSave'
  BY <1>1, <1>3 DEF OneLockedSave, Here
<1> QED BY <1>2, <1>4 DEF IInv

LEMMA SubmitStep ==
  ASSUME IInv, NEW op \in Pages[page].ops, Submit(op) PROVE IInv'
<1> DEFINE new == [id |-> acts', op |-> op, nr |-> dialog.nr, at |-> mount,
                   done |-> FALSE]
<1>1. /\ writes' = writes \cup {new} /\ Ready(op) /\ acts' = acts + 1
      /\ UNCHANGED <<page, mount, server, data, marked, fetch, dialog, floor>>
  BY DEF Submit, Act
<1>2. new.op = op /\ new.nr = dialog.nr /\ new.at = mount
  OBVIOUS
<1> HIDE DEF new
<1>3. TypeOK'
  BY <1>1, <1>2 DEF IInv, TypeOK
<1>4. NoOlderThanServer' /\ OpsOfThePage'
  BY <1>1, <1>2 DEF IInv, NoOlderThanServer, OpsOfThePage, Here
<1>5. OneLockedSave'
  <2>1. \A w \in writes : (Here(w) /\ w.op.from \in LockedDialogs)
                            => dialog.name = w.op.from /\ dialog.nr = w.nr
    BY DEF IInv, OneLockedSave
  <2>2. CASE op.from \notin LockedDialogs
    <3>1. \A w \in writes' : (Here(w)' /\ w.op.from \in LockedDialogs)
                                => w \in writes /\ Here(w)
      BY <1>1, <1>2, <2>2 DEF Here
    <3> QED BY <1>1, <3>1 DEF IInv, OneLockedSave
  <2>3. CASE op.from \in LockedDialogs
    <3>1. op.waits = "opening" /\ ~InFlight(dialog.nr) /\ op.from = dialog.name
      BY <1>1, <2>3, LockAssumption DEF Ready, IInv, TypeOK
    <3>2. \A w \in writes : ~(Here(w) /\ w.op.from \in LockedDialogs)
      BY <2>1, <3>1 DEF InFlight
    <3> QED BY <1>1, <1>2, <3>1, <3>2 DEF OneLockedSave, Here
  <2> QED BY <2>2, <2>3
<1> QED BY <1>3, <1>4, <1>5 DEF IInv

LEMMA ApplyStep ==
  ASSUME IInv, NEW w \in writes, Apply(w) PROVE IInv'
<1> DEFINE new == [w EXCEPT !.done = TRUE]
<1>1. /\ writes' = (writes \ {w}) \cup {new}
      /\ UNCHANGED <<page, mount, data, marked, fetch, dialog, floor, acts>>
      /\ server' = [k \in Key |-> IF k \in w.op.changes THEN server[k] + 1
                                  ELSE server[k]]
  BY DEF Apply
<1>2. new.op = w.op /\ new.nr = w.nr /\ new.at = w.at
  OBVIOUS
<1> HIDE DEF new
<1>3. TypeOK'
  BY <1>1, <1>2 DEF IInv, TypeOK
<1>4. NoOlderThanServer'
  BY <1>1, NoneAssumption DEF IInv, TypeOK, NoOlderThanServer
<1>5. OpsOfThePage'
  BY <1>1, <1>2 DEF IInv, OpsOfThePage, Here
<1>6. OneLockedSave'
  BY <1>1, <1>2 DEF IInv, OneLockedSave, Here
<1> QED BY <1>3, <1>4, <1>5, <1>6 DEF IInv

(* Success: what it promises to show it has invalidated.                   *)
LEMMA SucceedStep ==
  ASSUME IInv, NEW w \in writes, Succeed(w) PROVE IInv'
<1> DEFINE keys == w.op.refreshes
           raised == IF w.at = mount THEN Promised(w.op, page) ELSE {}
<1>1. /\ writes' = writes \ {w} /\ marked' = marked \cup (keys \cap Key)
      /\ fetch' = InvalidateFetch(keys)
      /\ UNCHANGED <<page, mount, server, data, acts>>
      /\ dialog' = IF w.at = mount /\ dialog.name \in w.op.closes THEN Closed
                   ELSE dialog
  BY DEF Succeed
<1>2. floor' \in [Key -> Nat]
  BY DEF Succeed, IInv, TypeOK
<1>3. \A k \in Key : floor'[k] = IF k \in raised THEN server[k] ELSE floor[k]
  BY DEF Succeed, IInv, TypeOK
<1>4. \A k \in raised : k \in keys /\ k \in Reads(page) /\ ~Joined(k)
  <2> SUFFICES ASSUME w.at = mount, NEW k \in Promised(w.op, page)
               PROVE  k \in keys /\ k \in Reads(page) /\ ~Joined(k)
    BY Zenon
  <2>1. w.op \in Pages[page].ops /\ page \in Route
    BY DEF IInv, OpsOfThePage, Here, TypeOK
  <2>2. k \in (w.op.changes \cap Pages[page].reads) \ Forgotten(w.op, page)
    BY DEF Promised, Reads
  <2>3. k \in w.op.refreshes
    BY <2>1, <2>2, RefreshAssumption
  <2> QED BY <2>3 DEF Promised
<1> HIDE DEF raised
<1>5. \A k \in Key : /\ fetch'[k] \in {fetch[k], server[k]}
                     /\ k \in raised => fetch'[k] = server[k] /\ k \in marked'
  BY <1>1, <1>4, InvalidateFetched
<1>6. fetch' \in [Key -> Nat \cup {None}]
  BY <1>1 DEF InvalidateFetch, IInv, TypeOK
<1>7. TypeOK'
  BY <1>1, <1>2, <1>6 DEF IInv, TypeOK
<1>8. NoOlderThanServer'
  <2>1. marked \subseteq marked' /\ UNCHANGED <<server, data>>
    BY <1>1
  <2> QED BY <2>1, <1>3, <1>5, NoneAssumption DEF IInv, TypeOK, NoOlderThanServer
<1>9. OpsOfThePage'
  BY <1>1 DEF IInv, OpsOfThePage, Here
<1>10. OneLockedSave'
  <2> SUFFICES ASSUME NEW v \in writes, v # w, Here(v), v.op.from \in LockedDialogs
               PROVE  UNCHANGED dialog
    BY <1>1 DEF IInv, OneLockedSave, Here
  <2>1. dialog.name = v.op.from
    BY DEF IInv, OneLockedSave
  <2>2. SUFFICES ASSUME w.at = mount, dialog.name \in w.op.closes PROVE FALSE
    BY <1>1
  <2>3. w.op \in Pages[page].ops /\ page \in Route
    BY <2>2 DEF IInv, OpsOfThePage, Here, TypeOK
  <2>4. w.op.from = v.op.from
    BY <2>1, <2>2, <2>3, LockAssumption
  <2> QED BY <2>2, <2>4 DEF IInv, OneLockedSave, Here
<1> QED BY <1>7, <1>8, <1>9, <1>10 DEF IInv

LEMMA RefuseStep ==
  ASSUME IInv, NEW w \in writes, Refuse(w) PROVE IInv'
<1>1. /\ writes' = writes \ {w} /\ acts' = acts + 1
      /\ UNCHANGED <<page, mount, server, data, marked, fetch, dialog, floor>>
  BY DEF Refuse, Act
<1>2. TypeOK' /\ NoOlderThanServer'
  BY <1>1 DEF IInv, TypeOK, NoOlderThanServer
<1>3. OpsOfThePage' /\ OneLockedSave'
  BY <1>1 DEF IInv, OpsOfThePage, OneLockedSave, Here
<1> QED BY <1>2, <1>3 DEF IInv

LEMMA NextInv ==
  ASSUME IInv, [Next]_vars PROVE IInv'
<1>1. CASE UNCHANGED vars
  BY <1>1 DEF vars, IInv, TypeOK, NoOlderThanServer, OpsOfThePage, OneLockedSave, Here
<1>2. CASE Navigate \/ SignIn \/ SignOut
  BY <1>2, GoStep, RouteAssumption DEF Navigate, SignIn, SignOut
<1>3. CASE Hover
  BY <1>3, HoverStep
<1>4. CASE \E k \in Key : Poll(k) \/ Answer(k) \/ FailFetch(k) \/ Outside(k)
  BY <1>4, FetchStep
<1>5. CASE OpenDialog \/ CloseDialog
  BY <1>5, DialogStep
<1>6. CASE \E op \in Pages[page].ops : Submit(op)
  BY <1>6, SubmitStep
<1>7. CASE \E w \in writes : Apply(w) \/ Succeed(w) \/ Refuse(w)
  BY <1>7, ApplyStep, SucceedStep, RefuseStep
<1> QED BY <1>1, <1>2, <1>3, <1>4, <1>5, <1>6, <1>7 DEF Next

(* The invariant holds of every run of the console.                        *)
THEOREM Invariant == Spec => []IInv
<1> QED BY InitInv, NextInv, PTL DEF Spec

(***************************************************************************)
(* Whatever the pages are and in whatever order answers come: a page whose *)
(* handlers refresh what they change never comes to rest on data older     *)
(* than its own writes.                                                    *)
(***************************************************************************)
THEOREM ShowsOwn == Spec => []ShowsOwnChanges
<1>1. IInv => ShowsOwnChanges
  BY DEF IInv, NoOlderThanServer, ShowsOwnChanges, TypeOK, Reads
<1>2. Spec => []IInv
  BY Invariant
<1> QED BY <1>1, <1>2, PTL

(***************************************************************************)
(* A dialog that is told it is busy is closed by the success of its own    *)
(* save, by the user while no save of it is in flight, or with its page.   *)
(***************************************************************************)
THEOREM StaysOpen == Spec => StaysOpenWhileSaving
<1> DEFINE P == (dialog.name \in LockedDialogs /\ dialog' # dialog /\ mount' = mount)
                  => \/ writes' = writes /\ ~InFlight(dialog.nr)
                     \/ \E w \in writes \ writes' : w.done /\ w.nr = dialog.nr
<1>1. ASSUME IInv, [Next]_vars PROVE [P]_vars
  <2> SUFFICES ASSUME Next, dialog.name \in LockedDialogs, dialog' # dialog,
                      mount' = mount
               PROVE  \/ writes' = writes /\ ~InFlight(dialog.nr)
                      \/ \E w \in writes \ writes' : w.done /\ w.nr = dialog.nr
    BY <1>1 DEF vars
  <2>1. ~(Navigate \/ SignIn \/ SignOut)
    BY <1>1 DEF Navigate, SignIn, SignOut, Go, IInv, TypeOK
  <2>2. ~Hover /\ \A k \in Key : ~(Poll(k) \/ Answer(k) \/ FailFetch(k) \/ Outside(k))
    BY DEF Hover, Poll, Answer, FailFetch, Outside
  <2>3. ~OpenDialog
    BY LockAssumption DEF OpenDialog, Closed
  <2>4. \A op \in Pages[page].ops : ~Submit(op)
    BY DEF Submit
  <2>5. \A w \in writes : ~Apply(w) /\ ~Refuse(w)
    BY DEF Apply, Refuse
  <2>6. CASE CloseDialog
    BY <2>6 DEF CloseDialog
  <2>7. ASSUME NEW w \in writes, Succeed(w)
        PROVE  \E v \in writes \ writes' : v.done /\ v.nr = dialog.nr
    <3>1. w.at = mount /\ dialog.name \in w.op.closes /\ w.done /\ writes' = writes \ {w}
      BY <2>7 DEF Succeed
    <3>2. w.op \in Pages[page].ops /\ page \in Route
      BY <1>1, <3>1 DEF IInv, OpsOfThePage, Here, TypeOK
    <3>3. w.op.from = dialog.name
      BY <3>1, <3>2, LockAssumption
    <3>4. w.nr = dialog.nr
      BY <1>1, <3>1, <3>3 DEF IInv, OneLockedSave, Here
    <3> QED BY <3>1, <3>4
  <2> QED BY <2>1, <2>2, <2>3, <2>4, <2>5, <2>6, <2>7 DEF Next
<1>2. Spec => []IInv
  BY Invariant
<1> QED BY <1>1, <1>2, PTL DEF Spec, StaysOpenWhileSaving
=============================================================================
