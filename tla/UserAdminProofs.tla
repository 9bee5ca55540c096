-------------------------- MODULE UserAdminProofs --------------------------
(***************************************************************************)
(* UserAdmin for any finite set of users, any number of requests at once   *)
(* and every set of faults.                                                *)
(***************************************************************************)
EXTENDS UserAdmin, FiniteSetTheorems, TLAPS

(* More than one admin: without any one of them there is an admin left.    *)
LEMMA AnotherAdmin ==
    ASSUME Cardinality(Admins) > 1, NEW u \in Users
    PROVE  Admins \ {u} # {}
<1> SUFFICES ASSUME Admins \ {u} = {} PROVE FALSE
  OBVIOUS
<1>1. Admins \subseteq {u}
  OBVIOUS
<1>2. IsFiniteSet({u}) /\ Cardinality({u}) = 1
  BY FS_Singleton
<1>3. Cardinality(Admins) <= 1
  BY <1>1, <1>2, FS_Subset
<1>4. IsFiniteSet(Admins)
  BY <1>1, <1>2, FS_Subset
<1>5. Cardinality(Admins) \in Nat
  BY <1>4, FS_CardinalityType
<1> QED BY <1>3, <1>5

(* Every variable keeps its type.                                          *)
THEOREM TypeCorrect == Spec => []TypeOK
<1>1. Init => TypeOK
  BY DEF Init, TypeOK
<1>2. TypeOK /\ [Next]_vars => TypeOK'
  <2> SUFFICES ASSUME TypeOK, [Next]_vars PROVE TypeOK'
    OBVIOUS
  <2> USE DEF TypeOK
  <2>0. Admins \in SUBSET Users
    BY DEF Admins
  <2>1. ASSUME NEW u \in Users, Login(u) \/ Expire(u) PROVE TypeOK'
    BY <2>1 DEF Login, Expire
  <2>2. ASSUME NEW u \in Users, NEW r \in Roles, CreateUser(u, r) PROVE TypeOK'
    BY <2>2 DEF CreateUser
  <2>3. ASSUME NEW h \in Handlers, NEW u \in Users, CountUsers(h, u) PROVE TypeOK'
    BY <2>3 DEF CountUsers, Begin, Ops, Roles
  <2>4. ASSUME NEW h \in Handlers, NEW u \in Users, BeginDelete(h, u) PROVE TypeOK'
    BY <2>4 DEF BeginDelete, Begin, Ops, Roles
  <2>5. ASSUME NEW h \in Handlers, NEW u \in Users, NEW r \in Roles, BeginUpdate(h, u, r)
        PROVE  TypeOK'
    BY <2>5 DEF BeginUpdate, Begin, Ops
  <2>6. ASSUME NEW h \in Handlers, InsertFirst(h) PROVE TypeOK'
    <3>1. op[h].target \in Users
      BY <2>6 DEF InsertFirst, Ops
    <3> QED BY <2>6, <3>1 DEF InsertFirst, Return, Roles
  <2>7. ASSUME NEW h \in Handlers, ListUsers(h) PROVE TypeOK'
    BY <2>0, <2>7 DEF ListUsers, Goto
  <2>8. ASSUME NEW h \in Handlers, CountAdmins(h) PROVE TypeOK'
    BY <2>0, <2>8 DEF CountAdmins, Goto, Return
  <2>9. ASSUME NEW h \in Handlers, Write(h) PROVE TypeOK'
    <3>1. op[h].target \in Users /\ op[h].role \in Roles
      BY <2>9 DEF Write, Ops
    <3> QED BY <2>9, <3>1 DEF Write, Return
  <2>10. ASSUME NEW h \in Handlers, WriteFails(h) PROVE TypeOK'
    BY <2>10 DEF WriteFails, Return
  <2>11. CASE UNCHANGED vars
    BY <2>11 DEF vars
  <2> QED
    BY <2>1, <2>2, <2>3, <2>4, <2>5, <2>6, <2>7, <2>8, <2>9, <2>10, <2>11
    DEF Next, Request
<1> QED BY <1>1, <1>2, PTL DEF Spec

---------------------------------------------------------------------------
(* What a request has seen is its own: no other step can spoil it.         *)
LEMMA StepKeeps ==
    ASSUME IInv, [Next]_vars
    PROVE  SawAnother'
<1> USE DEF IInv, TypeOK, SawAnother, Removes
<1>1. ASSUME NEW g \in Handlers, NEW u \in Users, CountUsers(g, u) \/ BeginDelete(g, u)
      PROVE  SawAnother'
  BY <1>1 DEF CountUsers, BeginDelete, Begin
<1>2. ASSUME NEW g \in Handlers, NEW u \in Users, NEW r \in Roles, BeginUpdate(g, u, r)
      PROVE  SawAnother'
  BY <1>2 DEF BeginUpdate, Begin
<1>3. ASSUME NEW g \in Handlers, InsertFirst(g) \/ Write(g) \/ WriteFails(g)
      PROVE  SawAnother'
  BY <1>3 DEF InsertFirst, Write, WriteFails, Return
<1>4. ASSUME NEW g \in Handlers, ListUsers(g) PROVE SawAnother'
  <2>1. CASE Goto(g, IF role[op[g].target] = "admin" THEN "count" ELSE "write", {Admins})
    <3>1. role[op[g].target] # "admin" => op[g].target \notin Admins
      BY DEF Admins
    <3> QED BY <1>4, <2>1, <3>1 DEF ListUsers, Goto
  <2>2. CASE "list" \in Faults /\ Goto(g, "write", {})
    BY <1>4, <2>2 DEF ListUsers, Goto
  <2> QED BY <1>4, <2>1, <2>2 DEF ListUsers
<1>5. ASSUME NEW g \in Handlers, CountAdmins(g) PROVE SawAnother'
  <2>1. CASE Return(g)
    BY <1>5, <2>1 DEF CountAdmins, Return
  <2>2. CASE Cardinality(Admins) > 1 /\ Goto(g, "write", {Admins})
    <3>1. op[g].target \in Users /\ op[g].kind # "bootstrap"
      BY <1>5 DEF CountAdmins, Ops
    <3>2. Admins \ {op[g].target} # {}
      BY <2>2, <3>1, AnotherAdmin
    <3> QED BY <1>5, <2>2, <3>1, <3>2 DEF CountAdmins, Goto
  <2> QED BY <1>5, <2>1, <2>2 DEF CountAdmins
<1>6. CASE UNCHANGED <<pc, op, looked>>
  BY <1>6
<1> QED
  BY <1>1, <1>2, <1>3, <1>4, <1>5, <1>6 DEF Next, Request, Login, Expire, CreateUser, vars

(* A request about to remove an admin has seen another one, or a target    *)
(* that was none, unless its ListUsers failed (extras.go:631-646, 680-694),*)
(* however many requests there are and whatever fails.                     *)
THEOREM Invariant == Spec => []IInv
<1>1. Init => SawAnother
  BY DEF Init, SawAnother
<1>2. TypeOK /\ SawAnother /\ [Next]_vars => SawAnother'
  BY StepKeeps DEF IInv
<1> QED BY <1>1, <1>2, TypeCorrect, PTL DEF Spec, IInv

(* Only a write that takes the role from its target makes an admin fewer.  *)
LEMMA OnlyRemovalsTake ==
    ASSUME IInv, [Next]_vars, NEW u \in Admins, u \notin Admins'
    PROVE  \E h \in Handlers : Write(h) /\ Removes(h) /\ u = op[h].target
<1>0. u \in Users /\ role[u] = "admin" /\ role'[u] # "admin"
  BY DEF Admins
<1>1. ASSUME NEW h \in Handlers, Write(h) PROVE Removes(h) /\ u = op[h].target
  <2>1. op[h] \in Ops /\ op[h].kind # "bootstrap"
    BY <1>1 DEF Write, IInv, TypeOK, SawAnother
  <2> QED BY <1>0, <1>1, <2>1 DEF Write, IInv, TypeOK, Removes, Ops
<1>2. ASSUME NEW h \in Handlers, InsertFirst(h) PROVE FALSE
  BY <1>0, <1>2 DEF InsertFirst, IInv, TypeOK
<1>3. ASSUME NEW v \in Users, NEW r \in Roles, CreateUser(v, r) PROVE FALSE
  BY <1>0, <1>3 DEF CreateUser, IInv, TypeOK
<1> QED
  BY <1>0, <1>1, <1>2, <1>3
  DEF Next, Request, Login, Expire, CountUsers, BeginDelete, BeginUpdate, Begin,
      ListUsers, CountAdmins, WriteFails, vars

(* The guards hold good as long as nobody overtakes the request and its    *)
(* queries answer: only otherwise the last admin goes (extras.go:631, 680).*)
THEOREM GuardHolds == Spec => LastAdminGuarded
<1>1. ASSUME IInv, [Next]_vars, Admins # {}, Admins' = {}
      PROVE  \E h \in Handlers :
               /\ Write(h) /\ Removes(h)
               /\ Overtaken(h) \/ (op[h].kind = "delete" /\ looked[h] = {})
  <2>1. PICK u \in Admins : TRUE
    BY <1>1
  <2>2. PICK h \in Handlers : Write(h) /\ Removes(h) /\ u = op[h].target
    BY <1>1, <2>1, OnlyRemovalsTake
  <2>3. Admins \subseteq {op[h].target}
    <3> SUFFICES ASSUME NEW v \in Admins, v # op[h].target PROVE FALSE
      OBVIOUS
    <3>1. v \in Users /\ role'[v] = role[v] /\ role[v] = "admin"
      BY <1>1, <2>2 DEF Write, Admins, IInv, TypeOK
    <3> QED BY <1>1, <3>1 DEF Admins
  <2>4. CASE looked[h] = {}
    BY <1>1, <2>2, <2>4 DEF IInv, SawAnother, Write
  <2>5. ASSUME NEW S \in looked[h] PROVE Overtaken(h)
    <3>1. CASE op[h].target \notin S
      BY <2>1, <2>2, <3>1 DEF Overtaken
    <3>2. CASE op[h].target \in S
      <4>1. PICK v \in S : v # op[h].target
        BY <1>1, <2>2, <3>2 DEF IInv, SawAnother, Write
      <4> QED BY <2>3, <4>1 DEF Overtaken
    <3> QED BY <3>1, <3>2
  <2> QED BY <2>2, <2>4, <2>5
<1>2. IInv /\ [Next]_vars =>
        [Admins # {} /\ Admins' = {} =>
           \E h \in Handlers :
              /\ Write(h) /\ Removes(h)
              /\ Overtaken(h) \/ (op[h].kind = "delete" /\ looked[h] = {})]_vars
  BY <1>1
<1> QED BY <1>2, Invariant, PTL DEF Spec, LastAdminGuarded

=============================================================================
