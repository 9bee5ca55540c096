----------------------------- MODULE UserAdmin -----------------------------
(***************************************************************************)
(* The users table and the handlers that change it.  bootstrap, updateUser *)
(* and deleteUser look at the table first (CountUsers, ListUsers,          *)
(* CountAdmins) and write it in a later statement; a handler may hash a    *)
(* password in between.  A user's roles array is its strongest role.       *)
(***************************************************************************)
EXTENDS Naturals, FiniteSets

CONSTANTS
    Users,    \* ids (each with its own email)
    Handlers, \* requests to bootstrap, updateUser or deleteUser under way
    Faults    \* "list": ListUsers may fail; "count": CountAdmins;
              \* "write": the statement that writes

Roles == {"admin", "operator", "viewer"}

ASSUME FiniteUsers == IsFiniteSet(Users)
ASSUME FaultsKnown == Faults \subseteq {"list", "count", "write"}

VARIABLES
    role,   \* role[u]: its strongest role, "absent" if there is no such row
    tokens, \* users with a token that passes requireRole("user.create")
    pc,     \* pc[h]: the statement the request makes next
    op,     \* op[h]: what the request asks for
    looked  \* looked[h]: {the admins there were when it looked}, {} if it did
            \* not (history: the code keeps their number, or the target's roles)

vars == <<role, tokens, pc, op, looked>>

Ops   == [kind: {"bootstrap", "update", "delete"}, target: Users, role: Roles]
NoOp  == [kind |-> "none"]

TypeOK ==
    /\ role \in [Users -> Roles \cup {"absent"}]
    /\ tokens \subseteq Users
    /\ pc \in [Handlers -> {"idle", "insert", "list", "count", "write"}]
    /\ op \in [Handlers -> Ops \cup {NoOp}]
    /\ \A h \in Handlers : pc[h] # "idle" => op[h] \in Ops
    /\ looked \in [Handlers -> SUBSET SUBSET Users]

Present == {u \in Users : role[u] # "absent"}
Admins  == {u \in Users : role[u] = "admin"}

Init ==
    /\ role = [u \in Users |-> "absent"]
    /\ tokens = {}
    /\ pc = [h \in Handlers |-> "idle"]
    /\ op = [h \in Handlers |-> NoOp]
    /\ looked = [h \in Handlers |-> {}]

Begin(h, kind, u, r, first) ==
    /\ pc[h] = "idle"
    /\ pc' = [pc EXCEPT ![h] = first]
    /\ op' = [op EXCEPT ![h] = [kind |-> kind, target |-> u, role |-> r]]
    /\ UNCHANGED <<role, tokens, looked>>

Goto(h, next, seen) ==
    /\ pc' = [pc EXCEPT ![h] = next]
    /\ looked' = [looked EXCEPT ![h] = seen]
    /\ op' = op

Return(h) ==
    /\ pc' = [pc EXCEPT ![h] = "idle"]
    /\ op' = [op EXCEPT ![h] = NoOp]
    /\ looked' = [looked EXCEPT ![h] = {}]

(* RoleAllows: an admin or an operator may do "user.create".               *)
Allowed(r) == r \in {"admin", "operator"}

---------------------------------------------------------------------------
(* Tokens carry the roles of the time of the login, until they expire.     *)

Login(u) ==
    /\ Allowed(role[u])
    /\ tokens' = tokens \cup {u}
    /\ UNCHANGED <<role, pc, op, looked>>

Expire(u) ==
    /\ u \in tokens
    /\ tokens' = tokens \ {u}
    /\ UNCHANGED <<role, pc, op, looked>>

(* createUser: one INSERT.                                                 *)
CreateUser(u, r) ==
    /\ tokens # {}
    /\ role[u] = "absent"
    /\ role' = [role EXCEPT ![u] = r]
    /\ UNCHANGED <<tokens, pc, op, looked>>

---------------------------------------------------------------------------
(* bootstrap: CountUsers, then the INSERT of the first admin.              *)

CountUsers(h, u) == Present = {} /\ Begin(h, "bootstrap", u, "admin", "insert")

InsertFirst(h) ==
    /\ pc[h] = "insert"
    /\ LET u == op[h].target IN
       IF role[u] = "absent"
         THEN /\ role' = [role EXCEPT ![u] = "admin"]
              /\ tokens' = tokens \cup {u}
         ELSE UNCHANGED <<role, tokens>>  \* the email is taken
    /\ Return(h)

---------------------------------------------------------------------------
(* updateUser and deleteUser.                                              *)

(* Mutant: no guard on a demotion.                                         *)
BeginUnguarded(h, u, r) == tokens # {} /\ Begin(h, "update", u, r, "write")

(* An update that leaves the admin role counts the admins first.           *)
BeginUpdate(h, u, r) ==
    /\ tokens # {}
    /\ Begin(h, "update", u, r, IF r = "admin" THEN "write" ELSE "count")

(* Nobody deletes their own account: the caller is another user.           *)
BeginDelete(h, u) == tokens \ {u} # {} /\ Begin(h, "delete", u, "viewer", "list")

(* The guard of deleteUser; an error of ListUsers is dropped and leaves an *)
(* empty list, so nothing is counted.                                      *)
ListUsers(h) ==
    /\ pc[h] = "list"
    /\ \/ Goto(h, IF role[op[h].target] = "admin" THEN "count" ELSE "write", {Admins})
       \/ "list" \in Faults /\ Goto(h, "write", {})
    /\ UNCHANGED <<role, tokens>>

(* CountAdmins; if it fails the count is 0 and the request is refused.     *)
CountAdmins(h) ==
    /\ pc[h] = "count"
    /\ \/ Cardinality(Admins) > 1 /\ Goto(h, "write", {Admins})
       \/ (Cardinality(Admins) <= 1 \/ "count" \in Faults) /\ Return(h)
    /\ UNCHANGED <<role, tokens>>

(* The UPDATE or DELETE; no row, no effect.                                *)
Write(h) ==
    /\ pc[h] = "write"
    /\ LET o == op[h] IN
       role' = [role EXCEPT ![o.target] =
                    IF @ = "absent" \/ o.kind = "delete" THEN "absent" ELSE o.role]
    /\ Return(h)
    /\ UNCHANGED tokens

WriteFails(h) ==
    /\ "write" \in Faults
    /\ pc[h] \in {"insert", "write"}
    /\ Return(h)
    /\ UNCHANGED <<role, tokens>>

Request(h) ==
    \/ \E u \in Users : CountUsers(h, u) \/ BeginDelete(h, u)
    \/ \E u \in Users, r \in Roles : BeginUpdate(h, u, r)
    \/ InsertFirst(h) \/ ListUsers(h) \/ CountAdmins(h) \/ Write(h) \/ WriteFails(h)

Next ==
    \/ \E u \in Users : Login(u) \/ Expire(u)
    \/ \E u \in Users, r \in Roles : CreateUser(u, r)
    \/ \E h \in Handlers : Request(h)

Spec == Init /\ [][Next]_vars

---------------------------------------------------------------------------
Removes(h) == op[h].kind = "delete" \/ (op[h].kind = "update" /\ op[h].role # "admin")

(* What a request that saw the admins S can be mistaken about: one of them *)
(* is none any more, or the target, who was not one of them, is one now.   *)
Overtaken(h) == \E S \in looked[h] : S \ Admins # {} \/ op[h].target \in Admins \ S

(* "don't let the last admin demote themselves" and "don't let the last    *)
(* admin be deleted" (extras.go:631, 680), whatever overlaps and whatever  *)
(* fails: the last admin goes only by a request that other requests        *)
(* overtook after it had looked, or by a delete whose ListUsers failed.    *)
LastAdminGuarded ==
    [][Admins # {} /\ Admins' = {} =>
         \E h \in Handlers :
            /\ Write(h) /\ Removes(h)
            /\ Overtaken(h) \/ (op[h].kind = "delete" /\ looked[h] = {})]_vars

(* The inductive invariant: a request about to remove an admin has seen    *)
(* another one, or a target that is none, unless its ListUsers failed; a   *)
(* count of a delete follows a list, and no bootstrap gets there.          *)
SawAnother ==
    \A h \in Handlers :
        /\ pc[h] = "list" => op[h].kind = "delete"
        /\ pc[h] \in {"count", "write"} => op[h].kind # "bootstrap"
        /\ pc[h] = "write" /\ Removes(h) =>
              /\ looked[h] = {} => op[h].kind = "delete" /\ "list" \in Faults
              /\ \A S \in looked[h] : op[h].target \in S => S \ {op[h].target} # {}

IInv == TypeOK /\ SawAnother

=============================================================================
