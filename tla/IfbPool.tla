------------------------------ MODULE IfbPool ------------------------------
(***************************************************************************)
(* QoS policies of one router and the interfaces they are bound to.  To    *)
(* shape incoming traffic an interface redirects it to an IFB, a device of *)
(* which the kernel has a few.  A binding in both directions has three     *)
(* legs: the redirect of the interface, the declaration of the IFB, and a  *)
(* policy on it.  Every request reads some of the legs, one call each,     *)
(* configures what it made of them, on trial, and confirms it; what is not *)
(* confirmed is taken back by the device's timer.  Requests overlap, their *)
(* reads fail and their answers get lost.                                  *)
(***************************************************************************)
EXTENDS Naturals, Sequences

CONSTANTS Iface,    \* the ethernet interfaces
          Ifbs,     \* how many IFBs the kernel has, ifb0 first
          Policy,
          Request,  \* the requests there may be at once
          MaxRequests, \* bound: the requests of a behaviour
          Nothing

Ifb == 1..Ifbs
Named == Iface \cup Ifb

VARIABLES
  policies, \* the policies on the device
  legs,     \* the device: declared IFBs, qos by name, redirect by interface
  trial,    \* what the timer restores, and the interfaces the change was about
  wraps,    \* the device is a VyOS 1.5: it wraps an answer in its last path segment
  handled,    \* the requests so far
  request,  \* [Request -> what it does, what it has read, what it has to read]
  misled    \* history: a request configured something else than it would
            \* have, had it read the legs as they were by then

vars == <<policies, legs, trial, wraps, handled, request, misled>>

Bare == [declared |-> {}, qos |-> [n \in Named |-> Nothing],
         redirect |-> [i \in Iface |-> Nothing]]
Idle == [does |-> "nothing", on |-> Nothing, policy |-> Nothing, seen |-> Bare,
         todo |-> << >>]
Confirming == [Idle EXCEPT !.does = "confirm"]

Init ==
  /\ policies \in SUBSET Policy
  /\ legs = Bare /\ trial = Nothing
  /\ wraps \in BOOLEAN
  /\ handled = 0
  /\ request = [r \in Request |-> Idle]
  /\ misled = FALSE

(***************************************************************************)
(* The reads of a request, in the order of the code.                       *)
(***************************************************************************)
Reads(does) ==
  CASE does \in {"upsert", "bind egress"} -> << >>
    [] does = "bind both"   -> <<"declared", "qos">>
    [] does = "unbind"      -> <<"redirect">>
    [] does = "delete"      -> <<"qos", "redirect">>
    [] does = "clean up"    -> <<"declared", "qos", "redirect">>

Begin(r, does, on, policy) ==
  /\ request[r] = Idle
  /\ handled < MaxRequests /\ handled' = handled + 1
  /\ request' = [request EXCEPT ![r] =
       [does |-> does, on |-> on, policy |-> policy, seen |-> Bare, todo |-> Reads(does)]]
  /\ UNCHANGED <<policies, legs, trial, wraps, misled>>

BindTrafficPolicy(r, i, p) == \E does \in {"bind egress", "bind both"} : Begin(r, does, i, p)
UnbindTrafficPolicy(r, n)  == Begin(r, "unbind", n, Nothing)
UpsertTrafficPolicy(r, p)  == Begin(r, "upsert", Nothing, p)
DeleteTrafficPolicy(r, p)  == Begin(r, "delete", Nothing, p)
CleanupOrphanedIFBs(r)     == Begin(r, "clean up", Nothing, Nothing)

(***************************************************************************)
(* Two readers know one shape of the answer only and take the other for    *)
(* "there is none": the redirect of one interface is decoded as a plain    *)
(* string, the list of bindings as a wrapped object.                       *)
(***************************************************************************)
Legible(q) ==
  CASE q.does = "unbind" /\ q.on \in Iface -> ~wraps
    [] q.does = "delete"                   -> wraps
    [] OTHER                               -> TRUE
View(q) == IF Legible(q) THEN legs ELSE Bare

Retrieve(r) ==
  LET q == request[r] IN
  /\ q.todo # << >>
  /\ request' = [request EXCEPT ![r] =
       [q EXCEPT !.seen[Head(q.todo)] = View(q)[Head(q.todo)], !.todo = Tail(q.todo)]]
  /\ UNCHANGED <<policies, legs, trial, wraps, handled, misled>>

(***************************************************************************)
(* A read fails.  Only a delete without the list of bindings gives up; all *)
(* the other errors are dropped and read as "there is none".               *)
(***************************************************************************)
FailRetrieve(r) ==
  LET q == request[r] IN
  /\ q.todo # << >>
  /\ request' = [request EXCEPT ![r] =
       IF q.does = "delete" /\ Head(q.todo) = "qos" THEN Idle
       ELSE [q EXCEPT !.todo = Tail(q.todo)]]
  /\ UNCHANGED <<policies, legs, trial, wraps, handled, misled>>

-----------------------------------------------------------------------------
(***************************************************************************)
(* What the requests make of what they read.  A change is the set of names *)
(* whose policy goes, of interfaces whose redirect goes and of IFBs whose  *)
(* declaration goes; a delete of what is not there is none.                *)
(***************************************************************************)
Bound(s) == {n \in Named : s.qos[n] # Nothing}
Without(l, names, ifaces, ifbs) ==
  [declared |-> l.declared \ ifbs,
   qos      |-> [n \in Named |-> IF n \in names THEN Nothing ELSE l.qos[n]],
   redirect |-> [i \in Iface |-> IF i \in ifaces THEN Nothing ELSE l.redirect[i]]]

\* Neither declared nor bound: the IFBs a bind may take, the first one first.
Free(s) == Ifb \ (s.declared \cup Bound(s))
(* Mutant: the name the translator falls back to, whoever has it.          *)
PickFallback(s) == 1
Pick(s) == CHOOSE f \in Free(s) : \A g \in Free(s) : f <= g

BindEgress(l, i, p) == [l EXCEPT !.qos[i] = p]
BindBoth(l, i, p, f) ==
  [declared |-> l.declared \cup {f},
   qos      |-> [l.qos EXCEPT ![i] = p, ![f] = p],
   redirect |-> [l.redirect EXCEPT ![i] = f]]

\* An interface and the IFB it redirects to go together, whichever is named.
Redirectors(s, f) == {i \in Iface : s.redirect[i] = f}
Unbind(l, s, n) ==
  CASE n \in Ifb /\ Redirectors(s, n) = {} -> Without(l, {n}, {}, {n})
    [] n \in Ifb /\ Redirectors(s, n) # {} ->
         LET i == CHOOSE i \in Redirectors(s, n) : TRUE IN Without(l, {i, n}, {i}, {n})
    [] n \in Iface -> LET f == {s.redirect[n]} \ {Nothing} IN
                      Without(l, {n} \cup f, IF f = {} THEN {} ELSE {n}, f)

\* The rows of the list of bindings: an IFB behind an interface has none.
Shadows(s) == {f \in Ifb \cap Bound(s) : Redirectors(s, f) # {}}
(* Mutant: a row is not asked for its policy.                              *)
RowsOfAny(s, p) == Bound(s) \ Shadows(s)
RowsOf(s, p) == {n \in Bound(s) \ Shadows(s) : s.qos[n] = p}
Delete(l, s, p) ==
  LET Paired == {i \in RowsOf(s, p) \cap Iface : s.redirect[i] \in Shadows(s)}
      Behind == {s.redirect[i] : i \in Paired}
  IN  Without(l, RowsOf(s, p) \cup Behind, Paired, Behind)

Healthy(s) == s.declared \cap Bound(s) \cap {s.redirect[i] : i \in Iface}
\* The IFBs that lack a leg and have one to take away.
Orphans(s) == ((Ifb \cap Bound(s)) \cup s.declared) \ Healthy(s)
CleanUp(l, s) ==
  Without(l, Orphans(s) \cap Bound(s), {}, Orphans(s) \cap s.declared)

-----------------------------------------------------------------------------
(***************************************************************************)
(* What a request makes of the legs, by what it has seen of them.          *)
(***************************************************************************)
Made(q, s) ==
  CASE q.does = "upsert"      -> legs
    [] q.does = "bind egress" -> BindEgress(legs, q.on, q.policy)
    [] q.does = "bind both"   -> BindBoth(legs, q.on, q.policy, Pick(s))
    [] q.does = "unbind"      -> Unbind(legs, s, q.on)
    [] q.does = "delete"      -> Delete(legs, s, q.policy)
    [] q.does = "clean up"    -> CleanUp(legs, s)

PoliciesAfter(q) ==
  CASE q.does = "upsert" -> policies \cup {q.policy}
    [] q.does = "delete" -> policies \ {q.policy}
    [] OTHER             -> policies

\* All IFBs in use; or no orphan, and no wrapped list of declarations, whose
\* key "input" the clean-up takes for one more orphan.
NothingToDo(q, s) ==
  \/ q.does = "bind both" /\ Free(s) = {}
  \/ q.does = "clean up" /\ Orphans(s) = {} /\ (wraps => s.declared = {})

Misleads(q) == NothingToDo(q, View(q)) \/ Made(q, q.seen) # Made(q, View(q))

(***************************************************************************)
(* The interfaces a request is about: a delete those bound to its policy,  *)
(* a clean-up those whose IFB lacks a leg.                                 *)
(***************************************************************************)
Concerns(q, i) ==
  CASE q.does = "upsert"   -> FALSE
    [] q.does \in {"bind egress", "bind both"} -> q.on = i
    [] q.does = "unbind"   -> q.on \in {i, legs.redirect[i]}
    [] q.does = "delete"   -> legs.qos[i] = q.policy
    [] q.does = "clean up" -> legs.redirect[i] # Nothing /\ legs.redirect[i] \notin Healthy(legs)

Ready(r) == request[r] \notin {Idle, Confirming} /\ request[r].todo = << >>

(***************************************************************************)
(* The change goes on trial; if the answer is lost the request ends here.  *)
(* The device takes one change at a time, and none in which a policy is    *)
(* bound and not there.                                                    *)
(***************************************************************************)
Configure(r) ==
  LET q == request[r] IN
  /\ Ready(r) /\ ~NothingToDo(q, q.seen)
  /\ trial = Nothing
  /\ legs' = Made(q, q.seen)
  /\ policies' = PoliciesAfter(q)
  /\ {legs'.qos[n] : n \in Bound(legs')} \subseteq policies'
  /\ trial' = [policies |-> policies, legs |-> legs, about |-> {i \in Iface : Concerns(q, i)}]
  /\ \E next \in {Confirming, Idle} : request' = [request EXCEPT ![r] = next]
  /\ misled' = (misled \/ Misleads(q))
  /\ UNCHANGED <<wraps, handled>>

\* There is nothing to do, or the device or the way to it fails.
GiveUp(r) ==
  /\ Ready(r)
  /\ request' = [request EXCEPT ![r] = Idle]
  /\ UNCHANGED <<policies, legs, trial, wraps, handled, misled>>

\* Confirms whatever is on trial; the answer does not matter.
Confirm(r) ==
  /\ request[r] = Confirming
  /\ request' = [request EXCEPT ![r] = Idle]
  /\ trial' = Nothing
  /\ UNCHANGED <<policies, legs, wraps, handled, misled>>

FailConfirm(r) ==
  /\ request[r] = Confirming
  /\ request' = [request EXCEPT ![r] = Idle]
  /\ UNCHANGED <<policies, legs, trial, wraps, handled, misled>>

\* The device's timer, CommitConfirmMinutes after the change.
TakeBack ==
  /\ trial # Nothing
  /\ policies' = trial.policies /\ legs' = trial.legs /\ trial' = Nothing
  /\ UNCHANGED <<wraps, handled, request, misled>>

Moves ==
  \/ \E r \in Request :
       \/ \E i \in Iface, p \in Policy : BindTrafficPolicy(r, i, p)
       \/ \E n \in Named : UnbindTrafficPolicy(r, n)
       \/ \E p \in Policy : UpsertTrafficPolicy(r, p) \/ DeleteTrafficPolicy(r, p)
       \/ CleanupOrphanedIFBs(r) \/ Retrieve(r) \/ FailRetrieve(r)
       \/ Configure(r) \/ GiveUp(r) \/ Confirm(r) \/ FailConfirm(r)
  \/ TakeBack

\* A behaviour ends where a request was misled: nothing is promised after it.
Next == ~misled /\ Moves

Spec == Init /\ [][Next]_vars

-----------------------------------------------------------------------------
(***************************************************************************)
(* No two interfaces redirect to one IFB (the traffic of one would be      *)
(* shaped with that of the other), and none to an IFB that lacks a leg     *)
(* (the next bind would take it for free), whatever fails, overlaps or is  *)
(* taken back, until a request is misled by what it has read.              *)
(***************************************************************************)
Apart(l) ==
  \A i \in Iface : l.redirect[i] # Nothing =>
    /\ l.redirect[i] \in Healthy(l)
    /\ \A j \in Iface \ {i} : l.redirect[j] # l.redirect[i]
OneInterfacePerIfb == ~misled => Apart(legs)

(***************************************************************************)
(* Until then only the interfaces a change is about, and their IFBs, are   *)
(* any different when it goes on trial and when it is taken back.          *)
(***************************************************************************)
Legs(l, i) == <<l.qos[i], l.redirect[i],
                IF l.redirect[i] = Nothing THEN <<>>
                ELSE <<l.redirect[i] \in l.declared, l.qos[l.redirect[i]]>> >>
Change == IF trial = Nothing THEN trial' ELSE trial
OthersUntouched ==
  [][~misled' => \A i \in Iface :
       Legs(legs', i) # Legs(legs, i) => i \in Change.about]_vars

(***************************************************************************)
(* Why (inductive): both configurations the device may run have the        *)
(* interfaces apart, and differ only in what the change was about.         *)
(***************************************************************************)
Device == [declared : SUBSET Ifb, qos : [Named -> Policy \cup {Nothing}],
           redirect : [Iface -> Ifb \cup {Nothing}]]
Sensible(q) ==
  /\ DOMAIN q = DOMAIN Idle
  /\ \/ q \in {Idle, Confirming}
     \/ q.does \in {"upsert", "delete", "clean up"}
     \/ q.does \in {"bind egress", "bind both"} /\ q.on \in Iface /\ q.policy \in Policy
     \/ q.does = "unbind" /\ q.on \in Named

IInv ==
  ~misled =>
    /\ legs \in Device /\ Apart(legs)
    /\ trial # Nothing =>
         /\ trial.legs \in Device /\ Apart(trial.legs)
         /\ \A i \in Iface \ trial.about : Legs(legs, i) = Legs(trial.legs, i)
    /\ DOMAIN request = Request /\ \A r \in Request : Sensible(request[r])
=============================================================================
