--------------------------- MODULE CommitConfirm ---------------------------
(***************************************************************************)
(* One VyOS device and the API requests that write to it.                  *)
(*                                                                         *)
(* Every device write of the control plane is the same sequence of calls   *)
(* made by the goroutine of one HTTP request: Configure (a commit-confirm  *)
(* when Minutes > 0), Confirm, Save, then one audit row.  Two code paths   *)
(* make it: runConfigure / runConfigureRedacted, which stop at a failed    *)
(* Confirm, and the older UpsertRule, DeleteRule, pushRuleSetOne and       *)
(* UpsertGroup, which ignore it.  No lock orders the requests: they meet   *)
(* on the device.                                                          *)
(*                                                                         *)
(* A request stands for the change it makes, so a configuration is the set *)
(* of requests whose changes it contains.                                  *)
(***************************************************************************)
EXTENDS Naturals, FiniteSets

CONSTANTS
    Strict,      \* requests that go through runConfigure(Redacted)
    BestEffort,  \* requests that go through UpsertRule and its siblings
    Minutes,     \* service.CommitConfirmMinutes
    FaultSets,   \* the sets of faults to consider, each a subset of AllFaults
    None         \* no commit is waiting to be confirmed

Requests == Strict \cup BestEffort

(* "answer": the device did it, the answer was lost.  "late": the device   *)
(* executes a call whose caller has stopped waiting.                       *)
AllFaults == {"answer", "late", "reboot", "crash"}

ASSUME DisjointPaths   == Strict \cap BestEffort = {}
ASSUME MinutesNat      == Minutes \in Nat
ASSUME FaultsKnown     == FaultSets \subseteq SUBSET AllFaults
ASSUME NoneIsNoPending == None \notin [by: Requests, to: SUBSET Requests]

VARIABLES
    faults,   \* what may go wrong in this behaviour; never changes
    pc,       \* pc[r]: the call r is making, or where it stands
    ctx,      \* ctx[r]: the request context, "live" until it is cancelled
    oks,      \* oks[r]: the calls r has seen succeed
    inflight, \* <<r, call>> sent and not yet executed by the device
    running,  \* the device's running configuration
    startup,  \* the configuration it boots
    pending,  \* the commit-confirm not yet confirmed: its request, and the
              \* configuration the timer restores
    audit     \* rows of audit_log: [req, success]

vars == <<faults, pc, ctx, oks, inflight, running, startup, pending, audit>>
device == <<running, startup, pending>>

Calls == {"configure", "confirm", "save"}

TypeOK ==
    /\ faults \in FaultSets
    /\ pc \in [Requests -> {"idle", "audit", "done", "gone"} \cup Calls]
    /\ ctx \in [Requests -> {"live", "cancelled"}]
    /\ oks \in [Requests -> SUBSET Calls]
    /\ inflight \subseteq Requests \X Calls
    /\ running \subseteq Requests
    /\ startup \subseteq Requests
    /\ pending \in [by: Requests, to: SUBSET Requests] \cup {None}
    /\ audit \subseteq [req: Requests, success: BOOLEAN]

Init ==
    /\ faults \in FaultSets
    /\ pc = [r \in Requests |-> "idle"]
    /\ ctx = [r \in Requests |-> "live"]
    /\ oks = [r \in Requests |-> {}]
    /\ inflight = {}
    /\ running = {}
    /\ startup = {}
    /\ pending = None
    /\ audit = {}

Waiting(r) == pc[r] \in Calls

(* Mutant: the flag taken from Configure alone, as the older path does.    *)
SucceededByConfigure(r) == "configure" \in oks[r]

(* The value of err == nil where the request writes its audit row.         *)
Succeeded(r) ==
    /\ "configure" \in oks[r]
    /\ r \in Strict /\ Minutes > 0 => "confirm" \in oks[r]

---------------------------------------------------------------------------
(* The request's goroutine.                                                *)

(* Mutant: Confirm is called even if Configure failed.                     *)
ConfirmAnyway(call, ok) ==
    CASE call = "configure" /\ Minutes > 0 -> "confirm"
      [] call = "confirm"                  -> "save"
      [] OTHER                             -> "audit"

(* What runConfigure does after a call that did or did not succeed.        *)
AfterStrict(call, ok) ==
    CASE call = "configure" /\ ok /\ Minutes > 0 -> "confirm"
      [] call = "confirm" /\ ok                  -> "save"
      [] OTHER                                   -> "audit"

(* The same in UpsertRule: the result of Confirm is dropped.               *)
AfterBestEffort(call, ok) ==
    CASE call = "configure" /\ ok /\ Minutes > 0 -> "confirm"
      [] call = "confirm"                        -> "save"
      [] OTHER                                   -> "audit"

After(r, call, ok) ==
    IF r \in Strict THEN AfterStrict(call, ok) ELSE AfterBestEffort(call, ok)

(* client.post on a cancelled context returns before anything is sent.     *)
Sent(r, next) == IF next \in Calls /\ ctx[r] = "live" THEN {<<r, next>>} ELSE {}

(* r's current call has returned: on to the next one.  lost are the        *)
(* messages of r that will not reach the device any more.                  *)
MoveOn(r, ok, lost) ==
    LET next == After(r, pc[r], ok) IN
    /\ pc' = [pc EXCEPT ![r] = next]
    /\ oks' = IF ok THEN [oks EXCEPT ![r] = @ \cup {pc[r]}] ELSE oks
    /\ inflight' = (inflight \ lost) \cup Sent(r, next)

Start(r) ==
    /\ pc[r] = "idle"
    /\ pc' = [pc EXCEPT ![r] = "configure"]
    /\ inflight' = inflight \cup Sent(r, "configure")
    /\ UNCHANGED <<faults, ctx, oks, device, audit>>

(* A transport error, the client's own timeout, or a cancelled context:    *)
(* the call returns an error, whatever becomes of the message.             *)
GiveUp(r) ==
    /\ Waiting(r)
    /\ \E lost \in SUBSET {<<r, pc[r]>>} :
         /\ "late" \in faults \/ lost = {<<r, pc[r]>>}
         /\ MoveOn(r, FALSE, lost)
    /\ UNCHANGED <<faults, ctx, device, audit>>

(* The row is written with the request's context, its error is ignored.    *)
Audit(r) ==
    /\ pc[r] = "audit"
    /\ pc' = [pc EXCEPT ![r] = "done"]
    /\ \/ /\ ctx[r] = "live"
          /\ audit' = audit \cup {[req |-> r, success |-> Succeeded(r)]}
       \/ audit' = audit
    /\ UNCHANGED <<faults, ctx, oks, inflight, device>>

(* The browser disconnects, or the 60 seconds of middleware.Timeout end.   *)
Cancel(r) ==
    /\ pc[r] # "idle"
    /\ ctx[r] = "live"
    /\ ctx' = [ctx EXCEPT ![r] = "cancelled"]
    /\ UNCHANGED <<faults, pc, oks, inflight, device, audit>>

Crash ==
    /\ "crash" \in faults
    /\ \E r \in Requests : pc[r] \notin {"idle", "done", "gone"}
    /\ pc' = [r \in Requests |-> IF pc[r] \in {"idle", "done"} THEN pc[r] ELSE "gone"]
    /\ ctx' = [r \in Requests |-> IF pc[r] \in {"idle", "done"} THEN ctx[r] ELSE "cancelled"]
    /\ inflight' \in IF "late" \in faults THEN {inflight, {}} ELSE {{}}
    /\ UNCHANGED <<faults, oks, device, audit>>

---------------------------------------------------------------------------
(* The device, an external system.                                         *)

(* The device has executed r's call: a caller still waiting learns the     *)
(* outcome, unless the answer is lost and the caller will have to give up. *)
Executed(r, call, ok) ==
    /\ <<r, call>> \in inflight
    /\ "late" \in faults \/ ctx[r] = "live"
    /\ \/ /\ pc[r] = call /\ ctx[r] = "live"
          /\ MoveOn(r, ok, {<<r, call>>})
       \/ /\ "answer" \in faults \/ pc[r] # call \/ ctx[r] # "live"
          /\ inflight' = inflight \ {<<r, call>>}
          /\ UNCHANGED <<pc, oks>>
    /\ UNCHANGED <<faults, ctx, audit>>

(* One session, one commit: all of the batch or none of it.  A commit is   *)
(* refused while another one waits for its confirmation.                   *)
Accept(r) ==
    /\ pending = None
    /\ Executed(r, "configure", TRUE)
    /\ running' = running \cup {r}
    /\ pending' = IF Minutes > 0 THEN [by |-> r, to |-> running] ELSE None
    /\ UNCHANGED startup

Refuse(r) ==
    /\ Executed(r, "configure", FALSE)
    /\ UNCHANGED device

(* "confirm" carries no name: it confirms whatever commit is pending.      *)
Confirm(r) ==
    /\ Executed(r, "confirm", pending # None)
    /\ pending' = None
    /\ UNCHANGED <<running, startup>>

Save(r) ==
    /\ Executed(r, "save", TRUE)
    /\ startup' = running
    /\ UNCHANGED <<running, pending>>

(* Mutant: requests may outlive the confirm window.                        *)
AnyTime(r) == TRUE

(* The confirm window is CommitConfirmMinutes and opens after the request  *)
(* began; the router gives the request 60 seconds.  When the window ends,  *)
(* the context of the request that opened it is cancelled.                 *)
WindowOver(r) == ctx[r] = "cancelled"

(* The device's confirm timer.                                             *)
Revert ==
    /\ pending # None
    /\ WindowOver(pending.by)
    /\ running' = pending.to
    /\ pending' = None
    /\ UNCHANGED <<faults, pc, ctx, oks, inflight, startup, audit>>

(* A reboot outlives the contexts of the requests it meets (it takes one   *)
(* to three minutes) and drops the connections.                            *)
Reboot ==
    /\ "reboot" \in faults
    /\ running' = startup
    /\ pending' = None
    /\ inflight' = {}
    /\ ctx' = [r \in Requests |-> IF pc[r] = "idle" THEN ctx[r] ELSE "cancelled"]
    /\ UNCHANGED <<faults, pc, oks, startup, audit>>

DeviceStep(r) == Accept(r) \/ Refuse(r) \/ Confirm(r) \/ Save(r)

Next ==
    \/ \E r \in Requests : \/ Start(r) \/ GiveUp(r) \/ Audit(r) \/ Cancel(r)
                           \/ DeviceStep(r)
    \/ Crash
    \/ Revert
    \/ Reboot

Spec == Init /\ [][Next]_vars
---------------------------------------------------------------------------
(* Properties.                                                             *)

(* What the device falls back to if nothing else is confirmed.             *)
Confirmed == IF pending = None THEN running ELSE pending.to

(* Everyone has returned and nothing is on its way to the device.          *)
Settled ==
    /\ \A r \in Requests : pc[r] \in {"idle", "done", "gone"}
    /\ inflight = {}
    /\ pending = None

(* The request saw its Configure succeed and its Confirm fail; runConfigure*)
(* then answers "commit-confirm failed, changes reverted".                 *)
FailedConfirm(r) ==
    /\ Minutes > 0 /\ pc[r] = "done"
    /\ "configure" \in oks[r] /\ "confirm" \notin oks[r]

(* As long as the device does not reboot, a change whose request reported  *)
(* success through runConfigure is in the configuration the confirm timer  *)
(* falls back to, whatever the other requests on the device do, and        *)
(* however late or incomplete their own sequences are.                     *)
AckedIsConfirmed ==
    "reboot" \notin faults =>
        \A r \in Strict : Succeeded(r) => r \in Confirmed

(* Why it holds: a request that can still act and has seen its Configure   *)
(* succeed finds its change either confirmed, or as the very commit that   *)
(* is pending; and it asks for a confirmation only after that success.     *)
OwnCommitInReach ==
    \A r \in Requests : ctx[r] = "live" /\ "configure" \in oks[r] =>
        r \in Confirmed \/ (pending # None /\ pending.by = r)

PendingIsRunning ==
    pending # None => running = pending.to \cup {pending.by}

CallsInOrder ==
    \A r \in Requests :
        /\ pc[r] = "idle" => oks[r] = {}
        /\ pc[r] = "confirm" \/ "confirm" \in oks[r] => "configure" \in oks[r]

IInv ==
    /\ TypeOK
    /\ OwnCommitInReach
    /\ PendingIsRunning
    /\ CallsInOrder

(* A change reported as a success by runConfigure is in the confirmed      *)
(* configuration at the step that reports it, and only a reboot (which     *)
(* loads what the last Save stored) ever takes it away.                    *)
AckedIsKept ==
    [][\A r \in Strict : Succeeded(r)' /\ r \notin Confirmed'
          => Succeeded(r) /\ (r \notin Confirmed \/ Reboot)]_vars

(* The write flow implements a device on which changes are applied, kept   *)
(* or taken back as a whole, and only what is kept is reported as a        *)
(* success, whatever fails (runConfigure, UpsertRule and their device).    *)
Changes == INSTANCE DeviceChanges WITH
    Change <- Requests, Reported <- Strict,
    kept <- Confirmed, trial <- IF pending = None THEN {} ELSE {pending.by},
    stored <- startup, acked <- {r \in Strict : Succeeded(r)}
ImplementsChanges == Changes!Spec

(* "confirm" carries no name, yet as long as the device executes no call   *)
(* of a caller that is gone, a request only ever confirms its own commit:  *)
(* no other commit can become pending between its Configure and Confirm.   *)
ConfirmsOwnCommit ==
    [][\A r \in Requests :
           "late" \notin faults /\ Confirm(r) /\ pending # None => pending.by = r]_vars

(* "commit-confirm failed, changes reverted" (runConfigure) and "If this   *)
(* fails, the commit reverts -- which is the safe outcome" (UpsertRule):   *)
(* once all is settled, a change whose Confirm failed is not on the device.*)
FailedConfirmReverts ==
    Settled => \A r \in Requests : FailedConfirm(r) => r \notin running

(* It is so when a failed call never took effect and nothing reboots,      *)
(* whatever the interleaving and whoever is cut off.                       *)
PlainFailureReverts == faults = {} => FailedConfirmReverts

(* Why a request only confirms its own commit: while the device executes   *)
(* nothing late, a message belongs to the call its request is in, and a    *)
(* Confirm on its way means that the request's commit is still pending.    *)
MessagesCurrent == \A m \in inflight : pc[m[1]] = m[2]

ConfirmAwaited ==
    \A r \in Requests : <<r, "confirm">> \in inflight /\ ctx[r] = "live" =>
        pending # None /\ pending.by = r

InStep == "late" \notin faults => MessagesCurrent /\ ConfirmAwaited

(* What a request has seen while it is in its first two calls.             *)
SeenSoFar ==
    \A r \in Requests : /\ pc[r] = "configure" => oks[r] = {}
                        /\ pc[r] = "confirm" => oks[r] = {"configure"}

(* Without faults a request knows of its change exactly what the device    *)
(* does, and one it has not confirmed is not what the timer falls back to. *)
RequestsKnow ==
    faults = {} =>
        /\ \A r \in running : "configure" \in oks[r]
        /\ \A r \in Requests :
              Minutes > 0 /\ "configure" \in oks[r] /\ "confirm" \notin oks[r]
                => r \notin Confirmed
=============================================================================
