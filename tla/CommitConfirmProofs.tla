------------------------ MODULE CommitConfirmProofs ------------------------
(* What a reported success of a device write is worth, for any number of   *)
(* requests and every combination of faults.                               *)
EXTENDS CommitConfirm, TLAPS

(* The type of what a call leads to.                                       *)
LEMMA AfterType ==
    ASSUME NEW r \in Requests, NEW call \in Calls, NEW ok \in BOOLEAN
    PROVE  After(r, call, ok) \in {"confirm", "save", "audit"}
  BY DEF After, AfterStrict, AfterBestEffort, Calls

(* Leaving a call keeps the types of what the request's goroutine holds.   *)
LEMMA MoveOnType ==
    ASSUME TypeOK, NEW r \in Requests, NEW ok \in BOOLEAN, NEW lost,
           pc[r] \in Calls, MoveOn(r, ok, lost)
    PROVE  /\ pc' \in [Requests -> {"idle", "audit", "done", "gone"} \cup Calls]
           /\ oks' \in [Requests -> SUBSET Calls]
           /\ inflight' \subseteq Requests \X Calls
  <1> DEFINE next == After(r, pc[r], ok)
  <1>1. next \in {"confirm", "save", "audit"}
    BY AfterType
  <1>2. pc' \in [Requests -> {"idle", "audit", "done", "gone"} \cup Calls]
    BY <1>1 DEF TypeOK, MoveOn, Calls
  <1>3. oks' \in [Requests -> SUBSET Calls]
    BY DEF TypeOK, MoveOn
  <1>4. Sent(r, next) \subseteq Requests \X Calls
    BY DEF Sent
  <1>5. inflight' \subseteq Requests \X Calls
    BY <1>4 DEF TypeOK, MoveOn
  <1>6. QED BY <1>2, <1>3, <1>5

(* The same for a call the device executes, whoever still listens.         *)
LEMMA ExecutedType ==
    ASSUME TypeOK, NEW r \in Requests, NEW call \in Calls, NEW ok \in BOOLEAN,
           Executed(r, call, ok)
    PROVE  /\ pc' \in [Requests -> {"idle", "audit", "done", "gone"} \cup Calls]
           /\ ctx' \in [Requests -> {"live", "cancelled"}]
           /\ oks' \in [Requests -> SUBSET Calls]
           /\ inflight' \subseteq Requests \X Calls
           /\ audit' \subseteq [req: Requests, success: BOOLEAN]
  <1>1. CASE pc[r] = call /\ MoveOn(r, ok, {<<r, call>>})
    BY <1>1, MoveOnType DEF TypeOK, Executed
  <1>2. CASE inflight' = inflight \ {<<r, call>>} /\ UNCHANGED <<pc, oks>>
    BY <1>2 DEF TypeOK, Executed
  <1>3. QED BY <1>1, <1>2 DEF Executed

LEMMA FaultsStay == [Next]_vars => faults' = faults
  BY DEF Next, vars, DeviceStep, Start, GiveUp, Audit, Cancel, Accept, Refuse,
     Confirm, Save, Executed, Crash, Revert, Reboot

LEMMA TypeStep == TypeOK /\ [Next]_vars => TypeOK'
  <1> SUFFICES ASSUME TypeOK, [Next]_vars PROVE TypeOK'
    OBVIOUS
  <1>0. faults' \in FaultSets
    BY FaultsStay DEF TypeOK
  <1>1. ASSUME NEW r \in Requests, Start(r) PROVE TypeOK'
    BY <1>0, <1>1 DEF TypeOK, Start, Sent, Calls, device
  <1>2. ASSUME NEW r \in Requests, GiveUp(r) PROVE TypeOK'
    BY <1>0, <1>2, MoveOnType DEF TypeOK, GiveUp, Waiting, device
  <1>3. ASSUME NEW r \in Requests, Audit(r) PROVE TypeOK'
    <2>1. Succeeded(r) \in BOOLEAN
      BY DEF Succeeded
    <2>2. QED BY <1>0, <1>3, <2>1 DEF TypeOK, Audit, device
  <1>4. ASSUME NEW r \in Requests, Cancel(r) PROVE TypeOK'
    BY <1>0, <1>4 DEF TypeOK, Cancel, device
  <1>5. ASSUME NEW r \in Requests, Accept(r) PROVE TypeOK'
    BY <1>0, <1>5, ExecutedType DEF TypeOK, Accept, Calls
  <1>6. ASSUME NEW r \in Requests, Refuse(r) PROVE TypeOK'
    BY <1>0, <1>6, ExecutedType DEF TypeOK, Refuse, Calls, device
  <1>7. ASSUME NEW r \in Requests, Confirm(r) PROVE TypeOK'
    BY <1>0, <1>7, ExecutedType DEF TypeOK, Confirm, Calls
  <1>8. ASSUME NEW r \in Requests, Save(r) PROVE TypeOK'
    BY <1>0, <1>8, ExecutedType DEF TypeOK, Save, Calls
  <1>9. CASE Crash
    BY <1>0, <1>9 DEF TypeOK, Crash, device
  <1>10. CASE Revert
    BY <1>0, <1>10 DEF TypeOK, Revert
  <1>11. CASE Reboot
    BY <1>0, <1>11 DEF TypeOK, Reboot
  <1>12. CASE UNCHANGED vars
    BY <1>0, <1>12 DEF TypeOK, vars
  <1>13. QED
    BY <1>1, <1>2, <1>3, <1>4, <1>5, <1>6, <1>7, <1>8, <1>9, <1>10, <1>11, <1>12
    DEF Next, DeviceStep

(* Every variable keeps its type.                                          *)
THEOREM TypeCorrect == Spec => []TypeOK
  <1>1. Init => TypeOK
    BY DEF Init, TypeOK
  <1>2. QED BY <1>1, TypeStep, PTL DEF Spec

(* What a call the device executes, or the caller gives up on, can change  *)
(* in what the caller knows.                                               *)
LEMMA MoveOnKnows ==
    ASSUME TypeOK, CallsInOrder, NEW r \in Requests,
           NEW ok \in BOOLEAN, NEW lost, pc[r] \in Calls, MoveOn(r, ok, lost)
    PROVE  /\ \A q \in Requests : oks'[q] = oks[q] \/ (q = r /\ oks'[q] = oks[q] \cup {pc[r]})
           /\ CallsInOrder'
  <1>1. \A q \in Requests : oks'[q] = oks[q] \/ (q = r /\ oks'[q] = oks[q] \cup {pc[r]})
    BY DEF TypeOK, MoveOn
  <1>2. \A q \in Requests : oks[q] \subseteq oks'[q]
    BY <1>1
  <1>3. \A q \in Requests : "confirm" \in oks'[q] => "configure" \in oks'[q]
    BY <1>1, <1>2 DEF CallsInOrder
  <1>4. ASSUME NEW q \in Requests, pc'[q] = "confirm" PROVE "configure" \in oks'[q]
    <2>1. CASE q # r
      BY <1>2, <1>4, <2>1 DEF TypeOK, MoveOn, CallsInOrder
    <2>2. CASE q = r
      <3>1. After(r, pc[r], ok) = "confirm"
        BY <1>4, <2>2 DEF TypeOK, MoveOn
      <3>2. ok /\ pc[r] = "configure"
        BY <3>1 DEF After, AfterStrict, AfterBestEffort, Calls
      <3>3. QED BY <2>2, <3>2 DEF TypeOK, MoveOn
    <2>3. QED BY <2>1, <2>2
  <1>5. ASSUME NEW q \in Requests, pc'[q] = "idle" PROVE oks'[q] = {}
    <2>1. After(r, pc[r], ok) # "idle"
      BY AfterType
    <2>2. q # r /\ pc[q] = "idle"
      BY <1>5, <2>1 DEF TypeOK, MoveOn
    <2>3. QED BY <1>1, <2>2 DEF CallsInOrder
  <1>6. QED BY <1>1, <1>3, <1>4, <1>5 DEF CallsInOrder

LEMMA ExecutedKnows ==
    ASSUME TypeOK, CallsInOrder, NEW r \in Requests,
           NEW call \in Calls, NEW ok \in BOOLEAN, Executed(r, call, ok)
    PROVE  /\ \A q \in Requests :
                 \/ oks'[q] = oks[q]
                 \/ /\ q = r /\ pc[r] = call /\ ctx[r] = "live"
                    /\ oks'[q] = oks[q] \cup {call}
           /\ CallsInOrder'
           /\ ctx' = ctx
  <1>1. CASE pc[r] = call /\ ctx[r] = "live" /\ MoveOn(r, ok, {<<r, call>>})
    BY <1>1, MoveOnKnows DEF Executed
  <1>2. CASE UNCHANGED <<pc, oks>>
    BY <1>2 DEF Executed, CallsInOrder
  <1>3. QED BY <1>1, <1>2 DEF Executed

---------------------------------------------------------------------------
(* The inductive invariant.  Its typed half is TypeCorrect; the rest says  *)
(* that the confirm timer is no threat to a request that can still act.    *)

LEMMA StepKeepsInvariant == IInv /\ [Next]_vars => IInv'
  <1> SUFFICES ASSUME IInv, [Next]_vars PROVE IInv'
    OBVIOUS
  <1> USE DEF IInv
  <1>0. TypeOK'
    BY TypeStep
  <1>1. ASSUME NEW r \in Requests, Start(r) PROVE IInv'
    BY <1>0, <1>1 DEF TypeOK, Start, device, OwnCommitInReach, PendingIsRunning,
       CallsInOrder, Confirmed
  <1>2. ASSUME NEW r \in Requests, GiveUp(r) PROVE IInv'
    <2> PICK lost \in SUBSET {<<r, pc[r]>>} : MoveOn(r, FALSE, lost)
      BY <1>2 DEF GiveUp, device
    <2>1. /\ \A q \in Requests : oks'[q] = oks[q]
          /\ CallsInOrder'
      <3>1. pc[r] \in Calls
        BY <1>2 DEF GiveUp, device, Waiting
      <3>2. CallsInOrder'
        BY <3>1, MoveOnKnows
      <3>3. oks' = oks
        BY DEF MoveOn
      <3>4. QED BY <3>2, <3>3
    <2>2. UNCHANGED <<ctx, running, pending>>
      BY <1>2 DEF GiveUp, device
    <2>3. QED
      BY <1>0, <2>1, <2>2 DEF OwnCommitInReach, PendingIsRunning, Confirmed
  <1>3. ASSUME NEW r \in Requests, Audit(r) PROVE IInv'
    BY <1>0, <1>3 DEF TypeOK, Audit, device, OwnCommitInReach, PendingIsRunning,
       CallsInOrder, Confirmed
  <1>4. ASSUME NEW r \in Requests, Cancel(r) PROVE IInv'
    BY <1>0, <1>4 DEF TypeOK, Cancel, device, OwnCommitInReach, PendingIsRunning,
       CallsInOrder, Confirmed
  <1>5. ASSUME NEW r \in Requests, Accept(r) PROVE IInv'
    <2>1. /\ \A q \in Requests : oks'[q] = oks[q] \/ q = r
          /\ CallsInOrder'
          /\ ctx' = ctx
      BY <1>5, ExecutedKnows DEF Accept, Calls
    <2>2. /\ pending = None
          /\ running' = running \cup {r}
          /\ pending' = IF Minutes > 0 THEN [by |-> r, to |-> running] ELSE None
      BY <1>5 DEF Accept
    <2>3. PendingIsRunning'
      BY <2>2 DEF PendingIsRunning
    <2>4. ASSUME NEW q \in Requests, ctx[q] = "live", "configure" \in oks'[q]
          PROVE  q \in Confirmed' \/ (pending' # None /\ pending'.by = q)
      <3>1. CASE q # r
        <4>1. q \in running
          BY <2>1, <2>2, <2>4, <3>1 DEF OwnCommitInReach, Confirmed
        <4>2. QED BY <2>2, <4>1 DEF Confirmed
      <3>2. CASE q = r
        BY <1>0, <2>2, <3>2, NoneIsNoPending DEF TypeOK, Confirmed
      <3>3. QED BY <3>1, <3>2
    <2>5. QED BY <1>0, <2>1, <2>3, <2>4 DEF OwnCommitInReach
  <1>6. ASSUME NEW r \in Requests, Refuse(r) PROVE IInv'
    <2>1. oks' = oks /\ ctx' = ctx
      BY <1>6 DEF Refuse, Executed, MoveOn
    <2>2. CallsInOrder'
      BY <1>6, ExecutedKnows DEF Refuse, Calls
    <2>3. QED
      BY <1>0, <1>6, <2>1, <2>2 DEF Refuse, device, OwnCommitInReach, PendingIsRunning, Confirmed
  <1>7. ASSUME NEW r \in Requests, Confirm(r) PROVE IInv'
    <2>1. /\ \A q \in Requests : "configure" \in oks'[q] => "configure" \in oks[q]
          /\ CallsInOrder'
          /\ ctx' = ctx
      <3> PICK ok \in BOOLEAN : Executed(r, "confirm", ok)
        BY <1>7 DEF Confirm
      <3>1. "confirm" \in Calls
        BY DEF Calls
      <3>2. /\ \A q \in Requests :
                   oks'[q] = oks[q] \/ oks'[q] = oks[q] \cup {"confirm"}
            /\ CallsInOrder'
            /\ ctx' = ctx
        BY <3>1, ExecutedKnows
      <3>3. QED BY <3>2
    <2>2. pending' = None /\ running' = running
      BY <1>7 DEF Confirm
    <2>3. QED
      BY <1>0, <2>1, <2>2 DEF OwnCommitInReach, PendingIsRunning, Confirmed
  <1>8. ASSUME NEW r \in Requests, Save(r) PROVE IInv'
    <2>1. /\ \A q \in Requests : "configure" \in oks'[q] => "configure" \in oks[q]
          /\ CallsInOrder'
          /\ ctx' = ctx
      BY <1>8, ExecutedKnows DEF Save, Calls
    <2>2. QED
      BY <1>0, <1>8, <2>1 DEF Save, OwnCommitInReach, PendingIsRunning, Confirmed
  <1>9. CASE Crash
    BY <1>0, <1>9 DEF TypeOK, Crash, device, OwnCommitInReach, PendingIsRunning,
       CallsInOrder, Confirmed
  <1>10. CASE Revert
    BY <1>0, <1>10 DEF TypeOK, Revert, WindowOver, OwnCommitInReach, PendingIsRunning,
       CallsInOrder, Confirmed
  <1>11. CASE Reboot
    BY <1>0, <1>11 DEF TypeOK, Reboot, OwnCommitInReach, PendingIsRunning,
       CallsInOrder, Confirmed
  <1>12. CASE UNCHANGED vars
    BY <1>0, <1>12 DEF vars, OwnCommitInReach, PendingIsRunning,
       CallsInOrder, Confirmed
  <1>13. QED
    BY <1>1, <1>2, <1>3, <1>4, <1>5, <1>6, <1>7, <1>8, <1>9, <1>10, <1>11, <1>12
    DEF Next, DeviceStep

(* The invariant holds in every state of every behaviour.                  *)
THEOREM Invariant == Spec => []IInv
  <1>1. Init => IInv
    BY DEF Init, IInv, TypeOK, OwnCommitInReach, PendingIsRunning,
       CallsInOrder, Confirmed
  <1>2. QED BY <1>1, StepKeepsInvariant, PTL DEF Spec

---------------------------------------------------------------------------
(* What a reported success is worth.                                       *)

(* One step: a success is reported only for a confirmed change, and only a *)
(* reboot takes a confirmed change away.                                   *)
LEMMA StepKeepsAcked ==
    ASSUME IInv, [Next]_vars, NEW r \in Strict,
           Succeeded(r)', r \notin Confirmed'
    PROVE  Succeeded(r) /\ (r \notin Confirmed \/ Reboot)
  <1> USE DEF IInv, Succeeded
  <1> r \in Requests
    BY DEF Requests
  <1>1. ASSUME NEW q \in Requests, Accept(q) PROVE Succeeded(r) /\ r \notin Confirmed
    <2>1. /\ pending = None
          /\ running' = running \cup {q}
          /\ pending' = IF Minutes > 0 THEN [by |-> q, to |-> running] ELSE None
      BY <1>1 DEF Accept
    <2>2. r \notin Confirmed
      BY <2>1 DEF Confirmed
    <2>3. \/ oks'[r] = oks[r]
          \/ r = q /\ oks'[r] = oks[r] \cup {"configure"}
      BY <1>1, ExecutedKnows DEF Accept, Calls
    <2>4. CASE oks'[r] = oks[r]
      BY <2>2, <2>4
    <2>5. CASE r = q /\ oks'[r] = oks[r] \cup {"configure"}
      <3>1. Minutes > 0
        BY <2>1, <2>5 DEF Confirmed
      <3>2. "confirm" \in oks[r]
        BY <2>5, <3>1
      <3>3. QED BY <2>2, <3>1, <3>2 DEF CallsInOrder
    <2>6. QED BY <2>3, <2>4, <2>5
  <1>2. ASSUME NEW q \in Requests, Confirm(q) PROVE Succeeded(r) /\ r \notin Confirmed
    <2>1. pending' = None /\ running' = running
      BY <1>2 DEF Confirm
    <2>2. r \notin running
      BY <2>1 DEF Confirmed
    <2>3. r \notin Confirmed /\ (pending # None => pending.by # r)
      BY <2>2 DEF Confirmed, PendingIsRunning
    <2>4. (pending # None) \in BOOLEAN
      OBVIOUS
    <2>5. \/ oks'[r] = oks[r]
          \/ ctx[r] = "live" /\ oks'[r] = oks[r] \cup {"confirm"}
      BY <1>2, <2>4, ExecutedKnows DEF Confirm, Calls
    <2>6. CASE oks'[r] = oks[r]
      BY <2>3, <2>6
    <2>7. CASE ctx[r] = "live" /\ oks'[r] = oks[r] \cup {"confirm"}
      <3>1. "configure" \in oks[r]
        BY <2>7
      <3>2. QED BY <2>3, <2>7, <3>1 DEF OwnCommitInReach
    <2>8. QED BY <2>5, <2>6, <2>7
  <1>3. ASSUME NEW q \in Requests, Save(q) PROVE Succeeded(r) /\ r \notin Confirmed
    <2>1. \/ oks'[r] = oks[r]
          \/ oks'[r] = oks[r] \cup {"save"}
      BY <1>3, ExecutedKnows DEF Save, Calls
    <2>2. QED BY <1>3, <2>1 DEF Save, Confirmed
  <1>4. ASSUME NEW q \in Requests, Refuse(q) PROVE Succeeded(r) /\ r \notin Confirmed
    <2>1. oks' = oks
      BY <1>4 DEF Refuse, Executed, MoveOn
    <2>2. QED BY <1>4, <2>1 DEF Refuse, device, Confirmed
  <1>5. ASSUME NEW q \in Requests, GiveUp(q) PROVE Succeeded(r) /\ r \notin Confirmed
    <2> PICK lost \in SUBSET {<<q, pc[q]>>} : MoveOn(q, FALSE, lost)
      BY <1>5 DEF GiveUp, device
    <2>1. oks'[r] = oks[r]
      BY DEF MoveOn
    <2>2. QED BY <1>5, <2>1 DEF GiveUp, device, Confirmed
  <1>6. ASSUME NEW q \in Requests, Start(q) \/ Audit(q) \/ Cancel(q)
        PROVE  Succeeded(r) /\ r \notin Confirmed
    <2>1. UNCHANGED <<oks, running, pending>>
      BY <1>6 DEF Start, Audit, Cancel, device
    <2>2. QED BY <2>1 DEF Confirmed
  <1>7. CASE Crash
    BY <1>7 DEF Crash, device, Confirmed
  <1>8. CASE Revert
    BY <1>8 DEF Revert, WindowOver, Confirmed
  <1>9. CASE Reboot
    BY <1>9 DEF Reboot
  <1>10. CASE UNCHANGED vars
    BY <1>10 DEF vars, Confirmed
  <1>11. QED
    BY <1>1, <1>2, <1>3, <1>4, <1>5, <1>6, <1>7, <1>8, <1>9, <1>10
    DEF Next, DeviceStep

(* A change reported as a success by runConfigure is confirmed at that     *)
(* step, and only a reboot ever takes it away.                             *)
THEOREM SuccessIsKept == Spec => AckedIsKept
  <1>1. IInv /\ [Next]_vars =>
          [\A r \in Strict : Succeeded(r)' /\ r \notin Confirmed'
              => Succeeded(r) /\ (r \notin Confirmed \/ Reboot)]_vars
    BY StepKeepsAcked
  <1>2. QED BY <1>1, Invariant, PTL DEF Spec, AckedIsKept

(* Without reboots, a change reported as a success by runConfigure is out  *)
(* of the confirm timer's reach.                                           *)
THEOREM SuccessIsConfirmed == Spec => []AckedIsConfirmed
  <1>1. Init => AckedIsConfirmed
    BY DEF Init, AckedIsConfirmed, Succeeded, Requests
  <1>2. IInv /\ AckedIsConfirmed /\ [Next]_vars => AckedIsConfirmed'
    <2> SUFFICES ASSUME IInv, AckedIsConfirmed, [Next]_vars, "reboot" \notin faults,
                        NEW r \in Strict, Succeeded(r)', r \notin Confirmed'
                 PROVE  FALSE
      BY FaultsStay DEF AckedIsConfirmed
    <2>1. Succeeded(r) /\ (r \notin Confirmed \/ Reboot)
      BY StepKeepsAcked
    <2>2. ~Reboot
      BY DEF Reboot
    <2>3. QED BY <2>1, <2>2 DEF AckedIsConfirmed
  <1>3. QED BY <1>1, <1>2, Invariant, PTL DEF Spec

---------------------------------------------------------------------------
(* Confirmations.  A request that leaves a call takes its message with it, *)
(* and asks for a confirmation only after its own successful Configure.    *)
LEMMA MoveOnMessages ==
    ASSUME TypeOK, MessagesCurrent, NEW r \in Requests, NEW ok \in BOOLEAN,
           pc[r] \in Calls, MoveOn(r, ok, {<<r, pc[r]>>})
    PROVE  /\ MessagesCurrent'
           /\ \A q \in Requests : <<q, "confirm">> \in inflight' =>
                \/ q # r /\ <<q, "confirm">> \in inflight
                \/ q = r /\ pc[r] = "configure" /\ ok = TRUE /\ Minutes > 0
  <1> DEFINE next == After(r, pc[r], ok)
  <1>1. /\ pc' = [pc EXCEPT ![r] = next]
        /\ inflight' = (inflight \ {<<r, pc[r]>>}) \cup Sent(r, next)
    BY DEF MoveOn
  <1>2. next = "confirm" => pc[r] = "configure" /\ ok = TRUE /\ Minutes > 0
    BY DEF After, AfterStrict, AfterBestEffort, Calls
  <1> HIDE DEF next
  <1>3. pc'[r] = next /\ \A q \in Requests : q # r => pc'[q] = pc[q]
    BY <1>1 DEF TypeOK
  <1>4. ASSUME NEW m \in inflight' PROVE pc'[m[1]] = m[2]
    <2>1. CASE m \in Sent(r, next)
      BY <2>1, <1>3 DEF Sent
    <2>2. CASE m \notin Sent(r, next)
      <3>1. m \in inflight /\ m # <<r, pc[r]>>
        BY <1>1, <2>2
      <3>2. m \in Requests \X Calls /\ pc[m[1]] = m[2]
        BY <3>1 DEF TypeOK, MessagesCurrent
      <3>3. m[1] # r
        BY <3>1, <3>2
      <3> QED BY <1>3, <3>2, <3>3
    <2> QED BY <2>1, <2>2
  <1>5. ASSUME NEW q \in Requests, <<q, "confirm">> \in inflight'
        PROVE  \/ q # r /\ <<q, "confirm">> \in inflight
               \/ q = r /\ pc[r] = "configure" /\ ok = TRUE /\ Minutes > 0
    <2>1. CASE <<q, "confirm">> \in Sent(r, next)
      BY <2>1, <1>2 DEF Sent
    <2>2. CASE <<q, "confirm">> \notin Sent(r, next)
      <3>1. <<q, "confirm">> \in inflight /\ <<q, "confirm">> # <<r, pc[r]>>
        BY <1>1, <1>5, <2>2
      <3>2. pc[q] = "confirm"
        BY <3>1 DEF MessagesCurrent
      <3> QED BY <3>1, <3>2
    <2> QED BY <2>1, <2>2
  <1> QED BY <1>4, <1>5 DEF MessagesCurrent

(* A device that executes nothing late executes the call its caller is in. *)
LEMMA ExecutedInTime ==
    ASSUME TypeOK, MessagesCurrent, "late" \notin faults,
           NEW r \in Requests, NEW call \in Calls, NEW ok \in BOOLEAN,
           Executed(r, call, ok)
    PROVE  /\ pc[r] = call /\ ctx[r] = "live" /\ ctx' = ctx
           /\ <<r, call>> \in inflight
           /\ \/ MoveOn(r, ok, {<<r, pc[r]>>})
              \/ /\ "answer" \in faults
                 /\ inflight' = inflight \ {<<r, call>>} /\ UNCHANGED <<pc, oks>>
           /\ MessagesCurrent'
           /\ \A q \in Requests : <<q, "confirm">> \in inflight' =>
                \/ q # r /\ <<q, "confirm">> \in inflight
                \/ q = r /\ call = "configure" /\ ok = TRUE /\ Minutes > 0
  <1>1. <<r, call>> \in inflight /\ ctx[r] = "live" /\ ctx' = ctx
    BY DEF Executed
  <1>2. pc[r] = call
    BY <1>1 DEF MessagesCurrent
  <1>3. CASE MoveOn(r, ok, {<<r, pc[r]>>})
    BY <1>1, <1>2, <1>3, MoveOnMessages
  <1>4. CASE /\ "answer" \in faults
             /\ inflight' = inflight \ {<<r, call>>} /\ UNCHANGED <<pc, oks>>
    <2>1. MessagesCurrent'
      BY <1>4 DEF MessagesCurrent
    <2>2. ASSUME NEW q \in Requests, <<q, "confirm">> \in inflight'
          PROVE  \/ q # r /\ <<q, "confirm">> \in inflight
                 \/ q = r /\ call = "configure" /\ ok = TRUE /\ Minutes > 0
      <3>1. <<q, "confirm">> \in inflight /\ <<q, "confirm">> # <<r, call>>
        BY <1>4, <2>2
      <3>2. pc[q] = "confirm"
        BY <3>1 DEF MessagesCurrent
      <3> QED BY <1>2, <3>1, <3>2
    <2> QED BY <1>1, <1>2, <1>4, <2>1, <2>2
  <1> QED BY <1>1, <1>2, <1>3, <1>4 DEF Executed

(* While nothing is executed late, a Confirm on its way is for the commit  *)
(* that is pending.                                                        *)
LEMMA StepKeepsInStep == TypeOK /\ InStep /\ [Next]_vars => InStep'
  <1> SUFFICES ASSUME TypeOK, MessagesCurrent, ConfirmAwaited, "late" \notin faults,
                      [Next]_vars
               PROVE  MessagesCurrent' /\ ConfirmAwaited'
    BY FaultsStay DEF InStep
  <1> DEFINE Goal == MessagesCurrent' /\ ConfirmAwaited'
  <1>1. ASSUME NEW r \in Requests, Start(r) PROVE Goal
    <2>1. inflight' = inflight \cup Sent(r, "configure")
      BY <1>1 DEF Start
    <2>2. pc'[r] = "configure" /\ pc[r] = "idle"
          /\ \A q \in Requests : q # r => pc'[q] = pc[q]
      BY <1>1 DEF Start, TypeOK
    <2>3. ASSUME NEW m \in inflight' PROVE pc'[m[1]] = m[2]
      <3>1. CASE m \in Sent(r, "configure")
        BY <3>1, <2>2 DEF Sent
      <3>2. CASE m \in inflight
        <4>1. m \in Requests \X Calls /\ pc[m[1]] = m[2]
          BY <3>2 DEF TypeOK, MessagesCurrent
        <4>2. m[1] # r
          BY <2>2, <4>1 DEF Calls
        <4> QED BY <2>2, <4>1, <4>2
      <3> QED BY <2>1, <3>1, <3>2
    <2>4. \A q \in Requests : <<q, "confirm">> \in inflight' => <<q, "confirm">> \in inflight
      BY <2>1 DEF Sent
    <2>5. UNCHANGED <<ctx, pending>>
      BY <1>1 DEF Start, device
    <2> QED BY <2>3, <2>4, <2>5 DEF MessagesCurrent, ConfirmAwaited
  <1>2. ASSUME NEW r \in Requests, GiveUp(r) PROVE Goal
    <2>1. pc[r] \in Calls /\ MoveOn(r, FALSE, {<<r, pc[r]>>}) /\ UNCHANGED <<ctx, pending>>
      BY <1>2 DEF GiveUp, Waiting, device
    <2>2. /\ MessagesCurrent'
          /\ \A q \in Requests : <<q, "confirm">> \in inflight' => <<q, "confirm">> \in inflight
      BY <2>1, MoveOnMessages
    <2> QED BY <2>1, <2>2 DEF ConfirmAwaited
  <1>3. ASSUME NEW r \in Requests, Audit(r) PROVE Goal
    <2>1. /\ pc[r] = "audit" /\ UNCHANGED <<inflight, ctx, pending>>
          /\ \A q \in Requests : q # r => pc'[q] = pc[q]
      BY <1>3 DEF Audit, device, TypeOK
    <2>2. ASSUME NEW m \in inflight PROVE pc'[m[1]] = m[2]
      <3>1. m \in Requests \X Calls /\ pc[m[1]] = m[2]
        BY DEF TypeOK, MessagesCurrent
      <3>2. m[1] # r
        BY <2>1, <3>1 DEF Calls
      <3> QED BY <2>1, <3>1, <3>2
    <2> QED BY <2>1, <2>2 DEF MessagesCurrent, ConfirmAwaited
  <1>4. ASSUME NEW r \in Requests, Cancel(r) PROVE Goal
    <2>1. /\ UNCHANGED <<inflight, pc, pending>>
          /\ \A q \in Requests : ctx'[q] = "live" => ctx[q] = "live"
      BY <1>4 DEF Cancel, device, TypeOK
    <2> QED BY <2>1 DEF MessagesCurrent, ConfirmAwaited
  <1>5. ASSUME NEW r \in Requests, Accept(r) PROVE Goal
    <2>1. /\ pending = None
          /\ pending' = IF Minutes > 0 THEN [by |-> r, to |-> running] ELSE None
          /\ Executed(r, "configure", TRUE) /\ "configure" \in Calls /\ TRUE \in BOOLEAN
      BY <1>5 DEF Accept, Calls
    <2>2. /\ MessagesCurrent' /\ ctx' = ctx
          /\ \A q \in Requests : <<q, "confirm">> \in inflight' =>
                \/ q # r /\ <<q, "confirm">> \in inflight
                \/ q = r /\ Minutes > 0
      BY <2>1, ExecutedInTime
    <2>3. Minutes > 0 => pending' # None /\ pending'.by = r
      BY <2>1, NoneIsNoPending DEF TypeOK
    <2> QED BY <2>1, <2>2, <2>3 DEF ConfirmAwaited
  <1>6. ASSUME NEW r \in Requests, Refuse(r) \/ Save(r) PROVE Goal
    <2>1. /\ Executed(r, "configure", FALSE) \/ Executed(r, "save", TRUE)
          /\ pending' = pending /\ {"configure", "save"} \subseteq Calls
      BY <1>6 DEF Refuse, Save, device, Calls
    <2>2. /\ MessagesCurrent' /\ ctx' = ctx
          /\ \A q \in Requests : <<q, "confirm">> \in inflight' => <<q, "confirm">> \in inflight
      BY <2>1, ExecutedInTime
    <2> QED BY <2>1, <2>2 DEF ConfirmAwaited
  <1>7. ASSUME NEW r \in Requests, Confirm(r) PROVE Goal
    <2>1. Executed(r, "confirm", TRUE) \/ Executed(r, "confirm", FALSE)
      <3>1. Executed(r, "confirm", pending # None)
        BY <1>7 DEF Confirm
      <3>2. CASE pending # None
        <4>1. (pending # None) = TRUE
          BY <3>2
        <4> QED BY <3>1, <4>1
      <3>3. CASE ~(pending # None)
        <4>1. (pending # None) = FALSE
          BY <3>3
        <4> QED BY <3>1, <4>1
      <3> QED BY <3>2, <3>3
    <2>2. "confirm" \in Calls
      BY DEF Calls
    <2>3. /\ <<r, "confirm">> \in inflight /\ ctx[r] = "live"
          /\ MessagesCurrent' /\ ctx' = ctx
          /\ \A q \in Requests : <<q, "confirm">> \in inflight' =>
                q # r /\ <<q, "confirm">> \in inflight
      BY <2>1, <2>2, ExecutedInTime
    <2>4. \A q \in Requests : q # r => ~(<<q, "confirm">> \in inflight /\ ctx[q] = "live")
      BY <2>3 DEF ConfirmAwaited
    <2> QED BY <2>3, <2>4 DEF ConfirmAwaited
  <1>8. CASE Crash
    BY <1>8 DEF Crash, MessagesCurrent, ConfirmAwaited
  <1>9. CASE Revert
    <2>1. UNCHANGED <<inflight, pc, ctx>> /\ ctx[pending.by] = "cancelled"
      BY <1>9 DEF Revert, WindowOver
    <2> QED BY <2>1 DEF MessagesCurrent, ConfirmAwaited
  <1>10. CASE Reboot
    BY <1>10 DEF Reboot, MessagesCurrent, ConfirmAwaited
  <1>11. CASE UNCHANGED vars
    BY <1>11 DEF vars, MessagesCurrent, ConfirmAwaited
  <1> QED
    BY <1>1, <1>2, <1>3, <1>4, <1>5, <1>6, <1>7, <1>8, <1>9, <1>10, <1>11
    DEF Next, DeviceStep

(* A Confirm on its way is for the commit that is pending.                 *)
THEOREM ConfirmIsAwaited == Spec => []InStep
  <1>1. Init => InStep
    BY DEF Init, InStep, MessagesCurrent, ConfirmAwaited
  <1>2. TypeOK /\ InStep /\ [Next]_vars => InStep'
    BY StepKeepsInStep
  <1> QED BY <1>1, <1>2, TypeCorrect, PTL DEF Spec

(* "confirm" carries no name, and yet a request only confirms its own      *)
(* commit, unless the device executes calls of callers that are gone.      *)
THEOREM ConfirmsOwn == Spec => ConfirmsOwnCommit
  <1>1. TypeOK /\ InStep /\ [Next]_vars =>
          [\A r \in Requests :
             "late" \notin faults /\ Confirm(r) /\ pending # None => pending.by = r]_vars
    <2> SUFFICES ASSUME TypeOK, InStep, NEW r \in Requests, "late" \notin faults, Confirm(r)
                 PROVE  pending.by = r
      OBVIOUS
    <2>1. PICK ok \in BOOLEAN : Executed(r, "confirm", ok)
      BY DEF Confirm
    <2>2. <<r, "confirm">> \in inflight /\ ctx[r] = "live"
      BY <2>1 DEF Executed
    <2> QED BY <2>2 DEF InStep, ConfirmAwaited
  <1> QED BY <1>1, ConfirmIsAwaited, TypeCorrect, PTL DEF Spec, ConfirmsOwnCommit

---------------------------------------------------------------------------
(* Failures.  What a request has seen when it leaves one of its calls.     *)
LEMMA MoveOnSeen ==
    ASSUME TypeOK, SeenSoFar, NEW r \in Requests, NEW ok \in BOOLEAN, NEW lost,
           pc[r] \in Calls, MoveOn(r, ok, lost)
    PROVE  SeenSoFar'
  <1>1. /\ \A q \in Requests : q # r => pc'[q] = pc[q] /\ oks'[q] = oks[q]
        /\ pc'[r] = After(r, pc[r], ok)
        /\ oks'[r] = IF ok THEN oks[r] \cup {pc[r]} ELSE oks[r]
    BY DEF MoveOn, TypeOK
  <1>2. pc'[r] # "configure"
    BY <1>1, AfterType
  <1>3. pc'[r] = "confirm" => pc[r] = "configure" /\ ok
    BY <1>1 DEF After, AfterStrict, AfterBestEffort, Calls
  <1>4. pc'[r] = "confirm" => oks'[r] = {"configure"}
    BY <1>1, <1>3 DEF SeenSoFar
  <1> QED BY <1>1, <1>2, <1>4 DEF SeenSoFar

LEMMA ExecutedSeen ==
    ASSUME TypeOK, SeenSoFar, NEW r \in Requests, NEW call \in Calls, NEW ok \in BOOLEAN,
           Executed(r, call, ok)
    PROVE  SeenSoFar'
  <1>1. CASE pc[r] = call /\ MoveOn(r, ok, {<<r, call>>})
    BY <1>1, MoveOnSeen
  <1>2. CASE UNCHANGED <<pc, oks>>
    BY <1>2 DEF SeenSoFar
  <1> QED BY <1>1, <1>2 DEF Executed

LEMMA StepKeepsSeen == TypeOK /\ CallsInOrder /\ SeenSoFar /\ [Next]_vars => SeenSoFar'
  <1> SUFFICES ASSUME TypeOK, CallsInOrder, SeenSoFar, [Next]_vars PROVE SeenSoFar'
    OBVIOUS
  <1>1. ASSUME NEW r \in Requests, Start(r) PROVE SeenSoFar'
    BY <1>1 DEF Start, TypeOK, CallsInOrder, SeenSoFar
  <1>2. ASSUME NEW r \in Requests, GiveUp(r) PROVE SeenSoFar'
    <2>1. pc[r] \in Calls /\ \E lost : MoveOn(r, FALSE, lost)
      BY <1>2 DEF GiveUp, Waiting
    <2> QED BY <2>1, MoveOnSeen
  <1>3. ASSUME NEW r \in Requests, Audit(r) PROVE SeenSoFar'
    BY <1>3 DEF Audit, TypeOK, SeenSoFar
  <1>4. ASSUME NEW r \in Requests, Accept(r) PROVE SeenSoFar'
    BY <1>4, ExecutedSeen DEF Accept, Calls
  <1>5. ASSUME NEW r \in Requests, Refuse(r) PROVE SeenSoFar'
    BY <1>5, ExecutedSeen DEF Refuse, Calls
  <1>6. ASSUME NEW r \in Requests, Confirm(r) PROVE SeenSoFar'
    <2>1. PICK ok \in BOOLEAN : Executed(r, "confirm", ok)
      BY <1>6 DEF Confirm
    <2>2. "confirm" \in Calls
      BY DEF Calls
    <2> QED BY <2>1, <2>2, ExecutedSeen
  <1>7. ASSUME NEW r \in Requests, Save(r) PROVE SeenSoFar'
    BY <1>7, ExecutedSeen DEF Save, Calls
  <1>8. CASE Crash
    BY <1>8 DEF Crash, TypeOK, SeenSoFar
  <1>9. CASE UNCHANGED <<pc, oks>>
    BY <1>9 DEF SeenSoFar
  <1> QED
    BY <1>1, <1>2, <1>3, <1>4, <1>5, <1>6, <1>7, <1>8, <1>9
    DEF Next, DeviceStep, Cancel, Revert, Reboot, vars

(* A call the device executes when nothing goes wrong.                     *)
LEMMA ExecutedPlainly ==
    ASSUME TypeOK, InStep, faults = {},
           NEW r \in Requests, NEW call \in Calls, NEW ok \in BOOLEAN,
           Executed(r, call, ok)
    PROVE  /\ pc[r] = call /\ <<r, call>> \in inflight /\ ctx[r] = "live"
           /\ \A q \in Requests : q # r => oks'[q] = oks[q]
           /\ oks'[r] = IF ok THEN oks[r] \cup {call} ELSE oks[r]
  <1>1. MessagesCurrent /\ "late" \notin faults /\ "answer" \notin faults
    BY DEF InStep
  <1>2. <<r, call>> \in inflight /\ ctx[r] = "live" /\ pc[r] = call
    BY <1>1 DEF Executed, MessagesCurrent
  <1>3. oks' = IF ok THEN [oks EXCEPT ![r] = @ \cup {call}] ELSE oks
    BY <1>1, <1>2 DEF Executed, MoveOn
  <1>4. oks \in [Requests -> SUBSET Calls]
    BY DEF TypeOK
  <1>5. CASE ok
    <2>1. oks' = [oks EXCEPT ![r] = @ \cup {call}]
      BY <1>3, <1>5
    <2> QED BY <1>2, <1>4, <1>5, <2>1
  <1>6. CASE ~ok
    <2>1. oks' = oks
      BY <1>3, <1>6
    <2> QED BY <1>2, <1>6, <2>1
  <1> QED BY <1>5, <1>6

(* Without faults a change that its request did not confirm is not what    *)
(* the timer falls back to.                                                *)
LEMMA StepKeepsKnowing ==
    ASSUME IInv, InStep, SeenSoFar, RequestsKnow, [Next]_vars
    PROVE  RequestsKnow'
  <1> DEFINE Known     == \A r \in running : "configure" \in oks[r]
             Pending   == pending # None => running = pending.to \cup {pending.by}
             Open(r)   == Minutes > 0 /\ "configure" \in oks[r] /\ "confirm" \notin oks[r]
             OpenOut   == \A r \in Requests : Open(r) => r \notin Confirmed
             Goal      == Known' /\ OpenOut'
  <1> SUFFICES ASSUME faults = {} PROVE Goal
    BY FaultsStay DEF RequestsKnow
  <1>0. TypeOK /\ Known /\ Pending /\ OpenOut
    BY DEF RequestsKnow, IInv, PendingIsRunning
  <1>1. CASE UNCHANGED <<oks, running, pending>>
    BY <1>0, <1>1 DEF Confirmed
  <1>2. ASSUME NEW r \in Requests, GiveUp(r) PROVE Goal
    <2>1. UNCHANGED <<oks, running, pending>>
      BY <1>2 DEF GiveUp, MoveOn, device
    <2> QED BY <1>1, <2>1
  <1>3. ASSUME NEW r \in Requests, Accept(r) PROVE Goal
    <2>1. /\ pending = None /\ running' = running \cup {r}
          /\ pending' = IF Minutes > 0 THEN [by |-> r, to |-> running] ELSE None
          /\ Executed(r, "configure", TRUE) /\ "configure" \in Calls /\ TRUE \in BOOLEAN
      BY <1>3 DEF Accept, Calls
    <2>2. /\ pc[r] = "configure"
          /\ \A q \in Requests : q # r => oks'[q] = oks[q]
          /\ oks'[r] = oks[r] \cup {"configure"}
      BY <1>0, <2>1, ExecutedPlainly
    <2>3. r \notin running
      BY <1>0, <2>2 DEF SeenSoFar
    <2>4. Known'
      BY <1>0, <2>1, <2>2 DEF TypeOK
    <2>5. ASSUME NEW q \in Requests, Open(q)' PROVE q \notin Confirmed'
      <3>1. Minutes > 0 /\ pending' # None /\ pending'.to = running
        BY <1>0, <2>1, <2>5, NoneIsNoPending DEF TypeOK
      <3>2. q \notin running
        <4>1. CASE q = r
          BY <2>3, <4>1
        <4>2. CASE q # r
          BY <1>0, <2>1, <2>2, <2>5, <4>2 DEF Confirmed
        <4> QED BY <4>1, <4>2
      <3> QED BY <3>1, <3>2 DEF Confirmed
    <2> QED BY <2>4, <2>5
  <1>4. ASSUME NEW r \in Requests, Refuse(r) PROVE Goal
    <2>1. Executed(r, "configure", FALSE) /\ UNCHANGED <<running, pending>>
      BY <1>4 DEF Refuse, device
    <2>2. oks' = oks
      BY <2>1 DEF Executed, MoveOn
    <2> QED BY <1>1, <2>1, <2>2
  <1>5. ASSUME NEW r \in Requests, Confirm(r) PROVE Goal
    <2>1. running' = running /\ pending' = None /\ Executed(r, "confirm", pending # None)
      BY <1>5 DEF Confirm
    <2>2. PICK ok \in BOOLEAN : ok = (pending # None)
      OBVIOUS
    <2>3. Executed(r, "confirm", ok) /\ "confirm" \in Calls
      BY <2>1, <2>2 DEF Calls
    <2>4. /\ <<r, "confirm">> \in inflight /\ ctx[r] = "live"
          /\ \A q \in Requests : q # r => oks'[q] = oks[q]
          /\ oks'[r] = IF ok THEN oks[r] \cup {"confirm"} ELSE oks[r]
      BY <1>0, <2>3, ExecutedPlainly
    <2>5. pending # None /\ pending.by = r
      BY <2>4 DEF InStep, ConfirmAwaited
    <2>6. \A q \in Requests : q # r => oks'[q] = oks[q]
      BY <2>4
    <2>7. oks'[r] = oks[r] \cup {"confirm"}
      BY <2>2, <2>4, <2>5
    <2>8. Known'
      BY <1>0, <2>1, <2>6, <2>7 DEF TypeOK
    <2>9. ASSUME NEW q \in Requests, Open(q)' PROVE q \notin Confirmed'
      <3>1. q # r /\ Open(q)
        BY <2>6, <2>7, <2>9
      <3>2. q \notin pending.to
        BY <1>0, <2>5, <3>1 DEF Confirmed
      <3>3. q \notin running
        BY <1>0, <2>5, <3>1, <3>2
      <3> QED BY <2>1, <3>3 DEF Confirmed
    <2> QED BY <2>1, <2>8, <2>9
  <1>6. ASSUME NEW r \in Requests, Save(r) PROVE Goal
    <2>1. /\ Executed(r, "save", TRUE) /\ UNCHANGED <<running, pending>>
          /\ "save" \in Calls /\ TRUE \in BOOLEAN
      BY <1>6 DEF Save, Calls
    <2>2. /\ \A q \in Requests : q # r => oks'[q] = oks[q]
          /\ oks'[r] = oks[r] \cup {"save"}
      BY <1>0, <2>1, ExecutedPlainly
    <2>3. \A q \in Requests : /\ "configure" \in oks'[q] <=> "configure" \in oks[q]
                              /\ "confirm" \in oks'[q] <=> "confirm" \in oks[q]
      BY <2>2
    <2>4. Known'
      BY <1>0, <2>1, <2>3 DEF TypeOK
    <2>5. OpenOut'
      BY <1>0, <2>1, <2>3 DEF Confirmed
    <2> QED BY <1>0, <2>1, <2>4, <2>5
  <1>7. CASE Revert
    <2>1. /\ pending # None /\ running' = pending.to /\ pending' = None /\ oks' = oks
          /\ pending.to \subseteq running
      BY <1>7 DEF Revert, IInv, PendingIsRunning
    <2> QED BY <1>0, <2>1 DEF Confirmed
  <1>8. ~Crash /\ ~Reboot
    BY DEF Crash, Reboot
  <1> QED
    BY <1>1, <1>2, <1>3, <1>4, <1>5, <1>6, <1>7, <1>8
    DEF Next, DeviceStep, Start, Audit, Cancel, device, vars

(* "commit-confirm failed, changes reverted": once all is settled, a       *)
(* change whose Confirm failed is not on the device, if a failed call      *)
(* never took effect and nothing reboots.                                  *)
THEOREM FailureReverts == Spec => []PlainFailureReverts
  <1>1. Init => SeenSoFar /\ RequestsKnow
    BY DEF Init, SeenSoFar, RequestsKnow, Confirmed
  <1>2. IInv /\ InStep /\ SeenSoFar /\ RequestsKnow /\ [Next]_vars =>
          SeenSoFar' /\ RequestsKnow'
    BY StepKeepsSeen, StepKeepsKnowing DEF IInv
  <1>3. RequestsKnow => PlainFailureReverts
    BY DEF RequestsKnow, PlainFailureReverts, FailedConfirmReverts, FailedConfirm,
       Settled, Confirmed
  <1> QED BY <1>1, <1>2, <1>3, Invariant, ConfirmIsAwaited, PTL DEF Spec

---------------------------------------------------------------------------
(* The device as it is promised.                                           *)

(* What a request has seen succeed stays with it.                          *)
LEMMA OksGrow ==
    ASSUME TypeOK, [Next]_vars
    PROVE  \A r \in Requests : oks[r] \subseteq oks'[r]
  <1>1. ASSUME NEW r \in Requests, NEW ok, NEW lost, MoveOn(r, ok, lost)
        PROVE  \A q \in Requests : oks[q] \subseteq oks'[q]
    BY <1>1 DEF MoveOn, TypeOK
  <1>2. ASSUME NEW r \in Requests, NEW call, NEW ok, Executed(r, call, ok)
        PROVE  \A q \in Requests : oks[q] \subseteq oks'[q]
    BY <1>1, <1>2 DEF Executed
  <1>3. ASSUME NEW r \in Requests, DeviceStep(r)
        PROVE  \A q \in Requests : oks[q] \subseteq oks'[q]
    BY <1>2, <1>3 DEF DeviceStep, Accept, Refuse, Confirm, Save
  <1>4. ASSUME NEW r \in Requests, GiveUp(r)
        PROVE  \A q \in Requests : oks[q] \subseteq oks'[q]
    BY <1>1, <1>4 DEF GiveUp
  <1> QED
    BY <1>3, <1>4 DEF Next, vars, Start, Audit, Cancel, Crash, Revert, Reboot

(* A step of the write flow is a step of the promised device, or none.     *)
LEMMA StepImplements ==
    ASSUME IInv, [Next]_vars
    PROVE  [Changes!Next]_(Changes!vars)
  <1> DEFINE kept   == Confirmed
             trial  == IF pending = None THEN {} ELSE {pending.by}
             stored == startup
             acked  == {r \in Strict : Succeeded(r)}
  <1>1. /\ pending # None => running = pending.to \cup {pending.by}
        /\ TypeOK
    BY DEF IInv, PendingIsRunning
  <1>2. running = kept \cup trial
    BY <1>1 DEF Confirmed
  <1>3. Changes!Report
    <2>1. \A r \in Strict : Succeeded(r) => Succeeded(r)'
      BY <1>1, OksGrow DEF Succeeded, Requests
    <2>2. \A r \in Strict : Succeeded(r)' => Succeeded(r) \/ r \in Confirmed'
      BY StepKeepsAcked
    <2> QED
      BY <2>1, <2>2 DEF Changes!Report
  <1>4. ASSUME UNCHANGED device PROVE UNCHANGED <<kept, trial, stored>>
    BY <1>4 DEF device, Confirmed
  <1>5. ASSUME NEW r \in Requests, Accept(r) PROVE Changes!Apply
    <2>1. /\ pending = None /\ running' = running \cup {r} /\ startup' = startup
          /\ pending' = IF Minutes > 0 THEN [by |-> r, to |-> running] ELSE None
      BY <1>5 DEF Accept
    <2>2. CASE Minutes > 0
      <3>1. pending' = [by |-> r, to |-> running] /\ pending' # None
        BY <1>1, <2>1, <2>2, NoneIsNoPending DEF TypeOK
      <3> QED
        BY <2>1, <3>1 DEF Changes!Apply, Confirmed
    <2>3. CASE ~(Minutes > 0)
      BY <2>1, <2>3 DEF Changes!Apply, Confirmed
    <2> QED
      BY <2>2, <2>3
  <1>6. ASSUME NEW r \in Requests, Confirm(r) PROVE Changes!Keep
    BY <1>2, <1>6 DEF Confirm, Changes!Keep, Confirmed
  <1>7. ASSUME NEW r \in Requests, Save(r) PROVE Changes!Store
    BY <1>2, <1>7 DEF Save, Changes!Store, Confirmed
  <1>8. ASSUME Revert PROVE Changes!TakeBack
    BY <1>8 DEF Revert, Changes!TakeBack, Confirmed
  <1>9. ASSUME Reboot PROVE Changes!Restart
    BY <1>9 DEF Reboot, Changes!Restart, Confirmed, Succeeded
  <1> DEFINE Moves == \/ Changes!Apply \/ Changes!Keep \/ Changes!TakeBack
                      \/ Changes!Store \/ Changes!Restart
                      \/ UNCHANGED <<kept, trial, stored>>
  <1>10. Moves
    <2> HIDE DEF kept, trial, stored
    <2> QED
      BY <1>4, <1>5, <1>6, <1>7, <1>8, <1>9
      DEF Next, vars, DeviceStep, Start, GiveUp, Audit, Cancel, Refuse, Crash, device
  <1> QED
    BY <1>3, <1>10 DEF Changes!Next

(* The write flow implements the promised device, with every fault there   *)
(* is.  Its steps find the running configuration split into what the timer *)
(* falls back to and the change on trial.                                  *)
THEOREM DeviceIsAsPromised == Spec => ImplementsChanges
  <1>1. Init => Changes!Init
    BY DEF Init, Changes!Init, Confirmed, Succeeded, Requests
  <1>2. IInv /\ [Next]_vars => [Changes!Next]_(Changes!vars)
    BY StepImplements
  <1> QED
    BY <1>1, <1>2, Invariant, PTL DEF Spec, ImplementsChanges, Changes!Spec
=============================================================================
