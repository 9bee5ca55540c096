---------------------------- MODULE UsageRollup ----------------------------
(***************************************************************************)
(* Usage accounting of one device.  The poller stores readings of the      *)
(* cumulative byte counters; a job of its own adds the differences of      *)
(* consecutive readings into hours and replaces the stored totals.  The    *)
(* two share the database and no lock.  Received bytes stand for both      *)
(* directions, which are treated alike.  UsagePeriods has days and months. *)
(***************************************************************************)
EXTENDS Integers, FiniteSets, FiniteSetsExt

CONSTANTS
    Ifaces,
    SlotsPerHour,  \* the scale of time
    Lookback,      \* slots read by the job (2 hours in the code)
    Retention,     \* slots a reading is kept
    ReadingGap,    \* at least one reading is stored in that many slots
    FaultSets,     \* the sets of faults to consider, each a subset of AllFaults
    MaxTime, MaxBytes, MaxReboots  \* bounds; MaxTime[faults] slots

(* "store": statements fail; "show": an interface does not answer;         *)
(* "no_counters": its answer has no counter in it.                         *)
AllFaults == {"store", "show", "no_counters"}

VARIABLES
    faults,   \* what may go wrong in this behaviour; never changes
    now,      \* the clock, in slots
    counter,  \* counter[i]: bytes since the device booted
    passed,   \* passed[i]: bytes since the device was added (no code sees this)
    reboots,
    raw,      \* the last readings in memory, of the interfaces that answered
    snaps,    \* snaps[i]: stored readings [ts, rx]
    usage,    \* the stored totals: <<scope, hour>> -> [rx, reset]
    job,      \* the job: the rows it has yet to write
    readAt    \* when it read them: readAt - Lookback is where it starts (0: no job)

device == <<now, counter, passed, reboots>>
vars == <<faults, device, raw, snaps, usage, job, readAt>>

Scopes == {"device"} \cup Ifaces
HourOf(slot) == slot \div SlotsPerHour
Total == [rx: Nat, reset: BOOLEAN]

TypeOK ==
    /\ faults \in FaultSets
    /\ now \in 0..MaxTime[faults] /\ reboots \in 0..MaxReboots
    /\ counter \in [Ifaces -> Nat] /\ passed \in [Ifaces -> Nat]
    /\ DOMAIN raw \subseteq Ifaces
    /\ snaps \in [Ifaces -> SUBSET [ts: 0..now, rx: Nat]]
    /\ DOMAIN usage \subseteq Scopes \X (0..now)
    /\ \A k \in DOMAIN usage : usage[k] \in Total
    /\ readAt \in 0..now
    /\ \A r \in job : r.key \in Scopes \X (0..now) /\ r.total \in Total

Init ==
    /\ faults \in FaultSets
    /\ now = 0 /\ reboots = 0
    /\ counter \in [Ifaces -> {0, 1}]
    /\ passed = [i \in Ifaces |-> 0]
    /\ raw = <<>>
    /\ snaps = [i \in Ifaces |-> {}]
    /\ usage = <<>>
    /\ job = {} /\ readAt = 0

---------------------------------------------------------------------------
(* The device and the clock.                                               *)

Pass(i) ==
    /\ MapThenSumSet(LAMBDA j : passed[j], Ifaces) < MaxBytes
    /\ counter' = [counter EXCEPT ![i] = @ + 1]
    /\ passed' = [passed EXCEPT ![i] = @ + 1]
    /\ UNCHANGED <<faults, now, reboots, raw, snaps, usage, job, readAt>>

Reboot ==
    /\ reboots < MaxReboots
    /\ reboots' = reboots + 1
    /\ counter' = [i \in Ifaces |-> 0]
    /\ UNCHANGED <<faults, now, passed, raw, snaps, usage, job, readAt>>

Tick ==
    /\ now < MaxTime[faults]
    /\ \A i \in Ifaces : \E s \in snaps[i] : s.ts > now - ReadingGap
    /\ now' = now + 1
    /\ UNCHANGED <<faults, counter, passed, reboots, raw, snaps, usage, job, readAt>>

(* Mutant: an interface that does not answer reads as zero.                *)
ReadFailedAsZero ==
    {[i \in Ifaces |-> IF i \in answer THEN counter[i] ELSE 0] :
        answer \in IF "show" \in faults THEN SUBSET Ifaces ELSE {Ifaces}}

(* What each interface that answers reads as; an answer in which the       *)
(* parser finds no counter reads as zero.                                  *)
Readings ==
    UNION {{r \in [answer -> {counter[i] : i \in Ifaces} \cup {0}] :
               \A i \in answer : \/ r[i] = counter[i]
                                 \/ "no_counters" \in faults /\ r[i] = 0} :
               answer \in IF "show" \in faults THEN SUBSET Ifaces ELSE {Ifaces}}

Collect ==
    /\ raw' \in Readings
    /\ UNCHANGED <<faults, device, snaps, usage, job, readAt>>

(* Stores what is in memory, read now or earlier (when the interfaces      *)
(* cannot be listed); a second row for the same time is not inserted.      *)
persistCounterSnapshots ==
    /\ \E stored \in IF "store" \in faults THEN SUBSET DOMAIN raw ELSE {DOMAIN raw} :
           snaps' = [i \in Ifaces |->
               IF i \in stored /\ \A s \in snaps[i] : s.ts # now
                 THEN snaps[i] \cup {[ts |-> now, rx |-> raw[i]]}
                 ELSE snaps[i]]
    /\ UNCHANGED <<faults, device, raw, usage, job, readAt>>

Prune ==
    /\ snaps' = [i \in Ifaces |-> {s \in snaps[i] : s.ts >= now - Retention}]
    /\ UNCHANGED <<faults, device, raw, usage, job, readAt>>

---------------------------------------------------------------------------
(* The hourly job.                                                         *)

usageDelta(prev, curr) ==
    IF curr >= prev THEN [rx |-> curr - prev, reset |-> FALSE]
                    ELSE [rx |-> curr, reset |-> TRUE]

(* Consecutive readings of a scope's interfaces, in the readings read.     *)
PairsOf(i, readings) ==
    LET Following(p) == CHOOSE s \in readings :
                       /\ p.ts < s.ts
                       /\ ~\E q \in readings : p.ts < q.ts /\ q.ts < s.ts
    IN  {<<i, p, Following(p)>> :
            p \in {r \in readings : \E s \in readings : r.ts < s.ts}}

Pairs(read, scope) ==
    UNION {PairsOf(i, read[i]) : i \in IF scope = "device" THEN Ifaces ELSE {scope}}

Row(scope, hour, deltas) ==
    [key |-> <<scope, hour>>,
     total |-> [rx |-> MapThenSumSet(LAMBDA x : x.delta.rx, deltas),
                reset |-> \E x \in deltas : x.delta.reset]]

(* The totals of every hour in which one of the readings falls that has a  *)
(* reading before it.                                                      *)
accumulate(read) ==
    UNION {LET Deltas == {[pair |-> pair, delta |-> usageDelta(pair[2].rx, pair[3].rx)] :
                             pair \in Pairs(read, scope)}
               Hour(x) == HourOf(x.pair[3].ts)
           IN  {Row(scope, h, {x \in Deltas : Hour(x) = h}) : h \in {Hour(x) : x \in Deltas}} :
           scope \in Scopes}

(* The look-back starts at the time of the pass, not with a slot of some   *)
(* hour: late in an hour the last reading before the prior one is left out.*)
Window(lookback) == [i \in Ifaces |-> {s \in snaps[i] : s.ts >= now - lookback}]

ReadAt(t) == readAt' = IF job' = {} THEN 0 ELSE t

Rollup(lookback) ==
    /\ job = {}
    /\ job' = {r \in accumulate(Window(lookback)) : r.key[2] >= HourOf(now) - 1}
    /\ ReadAt(now)
    /\ UNCHANGED <<faults, device, raw, snaps, usage>>

(* Mutant: the job reads back one hour.                                    *)
ReadOneHour == Rollup(SlotsPerHour)

runUsageRollup == Rollup(Lookback)

(* The insert of a row that replaces the one of the same key.              *)
Upsert(table, key, row) ==
    [k \in DOMAIN table \cup {key} |-> IF k = key THEN row ELSE table[k]]
SetUsage(row) == usage' = Upsert(usage, row.key, row.total)

Write ==
    \E row \in job :
        /\ job' = job \ {row}
        /\ SetUsage(row) \/ ("store" \in faults /\ UNCHANGED usage)
        /\ ReadAt(readAt)
        /\ UNCHANGED <<faults, device, raw, snaps>>

(* The backend restarts.                                                   *)
Restart ==
    /\ raw' = <<>>
    /\ job' = {} /\ readAt' = 0
    /\ UNCHANGED <<faults, device, snaps, usage>>

Next ==
    \/ \E i \in Ifaces : Pass(i)
    \/ Reboot \/ Tick
    \/ Collect \/ persistCounterSnapshots \/ Prune
    \/ runUsageRollup \/ Write
    \/ Restart

Spec == Init /\ [][Next]_vars

---------------------------------------------------------------------------
Stored(scope) == {k \in DOMAIN usage : k[1] = scope}

PassedOf(scope) ==
    MapThenSumSet(LAMBDA j : passed[j], IF scope = "device" THEN Ifaces ELSE {scope})

(* "Conservative: never over-counts" (usage_rollup.go:21): whatever is     *)
(* read twice, missed, reset or half written, no scope's totals add up to  *)
(* more than the bytes that passed.                                        *)
NeverOverCounts ==
    \A scope \in Scopes :
        MapThenSumSet(LAMBDA k : usage[k].rx, Stored(scope)) <= PassedOf(scope)

(* No hour ever shrinks, nor does it lose the mark of a reset.             *)
NothingTakenBack ==
    \A k \in DOMAIN usage : /\ usage'[k].rx >= usage[k].rx
                           /\ usage[k].reset => usage'[k].reset

(* "2h look-back covers the current hour plus the one before (so a         *)
(* just-completed hour gets its final value once no more snapshots         *)
(* arrive)" (usage_rollup.go:118-119): an hour is never taken back again,  *)
(* if nothing fails.  The code breaks this.                                *)
HoursAreFinal == [][faults = {} => NothingTakenBack]_vars

(* With so much of its hour left, a pass looks back to a reading that was  *)
(* stored before the prior hour began.                                     *)
SeesBaseline == readAt + ReadingGap <= SlotsPerHour * (HourOf(readAt) + 1)

(* What is true of it: only a pass in the last reading interval of an hour *)
(* takes anything back.  What any other pass writes is no less than what   *)
(* was stored, through resets, restarts and a job that is cut short.       *)
HoursKept == [][faults = {} /\ SeesBaseline => NothingTakenBack]_vars

=============================================================================
