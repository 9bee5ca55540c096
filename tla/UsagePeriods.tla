---------------------------- MODULE UsagePeriods ---------------------------
(***************************************************************************)
(* Days and months of the usage accounting, for one scope of one device.   *)
(* An iteration of the job writes the current hour and the one before      *)
(* (UsageRollup says what), then adds hours into days, then into months,   *)
(* and replaces the totals of the current period and the one before.       *)
(***************************************************************************)
EXTENDS Integers, FiniteSetsExt

CONSTANTS
    HoursPerDay, DaysPerMonth, \* the scale of time
    DayLookback,  \* hours read for days (50 in the code: 2 days and 2 hours)
    FaultSets,    \* the sets of faults to consider, each a subset of AllFaults
    MaxTime, MaxUsage \* bounds; MaxTime[faults] hours

(* "store": statements fail; "down": no iteration ends within an hour.     *)
AllFaults == {"store", "down"}

VARIABLES
    faults,  \* what may go wrong in this behaviour; never changes
    now,     \* the hour
    hourly,  \* stored hours: hour -> bytes
    totals,  \* stored days and months: <<type, start>> -> bytes
    pc,      \* where the job stands
    at,      \* the time the running iteration began to roll
    pending, \* totals it has computed and not written: [key, rx]
    fresh    \* an iteration ended in this hour and none began since

vars == <<faults, now, hourly, totals, pc, at, pending, fresh>>

Types == {"day", "month"}
Length(type) == IF type = "day" THEN HoursPerDay ELSE HoursPerDay * DaysPerMonth

periodStart(hour, type) == hour - (hour % Length(type))
Prior(hour, type) == periodStart(hour, type) - Length(type)

TypeOK ==
    /\ faults \in FaultSets
    /\ now \in 0..MaxTime[faults] /\ at \in 0..now
    /\ DOMAIN hourly \subseteq 0..now
    /\ \A h \in DOMAIN hourly : hourly[h] \in 0..MaxUsage
    /\ \A k \in DOMAIN totals : k[1] \in Types /\ totals[k] \in Nat
    /\ pc \in {"idle", "hour", "day", "month"}
    /\ \A r \in pending : r.key[1] = pc /\ r.rx \in Nat
    /\ fresh \in BOOLEAN

Init ==
    /\ faults \in FaultSets
    /\ now = 0 /\ at = 0
    /\ hourly = <<>> /\ totals = <<>>
    /\ pc = "idle" /\ pending = {}
    /\ fresh = FALSE

Tick ==
    /\ now < MaxTime[faults]
    /\ fresh \/ "down" \in faults
    /\ now' = now + 1
    /\ fresh' = FALSE
    /\ UNCHANGED <<faults, hourly, totals, pc, at, pending>>

BeginIteration ==
    /\ pc = "idle"
    /\ pc' = "hour"
    /\ fresh' = FALSE
    /\ UNCHANGED <<faults, now, hourly, totals, at, pending>>

(* The insert of a row that replaces the one of the same key.              *)
Upsert(table, key, row) ==
    [k \in DOMAIN table \cup {key} |-> IF k = key THEN row ELSE table[k]]

(* SetUsage of an hour, as far as UsageRollup lets it change.              *)
WriteHour ==
    /\ pc = "hour"
    /\ \E h \in {now - 1, now} \cap Nat, rx \in 0..MaxUsage :
           hourly' = Upsert(hourly, h, rx)
    /\ UNCHANGED <<faults, now, totals, pc, at, pending, fresh>>

TotalOf(type, start, hours) ==
    MapThenSumSet(LAMBDA h : hourly[h], {h \in hours : periodStart(h, type) = start})

aggregateHourly(hours, type) ==
    {[key |-> <<type, start>>, rx |-> TotalOf(type, start, hours)] :
        start \in {periodStart(h, type) : h \in hours}}

(* Mutant: the daily job reads one day back.                               *)
OneDayBack(from, type) ==
    IF type = "day" THEN from - HoursPerDay ELSE Prior(from, type)

LookbackStart(from, type) ==
    IF type = "day" THEN from - DayLookback ELSE Prior(from, type)

(* Mutant: only the current period is written.                             *)
RollCurrent(type, from) ==
    /\ LET hours == {h \in DOMAIN hourly : h >= LookbackStart(from, type)}
       IN  pending' = {r \in aggregateHourly(hours, type) : r.key[2] >= periodStart(from, type)}
    /\ pc' = type /\ at' = from

Roll(type, from) ==
    /\ \/ LET hours == {h \in DOMAIN hourly : h >= LookbackStart(from, type)}
          IN  pending' = {r \in aggregateHourly(hours, type) : r.key[2] >= Prior(from, type)}
       \/ "store" \in faults /\ pending' = {}
    /\ pc' = type /\ at' = from

runDailyMonthlyRollup ==
    /\ pending = {}
    /\ \/ pc = "hour" /\ Roll("day", now) /\ UNCHANGED fresh
       \/ pc = "day" /\ Roll("month", at) /\ UNCHANGED fresh
       \/ pc = "month" /\ pc' = "idle" /\ fresh' = TRUE /\ UNCHANGED <<at, pending>>
    /\ UNCHANGED <<faults, now, hourly, totals>>

SetUsage ==
    \E r \in pending :
        /\ pending' = pending \ {r}
        /\ \/ totals' = Upsert(totals, r.key, r.rx)
           \/ "store" \in faults /\ UNCHANGED totals
        /\ UNCHANGED <<faults, now, hourly, pc, at, fresh>>

(* The backend restarts.                                                   *)
Restart ==
    /\ pc # "idle"
    /\ pc' = "idle" /\ pending' = {}
    /\ UNCHANGED <<faults, now, hourly, totals, at, fresh>>

Next ==
    \/ Tick \/ Restart
    \/ BeginIteration \/ WriteHour \/ runDailyMonthlyRollup \/ SetUsage

Spec == Init /\ [][Next]_vars

---------------------------------------------------------------------------
(* A day or month is computed from all of its hours: "50h ensures the      *)
(* whole of yesterday is present even right after midnight"                *)
(* (usage_aggregate.go:54).                                                *)
WholePeriods ==
    [][\A r \in pending' \ pending :
           r.rx = TotalOf(r.key[1], r.key[2], DOMAIN hourly)]_vars

(* After an iteration every day and month ever stored equals the sum of    *)
(* its hours, the ones no iteration will write again included: "older      *)
(* complete periods are left intact" (usage_aggregate.go:47).  It takes an *)
(* iteration that ends in every hour, not one without interruptions.       *)
PeriodsAgree ==
    faults = {} /\ fresh => \A h \in DOMAIN hourly, type \in Types :
                 LET start == periodStart(h, type)
                 IN  /\ <<type, start>> \in DOMAIN totals
                     /\ totals[<<type, start>>] = TotalOf(type, start, DOMAIN hourly)

(* Why (inductive): of the periods before the two that are written at this *)
(* hour nothing changes any more, and the days and the months under way    *)
(* are each right in the table or in what is still to be written.          *)
Agrees(type, start) ==
    /\ <<type, start>> \in DOMAIN totals
    /\ totals[<<type, start>>] = TotalOf(type, start, DOMAIN hourly)

Clock == now \in Nat /\ at \in Nat /\ DOMAIN hourly \subseteq Nat

UpToDate ==
    /\ pc \in {"idle", "hour", "day", "month"}
    /\ fresh => pc = "idle"
    /\ pc \in Types => at = now
    /\ pc \notin Types => pending = {}
    /\ \A r \in pending : /\ r.key = <<pc, r.key[2]>>
                         /\ r.rx = TotalOf(pc, r.key[2], DOMAIN hourly)
    /\ \A h \in DOMAIN hourly, type \in Types :
           LET start == periodStart(h, type)
           IN  /\ (start < Prior(now, type) \/ fresh \/ (type = "day" /\ pc = "month"))
                     => Agrees(type, start)
               /\ type = pc => \/ Agrees(type, start)
                               \/ \E r \in pending : r.key = <<type, start>>

IInv == Clock /\ (faults = {} => UpToDate)

=============================================================================
