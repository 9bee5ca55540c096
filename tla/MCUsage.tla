------------------------------ MODULE MCUsage ------------------------------
(***************************************************************************)
(* Instances of UsageRollup and UsagePeriods for TLC, side by side: a      *)
(* behaviour is one of one of them.  Of UsagePeriods two whole months      *)
(* without failures, a month and the beginning of the next one with them.  *)
(***************************************************************************)
EXTENDS Integers, FiniteSets, TLC

CONSTANTS
    Ifaces, SlotsPerHour, Lookback, Retention, ReadingGap,
    FaultSets, MaxTime, MaxBytes, MaxReboots,             \* UsageRollup
    HoursPerDay, DaysPerMonth, DayLookback,
    PeriodFaults, MaxHours, MaxUsage                      \* UsagePeriods

VARIABLES
    half,
    faults, now, counter, passed, reboots, raw, snaps, usage, job, readAt,
    periodFaults, hour, hourly, totals, pc, at, pending, fresh

hourVars == <<faults, now, counter, passed, reboots, raw, snaps, usage, job, readAt>>
periodVars == <<periodFaults, hour, hourly, totals, pc, at, pending, fresh>>

Hours   == INSTANCE UsageRollup
Periods == INSTANCE UsagePeriods WITH
             FaultSets <- PeriodFaults, MaxTime <- MaxHours,
             faults <- periodFaults, now <- hour

ASSUME FaultsKnown ==
    FaultSets \subseteq SUBSET Hours!AllFaults /\ PeriodFaults \subseteq SUBSET Periods!AllFaults
ASSUME ScaleAssumption ==
    /\ IsFiniteSet(Ifaces)
    /\ {SlotsPerHour, ReadingGap, HoursPerDay, DaysPerMonth} \subseteq Nat \ {0}
ASSUME LookbackAssumption ==
    /\ {Lookback, Retention, DayLookback} \subseteq Nat
    /\ Retention >= Lookback + ReadingGap /\ DayLookback >= 2 * HoursPerDay

\* Instances of the constants: without faults longer than with them.
NoFaults       == {{}}
StoreShow      == {"store", "show"}
MCFaultSets    == {{}, StoreShow}
MCMaxTime      == ({} :> 5) @@ (StoreShow :> 3)
StoreDown      == {"store", "down"}
MCPeriodFaults == {{}, StoreDown}
MCMaxHours     == ({} :> 8) @@ (StoreDown :> 4)

BothInit ==
    /\ half \in {"hours", "days"}
    /\ Hours!Init /\ (half = "hours" \/ (faults = {} /\ \A i \in Ifaces : counter[i] = 0))
    /\ Periods!Init /\ (half = "days" \/ periodFaults = {})

OnHours == half = "hours" /\ Hours!Next /\ UNCHANGED <<half, periodVars>>
OnDays  == half = "days" /\ Periods!Next /\ UNCHANGED <<half, hourVars>>

BothNext == OnHours \/ OnDays
bothVars == <<half, hourVars, periodVars>>
BothSpec == BothInit /\ [][BothNext]_bothVars

---------------------------------------------------------------------------
(* "Conservative: never over-counts" (usage_rollup.go:21): no scope's      *)
(* hours add up to more than the bytes that passed.                        *)
NeverOverCounts == Hours!NeverOverCounts

(* A pass that is not in the last reading interval of its hour takes       *)
(* nothing back of any hour (usage_rollup.go:113, 129-132).                *)
HoursKept == Hours!HoursKept

(* "a just-completed hour gets its final value" (usage_rollup.go:119): no  *)
(* pass at all takes anything back.  The code breaks this.                 *)
HoursAreFinal == Hours!HoursAreFinal

(* "the whole of yesterday is present even right after midnight"           *)
(* (usage_aggregate.go:54): a total is computed from all of its hours.     *)
WholePeriods == Periods!WholePeriods

(* "older complete periods are left intact" (usage_aggregate.go:47): with  *)
(* an iteration in every hour every total is the sum of its hours.         *)
PeriodsAgree == Periods!PeriodsAgree

=============================================================================
