--------------------------- MODULE SnapshotChain ---------------------------
(***************************************************************************)
(* The configuration snapshots of one device.  A capture retrieves the     *)
(* configuration, looks up the latest row of device_snapshots, and inserts *)
(* a row with that one as its parent unless the two are equal.  Captures   *)
(* are started by the poller's tick and by the "Refresh now" handler; they *)
(* share no lock and no transaction.  The handler then answers with the    *)
(* latest row.                                                             *)
(*                                                                         *)
(* rows is the table in the order of taken_at, which the INSERT takes from *)
(* the database's clock; a row's id is its position.                       *)
(***************************************************************************)
EXTENDS Naturals, Sequences

CONSTANTS
    Pollers,    \* pollOne of this device: one at a time, tick waits for it
    Handlers,   \* captureSnapshotNow requests
    Configs,    \* configurations; equal members have equal canonical hashes
    MaxChanges, \* bound: how often the device's configuration changes
    FaultSets   \* the sets of faults to consider, each a subset of AllFaults

Capturers == Pollers \cup Handlers

(* "fail": a retrieve or a statement may fail.  "overlap": a capture may   *)
(* begin while another one is under way.                                   *)
AllFaults == {"fail", "overlap"}

ASSUME OnePoller    == \A p, q \in Pollers : p = q
ASSUME ChangesNat   == MaxChanges \in Nat
ASSUME FaultsKnown  == FaultSets \subseteq SUBSET AllFaults
ASSUME SomeConfig   == Configs # {}

VARIABLES
    faults,  \* what may happen in this behaviour; never changes
    history, \* the device's configurations so far, the running one last
    rows,    \* device_snapshots: [of, seen, parent]; 0 is no parent, seen is
             \* the place in history where the configuration was retrieved
    pc,      \* where each capture stands
    cfg,     \* cfg[c]: [of, seen], the configuration c has retrieved
    latest,  \* latest[c]: the id the dedup lookup returned, 0 if none
    answer   \* answer[h]: the row h has answered with, 0 for a 502

vars == <<faults, history, rows, pc, cfg, latest, answer>>

Retrieved == [of: Configs, seen: Nat]
Row       == [of: Configs, seen: Nat, parent: Nat]

Running   == history[Len(history)]

TypeOK ==
    /\ faults \in FaultSets
    /\ history \in Seq(Configs) /\ history # << >>
    /\ rows \in Seq(Row)
    /\ pc \in [Capturers -> {"idle", "lookup", "insert", "answer", "done"}]
    /\ cfg \in [Capturers -> Retrieved]
    /\ latest \in [Capturers -> Nat]
    /\ answer \in [Handlers -> Nat]

Init ==
    /\ faults \in FaultSets
    /\ history \in {<<first>> : first \in Configs}
    /\ rows = << >>
    /\ pc = [c \in Capturers |-> "idle"]
    /\ cfg = [c \in Capturers |-> [of |-> history[1], seen |-> 1]]
    /\ latest = [c \in Capturers |-> 0]
    /\ answer = [h \in Handlers |-> 0]

---------------------------------------------------------------------------
(* Somebody reconfigures the device.                                       *)
Change ==
    /\ Len(history) <= MaxChanges
    /\ \E new \in Configs \ {Running} : history' = Append(history, new)
    /\ UNCHANGED <<faults, rows, pc, cfg, latest, answer>>

(* Where a capture goes when it is over, or failed and was logged.         *)
Over(c) == IF c \in Handlers THEN "answer" ELSE "idle"

Resting(c) == pc[c] \in {"idle", "done"}

Retrieve(c) ==
    /\ Resting(c)
    /\ "overlap" \in faults \/ \A d \in Capturers : Resting(d)
    /\ cfg' = [cfg EXCEPT ![c] = [of |-> Running, seen |-> Len(history)]]
    /\ pc' = [pc EXCEPT ![c] = "lookup"]
    /\ UNCHANGED <<faults, history, rows, latest, answer>>

(* Mutant: ORDER BY taken_at without DESC.                                 *)
LookupOldest(c) ==
    /\ pc[c] = "lookup"
    /\ latest' = [latest EXCEPT ![c] = IF rows = << >> THEN 0 ELSE 1]
    /\ pc' = [pc EXCEPT ![c] =
                  IF rows # << >> /\ rows[1].of = cfg[c].of THEN Over(c) ELSE "insert"]
    /\ UNCHANGED <<faults, history, rows, cfg, answer>>

(* Mutant: no dedup.                                                       *)
LookupOnly(c) ==
    /\ pc[c] = "lookup"
    /\ latest' = [latest EXCEPT ![c] = Len(rows)]
    /\ pc' = [pc EXCEPT ![c] = "insert"]
    /\ UNCHANGED <<faults, history, rows, cfg, answer>>

(* The dedup check of AppendSnapshot.                                      *)
Lookup(c) ==
    /\ pc[c] = "lookup"
    /\ latest' = [latest EXCEPT ![c] = Len(rows)]
    /\ pc' = [pc EXCEPT ![c] =
                  IF rows # << >> /\ rows[Len(rows)].of = cfg[c].of
                  THEN Over(c) ELSE "insert"]
    /\ UNCHANGED <<faults, history, rows, cfg, answer>>

(* Its INSERT.                                                             *)
Insert(c) ==
    /\ pc[c] = "insert"
    /\ rows' = Append(rows, [of |-> cfg[c].of, seen |-> cfg[c].seen,
                             parent |-> latest[c]])
    /\ pc' = [pc EXCEPT ![c] = Over(c)]
    /\ UNCHANGED <<faults, history, cfg, latest, answer>>

(* The device or the database fails: captureSnapshot logs and returns.     *)
Fail(c) ==
    /\ "fail" \in faults
    /\ pc[c] \in {"idle", "done", "lookup", "insert"}
    /\ pc' = [pc EXCEPT ![c] = Over(c)]
    /\ UNCHANGED <<faults, history, rows, cfg, latest, answer>>

(* The handler answers with LatestSnapshot, whatever CaptureSnapshot did.  *)
Answer(h) ==
    /\ pc[h] = "answer"
    /\ answer' = [answer EXCEPT ![h] = Len(rows)]
    /\ pc' = [pc EXCEPT ![h] = "done"]
    /\ UNCHANGED <<faults, history, rows, cfg, latest>>

Capture(c) == Retrieve(c) \/ Lookup(c) \/ Insert(c) \/ Fail(c)

Next ==
    \/ Change
    \/ \E c \in Capturers : Capture(c)
    \/ \E h \in Handlers : Answer(h)

Spec == Init /\ [][Next]_vars

---------------------------------------------------------------------------
(* A row was inserted because it differs from its parent, an older row: a  *)
(* chain of parents is a history of changes (snapshots.go:138-161).        *)
ParentDiffers ==
    \A i \in 1..Len(rows) :
        LET parent == rows[i].parent IN
        parent # 0 => parent < i /\ rows[parent].of # rows[i].of

(* "If the most recent snapshot for the device has an identical            *)
(* config_hash, no row is inserted" (snapshots.go:112-113), as long as     *)
(* captures of the device do not overlap.                                  *)
NoDuplicateInARow ==
    "overlap" \notin faults => \A i \in 2..Len(rows) : rows[i].of # rows[i - 1].of

(* Then the table is one chain in the order the configurations were seen:  *)
(* the parent is the previous row and the latest row the newest            *)
(* observation (snapshots.go:156-161).                                     *)
OneChain ==
    "overlap" \notin faults =>
        \A i \in 1..Len(rows) :
            /\ rows[i].parent = i - 1
            /\ i > 1 => rows[i - 1].seen < rows[i].seen

(* What "Refresh now" answers is a configuration the device had since the  *)
(* capture: the row that cycle inserted, or the existing equal one         *)
(* (api/snapshots.go:76-78), if nothing fails and nothing overlaps.        *)
AnswerIsCurrent ==
    faults = {} =>
        \A h \in Handlers : pc[h] = "done" /\ answer[h] # 0 =>
            \E k \in cfg[h].seen..Len(history) : history[k] = rows[answer[h]].of

(* The inductive invariant: a capture about to insert has seen a latest    *)
(* row that differs from what it retrieved (snapshots.go:138-161).         *)
AboutToInsert ==
    \A c \in Capturers : pc[c] = "insert" =>
        /\ latest[c] \in 0..Len(rows)
        /\ latest[c] # 0 => rows[latest[c]].of # cfg[c].of
IInv == TypeOK /\ AboutToInsert /\ ParentDiffers

(***************************************************************************)
(* Captures in turn keep one chain: each row and each retrieved            *)
(* configuration is one the device had, at most one capture is between its *)
(* retrieve and its insert, and nothing was inserted behind its back       *)
(* (snapshots.go:98-176).                                                  *)
(***************************************************************************)
Observed ==
    LET IsSeen(o) == o.seen \in 1..Len(history) /\ history[o.seen] = o.of IN
    /\ \A i \in 1..Len(rows) : IsSeen(rows[i])
    /\ \A c \in Capturers : IsSeen(cfg[c])

Busy(c) == pc[c] \in {"lookup", "insert"}
InTurn ==
    "overlap" \notin faults =>
        /\ \A c, d \in Capturers : Busy(c) /\ Busy(d) => c = d
        /\ \A c \in Capturers :
              /\ pc[c] = "insert" => latest[c] = Len(rows)
              /\ Busy(c) => \A i \in 1..Len(rows) : rows[i].seen <= cfg[c].seen

(* When nothing fails, a handler that answers has its own configuration in *)
(* the latest row.                                                         *)
AnswersOwn ==
    faults = {} =>
        /\ \A c, d \in Capturers : ~Resting(c) /\ ~Resting(d) => c = d
        /\ \A h \in Handlers :
              /\ pc[h] = "answer" => rows # << >> /\ rows[Len(rows)].of = cfg[h].of
              /\ pc[h] = "done" /\ answer[h] # 0 =>
                    answer[h] \in 1..Len(rows) /\ rows[answer[h]].of = cfg[h].of

ChainInv == IInv /\ Observed /\ InTurn /\ AnswersOwn /\ NoDuplicateInARow /\ OneChain

=============================================================================
