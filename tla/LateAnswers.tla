---------------------------- MODULE LateAnswers ----------------------------
(***************************************************************************)
(* The parts of the console that ask the server on their own, outside the  *)
(* query cache: a request belongs to an input (a search text, two picked   *)
(* snapshots, a packet, a rule-set), the input may change while it is on   *)
(* its way, and answers may come in any order.                             *)
(***************************************************************************)
EXTENDS Naturals

(***************************************************************************)
(* A panel: what starts a request (the input's change, or a button);       *)
(* whether a request waits until the last one is over; whether it waits    *)
(* for the user to stop typing; whether starting one takes the old result  *)
(* away; whether answers to an earlier input are dropped; what no input    *)
(* does ("clears" the result, "hides" it, is "never"); what a failure      *)
(* leaves ("error": a message, "empty": an empty result, "old": no sign).  *)
(***************************************************************************)
Panel(starts, waits, debounced, takesAway, drops, blank, failure) ==
  [starts |-> starts, waits |-> waits, debounced |-> debounced,
   takesAway |-> takesAway, drops |-> drops, blank |-> blank, failure |-> failure]

GlobalSearch  == Panel("change", FALSE, TRUE,  FALSE, FALSE, "clears", "old")
DiffView      == Panel("change", FALSE, FALSE, FALSE, FALSE, "hides",  "error")
CliView       == Panel("change", FALSE, FALSE, FALSE, TRUE,  "never",  "error")
ImportPreview == Panel("change", FALSE, FALSE, TRUE,  FALSE, "clears", "error")
Simulation    == Panel("button", TRUE,  FALSE, TRUE,  FALSE, "never",  "error")
Findings      == Panel("change", FALSE, FALSE, FALSE, FALSE, "never",  "empty")

PanelTable ==
  [search |-> GlobalSearch, diff |-> DiffView, cli |-> CliView,
   preview |-> ImportPreview, simulation |-> Simulation, findings |-> Findings]

CONSTANTS Input,    \* the inputs
          Blank,    \* no input: an empty search, no rule-set, fewer than two picks
          None,     \* no result
          MaxTurns  \* bound: changes of the input and presses of the button

VARIABLES
  panel,   \* which panel this is
  input,   \* what is typed, picked or chosen now
  timer,   \* the debounce timer runs
  flights, \* the requests on their way
  shown,   \* the input the result on the screen is of, or None
  error,   \* a message instead of the result
  loading, \* the spinner
  asked,   \* the last request
  turns,   \* turns of the user
  patient, \* the user always waited for the answer
  quiet    \* a failure left the old result without a sign

vars == <<panel, input, timer, flights, shown, error, loading, asked, turns,
          patient, quiet>>

P == PanelTable[panel]

Init ==
  /\ panel \in DOMAIN PanelTable
  /\ input = Blank /\ timer = FALSE /\ flights = {}
  /\ shown = None /\ error = FALSE /\ loading = FALSE
  /\ asked = [nr |-> 0, of |-> None] /\ turns = 0 /\ patient = TRUE /\ quiet = FALSE

Turn == turns < MaxTurns /\ turns' = turns + 1

(* Mutant: an effect that is cleaned up leaves the request before alone.   *)
AskBeside(i) ==
  /\ asked' = [nr |-> asked.nr + 1, of |-> i]
  /\ flights' = flights \cup {asked'}
  /\ shown' = IF P.takesAway THEN None ELSE shown
  /\ loading' = TRUE /\ error' = FALSE

\* The request is sent; an effect that is cleaned up forgets the one before.
Ask(i) ==
  /\ asked' = [nr |-> asked.nr + 1, of |-> i]
  /\ flights' = (IF P.drops THEN {} ELSE flights) \cup {asked'}
  /\ shown' = IF P.takesAway THEN None ELSE shown
  /\ loading' = TRUE /\ error' = FALSE

\* The change of the input alone.
Wait == UNCHANGED <<asked, flights, shown, error>>

(***************************************************************************)
(* The input changes.  Typing restarts the timer of a search; an empty     *)
(* search takes the hits and the spinner away, a preview without a choice  *)
(* goes away, and the difference is not shown without two picks.           *)
(***************************************************************************)
ChangeBlank ==
  /\ P.blank # "never" /\ timer' = FALSE
  /\ shown' = IF P.blank = "clears" THEN None ELSE shown
  /\ loading' = (loading /\ ~P.debounced)
  /\ UNCHANGED <<asked, flights, error>>

ChangeInput(i) ==
  \/ P.starts = "button" /\ Wait /\ UNCHANGED <<timer, loading>>
  \/ P.starts = "change" /\ P.debounced /\ Wait /\ timer' = TRUE /\ loading' = TRUE
  \/ P.starts = "change" /\ ~P.debounced /\ Ask(i) /\ UNCHANGED timer

Change(i) ==
  /\ i # input /\ Turn
  /\ input' = i
  /\ patient' = (patient /\ flights = {})
  /\ IF i = Blank THEN ChangeBlank ELSE ChangeInput(i)
  /\ UNCHANGED <<panel, quiet>>

\* 200 ms without a keystroke.
Fire ==
  /\ timer /\ timer' = FALSE
  /\ Ask(input)
  /\ UNCHANGED <<panel, input, turns, patient, quiet>>

Press ==
  /\ P.starts = "button" /\ Turn
  /\ P.waits => ~loading
  /\ Ask(input)
  /\ UNCHANGED <<panel, input, timer, patient, quiet>>

Answer(f) ==
  /\ flights' = flights \ {f}
  /\ shown' = f.of /\ loading' = FALSE
  /\ quiet' = FALSE
  /\ UNCHANGED <<panel, input, timer, error, asked, turns, patient>>

Fail(f) ==
  /\ flights' = flights \ {f}
  /\ loading' = FALSE
  /\ error' = (P.failure = "error")
  /\ shown' = IF P.failure = "empty" THEN None ELSE shown
  /\ quiet' = (P.failure = "old")
  /\ UNCHANGED <<panel, input, timer, asked, turns, patient>>

Next ==
  \/ \E i \in Input \cup {Blank} : Change(i)
  \/ Fire \/ Press
  \/ \E f \in flights : Answer(f) \/ Fail(f)

Spec == Init /\ [][Next]_vars

-----------------------------------------------------------------------------
Idle == flights = {} /\ ~timer

\* The panels that need no patience: one drops what is late, one has one at a time.
Careful == panel \in {"cli", "simulation"}

(***************************************************************************)
(* When nothing is on its way, a result on the screen is that of the last  *)
(* request, and no spinner turns for ever: for the panels that take care,  *)
(* and for the others as long as the user waits for every answer and no    *)
(* failure goes without a sign.                                            *)
(***************************************************************************)
PanelIsTrue ==
  /\ (Idle /\ input # Blank /\ (patient \/ Careful) /\ ~quiet /\ ~error)
       => shown \in {None, asked.of}
  /\ (patient \/ Careful) => loading = (flights # {} \/ timer)
  /\ loading => ~Idle

(***************************************************************************)
(* Why (inductive): only the last request can be on its way, a search has  *)
(* none while its timer runs, and the spinner says which.                  *)
(***************************************************************************)
IInv ==
  /\ panel \in DOMAIN PanelTable /\ {timer, loading} \subseteq BOOLEAN
  /\ timer => panel = "search" /\ (patient => flights = {})
  /\ loading => ~Idle
  /\ patient \/ Careful =>
       /\ flights \subseteq {asked}
       /\ loading <=> ~Idle
       /\ flights = {} /\ ~quiet /\ ~error => shown \in {None, asked.of}
=============================================================================
