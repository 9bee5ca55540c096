----------------------------- MODULE RowEditors -----------------------------
(***************************************************************************)
(* The numbered lists the console edits: the rules of a rule-set and the   *)
(* NAT translations, row by row on the device, and the rules of a          *)
(* template, the classes and matchers of a traffic policy, the proposals   *)
(* of a VPN profile and the tunnels of a peer, in a draft that is saved as *)
(* a whole.  What is at stake is the number a new row gets; where in the   *)
(* list a row stands is left out, no step depends on it.                   *)
(***************************************************************************)
EXTENDS Integers, FiniteSets

(***************************************************************************)
(* next: how a new row is numbered ("last": one step after the greatest,   *)
(* "gap": the first multiple of the step that is free, of as many as are   *)
(* needed where the code ends at 65535, "count": one more than there are   *)
(* rows).  keeps: the rows that must remain.  typed: where the user may    *)
(* type a number.  by: whether a row is edited in a "dialog" of its own.   *)
(* remote: whether the rows are the device's.                              *)
(***************************************************************************)
Editor(next, step, keeps, typed, by, remote) ==
  [next |-> next, step |-> step, keeps |-> keeps, typed |-> typed, by |-> by,
   remote |-> remote]

RuleEditor        == Editor("last",  10, 0, TRUE,  "dialog", TRUE)
TranslationEditor == Editor("last",  10, 0, TRUE,  "dialog", TRUE)
TemplateRules     == Editor("gap",   10, 0, TRUE,  "dialog", FALSE)
PolicyClasses     == Editor("last",  10, 0, TRUE,  "row",    FALSE)
ClassMatchers     == Editor("count", 1,  0, TRUE,  "row",    FALSE)
ProfileProposals  == Editor("last",  10, 1, TRUE,  "row",    FALSE)
TunnelList        == Editor("last",  1,  1, FALSE, "row",    FALSE)

EditorTable ==
  [rule |-> RuleEditor, translation |-> TranslationEditor, template |-> TemplateRules,
   class |-> PolicyClasses, matcher |-> ClassMatchers, proposal |-> ProfileProposals,
   tunnel |-> TunnelList]

CONSTANTS Given,    \* the numbers there may be at first
          Typed,    \* bound: the numbers a user types
          None,
          MaxEdits  \* bound: steps of the user and of others

VARIABLES
  editor, \* which list this is
  rows,   \* the rows as they are: [nr, body]; a body is named by the edit that made it
  seen,   \* the rows as the page shows them
  draft,  \* the row in the dialog, or None
  typed,  \* a number was typed
  edits   \* edits so far

vars == <<editor, rows, seen, draft, typed, edits>>

E == EditorTable[editor]
Numbers(s) == {r.nr : r \in s}
Bodies(s) == {r.body : r \in s}

(* Mutant: every list is numbered by the count of its rows.                *)
NextByCount(s) == E.step * (Cardinality(s) + 1)

Greatest(s) == CHOOSE n \in Numbers(s) : \A m \in Numbers(s) : m <= n
Gap(s) == CHOOSE k \in 1..Cardinality(s) + 1 :
            E.step * k \notin Numbers(s) /\ \A j \in 1..k - 1 : E.step * j \in Numbers(s)
NextNumber(s) ==
  CASE E.next = "last"  -> IF s = {} THEN E.step ELSE Greatest(s) + E.step
    [] E.next = "gap"   -> E.step * Gap(s)
    [] E.next = "count" -> Cardinality(s) + 1

Init ==
  /\ editor \in DOMAIN EditorTable
  /\ rows \in {{[nr |-> n, body |-> -n] : n \in N} : N \in SUBSET Given}
  /\ Cardinality(rows) >= E.keeps
  /\ seen = IF E.remote THEN {} ELSE rows      \* a list not read yet is empty
  /\ draft = None /\ typed = FALSE /\ edits = 0

Edit == edits < MaxEdits /\ edits' = edits + 1

\* A list in a draft is what the page shows; the device's is read again later.
Show == seen' = IF E.remote THEN seen ELSE rows'

AddRow ==
  /\ E.by = "row" /\ Edit
  /\ rows' = rows \cup {[nr |-> NextNumber(rows), body |-> edits']}
  /\ Show /\ UNCHANGED <<editor, draft, typed>>

\* The cross of a row; on the device the row of that number goes.
RemoveRow(r) ==
  /\ Cardinality(seen) > E.keeps /\ draft = None /\ Edit
  /\ rows' = IF E.by = "row" THEN rows \ {r} ELSE {q \in rows : q.nr # r.nr}
  /\ Show /\ UNCHANGED <<editor, draft, typed>>

RetypeRow(r, n) ==
  /\ E.by = "row" /\ E.typed /\ Edit
  /\ rows' = (rows \ {r}) \cup {[r EXCEPT !.nr = n]} /\ typed' = TRUE
  /\ Show /\ UNCHANGED <<editor, draft>>

\* base: the rows there were when the dialog opened; of: the row it edits.
Draft(nr, of) ==
  [nr |-> nr, of |-> of, base |-> rows, blind |-> seen # rows, typed |-> FALSE]

OpenNew ==
  /\ E.by = "dialog" /\ draft = None
  /\ draft' = Draft(NextNumber(seen), None)
  /\ UNCHANGED <<editor, rows, seen, typed, edits>>

OpenRow(r) ==
  /\ E.by = "dialog" /\ draft = None
  /\ draft' = Draft(r.nr, r.nr)
  /\ UNCHANGED <<editor, rows, seen, typed, edits>>

RetypeDraft(n) ==
  /\ draft # None /\ E.typed /\ Edit
  /\ draft' = [draft EXCEPT !.nr = n, !.typed = TRUE] /\ typed' = TRUE
  /\ UNCHANGED <<editor, rows, seen>>

Close ==
  /\ draft # None /\ draft' = None
  /\ UNCHANGED <<editor, rows, seen, typed, edits>>

\* The row of that number is replaced; if there is none, a row is added.
Put(s, r) == {q \in s : q.nr # r.nr} \cup {r}

Save ==
  /\ draft # None /\ Edit
  /\ rows' = Put(rows, [nr |-> draft.nr, body |-> edits'])
  /\ draft' = None
  /\ Show /\ UNCHANGED <<editor, typed>>

\* Another administrator puts a row.
Outside(n) ==
  /\ E.remote /\ Edit
  /\ rows' = Put(rows, [nr |-> n, body |-> edits'])
  /\ UNCHANGED <<editor, seen, draft, typed>>

Reload ==
  /\ E.remote /\ seen # rows /\ seen' = rows
  /\ UNCHANGED <<editor, rows, draft, typed, edits>>

Next ==
  \/ AddRow \/ OpenNew \/ Close \/ Save \/ Reload
  \/ \E r \in seen : RemoveRow(r) \/ OpenRow(r)
  \/ \E r \in seen, n \in Typed : RetypeRow(r, n)
  \/ \E n \in Typed : RetypeDraft(n) \/ Outside(n)

Spec == Init /\ [][Next]_vars

-----------------------------------------------------------------------------
(***************************************************************************)
(* Two rows never share a number: not at all where a row is put by its     *)
(* number, and where numbers are typed in place as long as nobody did.     *)
(* Matchers are the exception: they are counted (see the README).          *)
(***************************************************************************)
Distinct(s) == \A r, q \in s : r.nr = q.nr => r = q
NumbersDistinct == (editor # "matcher" /\ (E.by = "row" => ~typed)) => Distinct(rows)

(***************************************************************************)
(* A row goes by its own cross or by its own dialog.  Saving another one   *)
(* costs a row only if its number was typed, or if the list had changed    *)
(* or was not the device's when the dialog opened.                         *)
(***************************************************************************)
Lost == {r \in rows : r.body \notin Bodies(rows')}
Spared(r) ==
  \/ Lost = {r} /\ Cardinality(rows') = Cardinality(rows) - 1
  \/ draft # None /\ (draft.of = r.nr \/ draft.typed \/ draft.blind \/ draft.base # rows)
  \/ E.remote /\ UNCHANGED <<draft, seen>>                 \* another administrator
       /\ Lost = {r} /\ Cardinality(rows') = Cardinality(rows)
NoRowIsLost == [][\A r \in Lost : Spared(r)]_vars

(***************************************************************************)
(* What is there keeps its number, unless a number is typed into it.       *)
(***************************************************************************)
NumbersStay ==
  [][\A r \in rows, q \in rows' : (r.body = q.body /\ ~typed') => r.nr = q.nr]_vars

RowsAreKept == [][NumbersDistinct']_vars /\ NoRowIsLost /\ NumbersStay

(***************************************************************************)
(* Why (inductive): no two rows share the edit that made them, and the     *)
(* number of a dialog nobody typed into is free, or its own row's, as long *)
(* as the list is the one it was opened over.                              *)
(***************************************************************************)
Row == [nr : Nat, body : Int]
Drafted ==
  /\ E.by = "dialog"
  /\ draft \in [nr : Nat, of : Nat \cup {None}, base : SUBSET Row, blind : BOOLEAN,
                typed : BOOLEAN]
  /\ \A r \in draft.base : r.body <= edits
  /\ ~draft.typed /\ ~draft.blind /\ draft.base = rows
       => draft.nr = draft.of \/ draft.nr \notin Numbers(rows)
IInv ==
  /\ editor \in DOMAIN EditorTable /\ edits \in Nat
  /\ rows \in SUBSET Row /\ IsFiniteSet(rows) /\ \A r \in rows : r.body <= edits
  /\ \A r, q \in rows : r.body = q.body => r = q
  /\ seen \in SUBSET Row /\ IsFiniteSet(seen) /\ (E.remote \/ seen = rows)
  /\ NumbersDistinct
  /\ draft = None \/ Drafted
=============================================================================
