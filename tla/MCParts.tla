------------------------------ MODULE MCParts ------------------------------
(***************************************************************************)
(* Five parts that share nothing, checked side by side: a behaviour is one *)
(* of one of them, the others stay as they are at first.                   *)
(***************************************************************************)
EXTENDS Integers, FiniteSets

CONSTANTS None,
          Key, Value, First, MaxClicks,             \* SnmpConfig
          Input, Blank, MaxTurns,                        \* LateAnswers
          Given, Typed, MaxEdits,                        \* RowEditors
          Peer, Loads, MaxSteps,                         \* OverviewNumbers
          Iface, Ifbs, Policy, Request, MaxRequests      \* IfbPool

ASSUME PartsAssumption ==
  /\ First \in Value
  /\ Blank \notin Input /\ None \notin Input \cup Value \cup Policy
  /\ Given \cup Typed \subseteq Nat /\ Loads \subseteq Nat
  /\ {MaxClicks, MaxTurns, MaxEdits, MaxSteps, Ifbs, MaxRequests}
       \subseteq Nat
  /\ IsFiniteSet(Peer) /\ IsFiniteSet(Given)
  /\ Iface \cap (1..Ifbs) = {} /\ None \notin 1..Ifbs

\* A user, and the trap targets of both versions at one address.
UserAndTraps == {[section |-> s, name |-> "n"] : s \in {"user", "trap v2c", "trap v3"}}

VARIABLES
  part,
  server, production, wrapped, cache, fetching, modal, writes, clicks, raced,
  panel, input, timer, flights, shown, error, loading, asked, turns, patient, quiet,
  editor, rows, seen, draft, typed, edits,
  peers, up, adminDown, metrics, peersSeen, upSeen, steps,
  policies, legs, trial, wraps, handled, request, misled

snmpVars == <<server, production, wrapped, cache, fetching, modal, writes, clicks, raced>>
lateVars == <<panel, input, timer, flights, shown, error, loading, asked, turns,
              patient, quiet>>
editorVars == <<editor, rows, seen, draft, typed, edits>>
numberVars == <<peers, up, adminDown, metrics, peersSeen, upSeen, steps>>
ifbVars == <<policies, legs, trial, wraps, handled, request, misled>>

Snmp    == INSTANCE SnmpConfig
Late    == INSTANCE LateAnswers
Editors == INSTANCE RowEditors
Numbers == INSTANCE OverviewNumbers
Ifbpool == INSTANCE IfbPool WITH Nothing <- None

PartsInit ==
  /\ part \in {"snmp", "late", "editors", "numbers", "ifb"}
  /\ Snmp!Init /\ (part = "snmp" \/ (server = Snmp!Empty /\ ~production /\ ~wrapped))
  /\ Late!Init /\ (part = "late" \/ panel = "search")
  /\ Editors!Init /\ (part = "editors" \/ (editor = "rule" /\ rows = {}))
  /\ Numbers!Init
  /\ part = "numbers" \/ (peers = [p \in Peer |-> "absent"] /\ adminDown = 0)
  /\ Ifbpool!Init /\ (part = "ifb" \/ (policies = {} /\ ~wraps))

OnSnmp ==
  /\ part = "snmp" /\ Snmp!Next
  /\ UNCHANGED <<part, lateVars, editorVars, numberVars, ifbVars>>
OnLate ==
  /\ part = "late" /\ Late!Next
  /\ UNCHANGED <<part, snmpVars, editorVars, numberVars, ifbVars>>
OnEditors ==
  /\ part = "editors" /\ Editors!Next
  /\ UNCHANGED <<part, snmpVars, lateVars, numberVars, ifbVars>>
OnNumbers ==
  /\ part = "numbers" /\ Numbers!Next
  /\ UNCHANGED <<part, snmpVars, lateVars, editorVars, ifbVars>>
OnIfb ==
  /\ part = "ifb" /\ Ifbpool!Next
  /\ UNCHANGED <<part, snmpVars, lateVars, editorVars, numberVars>>

PartsNext == OnSnmp \/ OnLate \/ OnEditors \/ OnNumbers \/ OnIfb
partsVars == <<part, snmpVars, lateVars, editorVars, numberVars, ifbVars>>

PartsSpec == PartsInit /\ [][PartsNext]_partsVars

-----------------------------------------------------------------------------
(***************************************************************************)
(* Saving the whole SNMP configuration comes to changing the one item      *)
(* (SNMP.tsx, PUT of the whole subtree): a refinement of ItemStore.        *)
(***************************************************************************)
WritesOneItem == Snmp!WritesOneItem

(***************************************************************************)
(* A search, a difference, a preview, a simulation shows the result of     *)
(* what it was asked last (GlobalSearch, LiveConfigTab, Audit.tsx).        *)
(***************************************************************************)
PanelIsTrue == Late!PanelIsTrue

(***************************************************************************)
(* No save of a row costs another row, and no row changes its number       *)
(* unasked (RuleSetEditor, NAT, QoS, Audit.tsx, TunnelListEditor).         *)
(***************************************************************************)
RowsAreKept == Editors!RowsAreKept

(***************************************************************************)
(* The health label of the overview agrees with the numbers beside it      *)
(* (Overview.tsx, computeHealthScore).                                     *)
(***************************************************************************)
NumbersAreRight == Numbers!NumbersAreRight

(***************************************************************************)
(* No IFB serves two interfaces, and a change about one interface, put on  *)
(* trial or taken back, leaves the others alone, until a request is misled *)
(* by what it has read (qos_snmp.go).                                      *)
(***************************************************************************)
OneInterfacePerIfb == Ifbpool!OneInterfacePerIfb
OthersUntouched == Ifbpool!OthersUntouched
=============================================================================
