-------------------------- MODULE OverviewNumbers --------------------------
(***************************************************************************)
(* The health numbers of a device's overview page.  They are computed from *)
(* two queries of different age: the IPsec configuration (read once a      *)
(* minute at most) and the tunnels' state (polled).                        *)
(***************************************************************************)
EXTENDS Integers, FiniteSets

CONSTANTS Peer,    \* the names of IPsec peers
          Loads,   \* bound: the loads, in percent, the page may read
          MaxSteps \* bound: changes on the device

Unknown == -1      \* a metric the page has not

VARIABLES
  peers,     \* [Peer -> "absent", "enabled" or "disabled"]: the configuration
  up,        \* the peers with a tunnel that is up
  adminDown, \* how many configured interfaces are switched off
  metrics,   \* [cpu, mem]: in percent, or Unknown
  peersSeen, \* the peers the page has read
  upSeen,    \* the tunnels' state the page has read
  steps

vars == <<peers, up, adminDown, metrics, peersSeen, upSeen, steps>>

Configured(p) == {n \in Peer : p[n] # "absent"}

Init ==
  /\ peers \in [Peer -> {"absent", "enabled", "disabled"}]
  /\ up = {} /\ adminDown \in 0..3
  /\ metrics = [cpu |-> Unknown, mem |-> Unknown]
  /\ peersSeen = [n \in Peer |-> "absent"] /\ upSeen = {} /\ steps = 0

Step == steps < MaxSteps /\ steps' = steps + 1

Configure(n, s) ==
  /\ Step /\ peers[n] # s /\ peers' = [peers EXCEPT ![n] = s]
  /\ UNCHANGED <<up, adminDown, metrics, peersSeen, upSeen>>

\* A tunnel outlives its peer's configuration for a while.
TunnelUp(n) ==
  /\ Step /\ peers[n] = "enabled" /\ n \notin up /\ up' = up \cup {n}
  /\ UNCHANGED <<peers, adminDown, metrics, peersSeen, upSeen>>
TunnelDown(n) ==
  /\ Step /\ n \in up /\ up' = up \ {n}
  /\ UNCHANGED <<peers, adminDown, metrics, peersSeen, upSeen>>

ReadConfig ==
  /\ peersSeen' = peers
  /\ UNCHANGED <<peers, up, adminDown, metrics, upSeen, steps>>
PollStatus ==
  /\ upSeen' = up
  /\ UNCHANGED <<peers, up, adminDown, metrics, peersSeen, steps>>
PollOverview ==
  /\ \E cpu, mem \in Loads \cup {Unknown} : metrics' = [cpu |-> cpu, mem |-> mem]
  /\ UNCHANGED <<peers, up, adminDown, peersSeen, upSeen, steps>>

Next ==
  \/ \E n \in Peer : TunnelUp(n) \/ TunnelDown(n)
  \/ \E n \in Peer, s \in {"absent", "enabled", "disabled"} : Configure(n, s)
  \/ ReadConfig \/ PollStatus \/ PollOverview

Spec == Init /\ [][Next]_vars

-----------------------------------------------------------------------------
Least(a, b) == IF a <= b THEN a ELSE b
Most(a, b) == IF a >= b THEN a ELSE b

(***************************************************************************)
(* The summary counts: the peers less the names with a tunnel up, whether  *)
(* or not such a name is a peer, and whether or not a peer is disabled.    *)
(***************************************************************************)
PeerCount == Cardinality(Configured(peersSeen))
UpCount == Cardinality(upSeen)
DownCount == Most(0, PeerCount - UpCount)

\* What a load above one of two limits costs.
Toll(load, high, critical) == IF load > critical THEN 25 ELSE IF load > high THEN 15 ELSE 0

Breakdown(m, down, off) ==
  [cpu |-> Toll(m.cpu, 80, 90), mem |-> Toll(m.mem, 85, 95),
   peers |-> Least(40, down * 20), interfaces |-> Least(20, off * 10)]

NoMetrics(m) == m.cpu = Unknown /\ m.mem = Unknown

Score(m, down, off) ==
  LET b == Breakdown(m, down, off) IN
  IF NoMetrics(m) THEN 0
  ELSE Most(0, Least(100, 100 - b.cpu - b.mem - b.peers - b.interfaces))

(* Mutant: the limit of a healthy score is too low by one sign.            *)
LooseLabel(m, down, off) ==
  CASE NoMetrics(m)               -> "Unknown"
    [] Score(m, down, off) >= 80  -> "Healthy"
    [] Score(m, down, off) >= 60  -> "Degraded"
    [] OTHER                      -> "Critical"

Label(m, down, off) ==
  CASE NoMetrics(m)               -> "Unknown"
    [] Score(m, down, off) >= 85  -> "Healthy"
    [] Score(m, down, off) >= 60  -> "Degraded"
    [] OTHER                      -> "Critical"

-----------------------------------------------------------------------------
Shown == Label(metrics, DownCount, adminDown)
NotUp == Configured(peersSeen) \ upSeen

(***************************************************************************)
(* The count of peers down is right when every tunnel belongs to a peer    *)
(* the page has read, and never more than the peers without a tunnel.      *)
(***************************************************************************)
DownIsCounted ==
  /\ DownCount <= Cardinality(NotUp)
  /\ upSeen \subseteq Configured(peersSeen) => DownCount = Cardinality(NotUp)

(***************************************************************************)
(* No page says Healthy over a peer it counts as down, over a critical     *)
(* load or over two signs of trouble; none says Critical for one sign of   *)
(* trouble alone; and things that get worse never raise the score.         *)
(***************************************************************************)
LabelIsFair ==
  LET b == Breakdown(metrics, DownCount, adminDown)
      Signs == {s \in DOMAIN b : b[s] > 0}
  IN /\ Shown = "Healthy" => /\ DownCount = 0 /\ Cardinality(Signs) <= 1
                             /\ metrics.cpu <= 90 /\ metrics.mem <= 95
     /\ Shown = "Critical" => Cardinality(Signs) >= 2
     /\ Score(metrics, DownCount + 1, adminDown) <= Score(metrics, DownCount, adminDown)
     /\ Score(metrics, DownCount, adminDown + 1) <= Score(metrics, DownCount, adminDown)

NumbersAreRight == DownIsCounted /\ LabelIsFair

\* All they rest on (inductive).
IInv ==
  /\ peers \in [Peer -> {"absent", "enabled", "disabled"}] /\ up \subseteq Peer
  /\ peersSeen \in [Peer -> {"absent", "enabled", "disabled"}] /\ upSeen \subseteq Peer
  /\ adminDown \in Nat
  /\ metrics \in [cpu : Loads \cup {Unknown}, mem : Loads \cup {Unknown}]
=============================================================================
