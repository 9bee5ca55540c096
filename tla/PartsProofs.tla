---------------------------- MODULE PartsProofs ----------------------------
(***************************************************************************)
(* What is proved of the rule simulation, of the parts that MCParts checks *)
(* side by side and of the usage accounting, for every value of their      *)
(* constants.                                                              *)
(***************************************************************************)
EXTENDS RuleSimulation, MCParts, MCUsage, FiniteSetsExt, FiniteSetTheorems, TLAPS

(* A rule that shadows another one matches whatever that one matches, in   *)
(* the simulation (engine.go:227-283).                                     *)
LEMMA ShadowMatches ==
    ASSUME NEW a \in Rule, NEW b \in Rule, NEW p \in Packet,
           shadows(a, b), matchRule(b, p)
    PROVE  matchRule(a, p)
<1>1. a.proto \in {AnyProto, p.proto}
  BY DEF shadows, matchRule
<1>2. Within(a.dport, p.dport) /\ Within(a.src, p.src) /\ Within(a.dst, p.dst)
  BY DEF shadows, Within
<1>3. \A geo \in {a.srcGeo, a.dstGeo} : geo = {}
  BY DEF shadows
<1>4. a.states # {} /\ p.state # NoState => p.state \in a.states
  BY DEF shadows, stateCovers, matchRule
<1> QED
  BY <1>1, <1>2, <1>3, <1>4 DEF matchRule

(* The same on the device, if the first rule does not jump and names no    *)
(* source port.                                                            *)
LEMMA ShadowEnds ==
    ASSUME NEW a \in Rule, NEW b \in Rule, NEW p \in Packet, ~a.disable,
           shadows(a, b), Applies(b, p), a.action # "jump", a.sport.any
    PROVE  Ends(a, p)
<1>1. a.proto \in {AnyProto, p.proto}
  BY DEF shadows, Applies
<1>2. /\ Within(a.dport, p.dport) /\ Within(a.src, p.src)
      /\ Within(a.dst, p.dst) /\ Within(a.sport, p.sport)
  BY DEF shadows, Within
<1>3. ~a.srcScoped /\ ~a.dstScoped /\ ~a.portGroup
  BY DEF shadows
<1>4. \A geo \in {a.srcGeo, a.dstGeo} : geo = {}
  BY DEF shadows
<1>5. a.states # {} => p.state \in a.states
  BY DEF shadows, stateCovers, Applies
<1> QED
  BY <1>1, <1>2, <1>3, <1>4, <1>5 DEF Applies, Ends

(* The loop keeps the invariant.                                           *)
LEMMA StepInv == IInv /\ [Next]_vars => IInv'
<1> SUFFICES ASSUME IInv, [Next]_vars PROVE IInv'
  OBVIOUS
<1>1. CASE UNCHANGED vars
  BY <1>1 DEF IInv, vars, Matches
<1>2. CASE RunSimulation
  <2> DEFINE n == Len(trace) + 1
             status == Evaluate(rules[n])
  <2>1. /\ n \in 1..Len(rules)
        /\ trace' = Append(trace, status)
        /\ matched' = IF status = "match" THEN n ELSE matched
        /\ UNCHANGED <<rules, pkt>>
    BY <1>2 DEF RunSimulation, IInv
  <2>2. status \in Status /\ (status = "match" <=> matched = 0 /\ Matches(n))
    BY DEF Evaluate, Status, Matches
  <2> HIDE DEF status
  <2>3. /\ trace' \in Seq(Status) /\ Len(trace') = n
        /\ trace'[n] = status
        /\ \A i \in 1..Len(trace) : trace'[i] = trace[i]
    BY <2>1, <2>2 DEF IInv
  <2>4. \A i \in 1..n : Matches(i)' <=> Matches(i)
    BY <2>1 DEF Matches
  <2>5. matched \in 0..Len(trace) /\ matched' \in 0..n
    BY <2>1, <2>3 DEF IInv
  <2>6. /\ rules' \in Seq(Rule) /\ pkt' \in Packet
        /\ Len(trace') <= Len(rules')
    BY <2>1, <2>3 DEF IInv
  <2>7. ASSUME NEW i \in 1..Len(trace')
        PROVE  /\ trace'[i] = "match" <=> i = matched'
               /\ matched' = 0 \/ i < matched' => ~Matches(i)'
    <3>1. CASE i = n
      BY <3>1, <2>1, <2>2, <2>3, <2>4, <2>5
    <3>2. CASE i # n
      <4>1. i \in 1..Len(trace) /\ i \in 1..n
        BY <3>2, <2>3
      <4>2. trace'[i] = trace[i] /\ (Matches(i)' <=> Matches(i))
        BY <4>1, <2>3, <2>4
      <4>3. /\ trace[i] = "match" <=> i = matched
            /\ matched = 0 \/ i < matched => ~Matches(i)
        BY <4>1 DEF IInv
      <4> QED
        BY <4>1, <4>2, <4>3, <2>1, <2>2, <2>5
    <3> QED
      BY <3>1, <3>2
  <2>8. (matched # 0 => Matches(matched))'
    <3>1. CASE status = "match"
      BY <3>1, <2>1, <2>2, <2>5 DEF Matches
    <3>2. CASE status # "match"
      BY <3>2, <2>1 DEF IInv, Matches
    <3> QED
      BY <3>1, <3>2
  <2> QED
    BY <2>1, <2>3, <2>5, <2>6, <2>7, <2>8 DEF IInv
<1> QED
  BY <1>1, <1>2 DEF Next

(* What has been evaluated so far says which rule matched first.           *)
THEOREM Invariant == Spec => []IInv
<1>1. Init => IInv
  BY KnownRules, KnownPackets DEF Init, IInv, Status
<1> QED
  BY <1>1, StepInv, PTL DEF Spec

(* The rule reported is the first one that matches the packet.             *)
THEOREM ReportsFirstMatch == Spec => []FirstMatch
<1>1. IInv => FirstMatch
  <2> SUFFICES ASSUME IInv, Len(trace) = Len(rules) PROVE FirstMatch
    BY DEF FirstMatch
  <2>1. DOMAIN rules = 1..Len(trace)
    BY DEF IInv
  <2>2. matched = 0 <=> \A i \in DOMAIN rules : ~Matches(i)
    BY <2>1 DEF IInv
  <2>3. ASSUME NEW i \in DOMAIN rules
        PROVE  /\ trace[i] = "match" <=> i = matched
               /\ i = matched <=> Matches(i) /\ \A k \in 1..(i - 1) : ~Matches(k)
    <3>1. trace[i] = "match" <=> i = matched
      BY <2>1 DEF IInv
    <3>2. i = matched => Matches(i) /\ \A k \in 1..(i - 1) : ~Matches(k)
      BY <2>1 DEF IInv
    <3>3. Matches(i) /\ (\A k \in 1..(i - 1) : ~Matches(k)) => i = matched
      BY <2>1 DEF IInv
    <3> QED
      BY <3>1, <3>2, <3>3
  <2> QED
    BY <2>2, <2>3 DEF FirstMatch
<1>2. Spec => []IInv
  BY Invariant
<1> QED
  BY <1>1, <1>2, PTL

(* What the analysis reports is never matched in a simulation.             *)
THEOREM NeverMatches == Spec => []ReportedNeverMatches
<1>1. IInv => ReportedNeverMatches
  <2> SUFFICES ASSUME IInv, NEW f \in detectShadows, matched = f[1] PROVE FALSE
    BY DEF ReportedNeverMatches
  <2>1. /\ f[1] \in DOMAIN rules /\ f[2] \in DOMAIN rules
        /\ Shadowing(f[2], f[1])
    BY DEF detectShadows
  <2>2. DOMAIN rules = 1..Len(rules) /\ rules \in Seq(Rule) /\ pkt \in Packet
    BY DEF IInv
  <2>3. rules[f[1]] \in Rule /\ rules[f[2]] \in Rule
    BY <2>1, <2>2
  <2>4. Matches(f[1])
    BY <2>1, <2>2 DEF IInv
  <2>5. Matches(f[2])
    BY <2>1, <2>2, <2>3, <2>4, ShadowMatches DEF Shadowing, Matches
  <2>6. f[2] \in 1..Len(trace) /\ f[2] < matched
    BY <2>1, <2>2 DEF IInv, Shadowing
  <2> QED
    BY <2>5, <2>6 DEF IInv
<1>2. Spec => []IInv
  BY Invariant
<1> QED
  BY <1>1, <1>2, PTL

(* Nor is it reached on the device, with the two exceptions.               *)
THEOREM IsDead == Spec => []ReportedIsDead
<1>1. IInv => ReportedIsDead
  <2> SUFFICES ASSUME IInv, NEW f \in detectShadows,
                      rules[f[2]].action # "jump", rules[f[2]].sport.any,
                      Reached(f[1], pkt)
               PROVE  FALSE
    BY DEF ReportedIsDead
  <2>1. /\ f[1] \in DOMAIN rules /\ f[2] \in DOMAIN rules
        /\ Shadowing(f[2], f[1])
    BY DEF detectShadows
  <2>2. DOMAIN rules = 1..Len(rules) /\ rules \in Seq(Rule) /\ pkt \in Packet
    BY DEF IInv
  <2>3. rules[f[1]] \in Rule /\ rules[f[2]] \in Rule
    BY <2>1, <2>2
  <2>4. Ends(rules[f[2]], pkt)
    BY <2>1, <2>2, <2>3, ShadowEnds DEF Shadowing, Reached
  <2>5. f[2] \in 1..(f[1] - 1)
    BY <2>1, <2>2 DEF Shadowing
  <2> QED
    BY <2>4, <2>5 DEF Reached
<1>2. Spec => []IInv
  BY Invariant
<1> QED
  BY <1>1, <1>2, PTL

(***************************************************************************)
(* A rule that lets every packet of a protocol to a management port is     *)
(* reported, if the addresses it names leave some address out              *)
(* (engine.go:295-322).                                                    *)
(***************************************************************************)
THEOREM ReportsHoles ==
    ASSUME Restricting, Varied, MgmtPorts \subseteq Ports
    PROVE  Spec => []HolesAreReported
<1> DEFINE Known == rules \in RuleSets
<1>1. Init => Known
  BY DEF Init
<1>2. Known /\ [Next]_vars => Known'
  BY DEF Next, RunSimulation, vars
<1>3. Known => HolesAreReported
  <2> SUFFICES ASSUME Known, NEW i \in DOMAIN rules, NEW proto \in Protos, NEW port \in MgmtPorts,
                      LetsAll(rules[i], proto, port)
               PROVE  <<"allow_any", i>> \in detectRiskyRules
                      \/ <<"exposed_mgmt", i>> \in detectRiskyRules
    BY DEF HolesAreReported
  <2> DEFINE r == rules[i]
  <2>1. ASSUME NEW a \in Addrs
        PROVE  /\ \E p \in Packets : p.src = a /\ p.dport = port /\ ~p.member /\ ~p.portMember
                                       /\ Applies(r, p)
               /\ \E p \in Packets : p.dst = a /\ Applies(r, p)
    BY DEF LetsAll, Varied
  <2>2. ~r.disable /\ ~r.srcScoped /\ ~r.dstScoped /\ ~r.portGroup /\ Within(r.dport, port)
    BY <2>1 DEF Applies, Varied
  <2>3. \A a \in Addrs : Within(r.src, a) /\ Within(r.dst, a)
    BY <2>1 DEF Applies
  <2>4. r.src.any /\ r.dst.any
    BY <2>3 DEF Restricting
  <2>5. r.action = "accept"
    BY DEF LetsAll
  <2>6. CASE r.dport.any
    <3>1. AllowAny(r)
      BY <2>2, <2>4, <2>5, <2>6 DEF AllowAny
    <3> QED
      BY <2>2, <3>1 DEF detectRiskyRules
  <2>7. CASE ~r.dport.any
    <3>1. ExposedMgmt(r, port)
      BY <2>2, <2>4, <2>5, <2>7 DEF ExposedMgmt
    <3> QED
      BY <2>2, <3>1 DEF detectRiskyRules
  <2> QED
    BY <2>6, <2>7
<1> QED
  BY <1>1, <1>2, <1>3, PTL DEF Spec

-----------------------------------------------------------------------------
(* A step of the behaviour is a step of the part it is of, or none of any. *)
LEMMA PartsStep ==
    ASSUME [PartsNext]_partsVars
    PROVE  /\ [Snmp!Next]_snmpVars /\ [Late!Next]_lateVars /\ [Editors!Next]_editorVars
           /\ [Numbers!Next]_numberVars /\ [Ifbpool!Next]_ifbVars
BY DEF PartsNext, partsVars, OnSnmp, OnLate, OnEditors, OnNumbers, OnIfb

-----------------------------------------------------------------------------
(* A panel (LateAnswers): which of the kinds of panels starts when.        *)
LEMMA PanelKinds ==
    ASSUME panel \in DOMAIN Late!PanelTable
    PROVE  /\ Late!P.debounced <=> panel = "search"
           /\ Late!P.starts = "button" <=> panel = "simulation"
           /\ Late!P.starts \in {"change", "button"}
           /\ panel = "simulation" => Late!P.waits /\ Late!P.blank = "never"
           /\ panel = "cli" => Late!P.drops /\ Late!P.blank = "never"
           /\ Late!P.failure = "old" => panel = "search"
           /\ Late!P.failure \in {"old", "error", "empty"}
BY DEF Late!P, Late!PanelTable, Late!Panel, Late!GlobalSearch, Late!DiffView, Late!CliView,
       Late!ImportPreview, Late!Simulation, Late!Findings

LEMMA LateStep == Late!IInv /\ [Late!Next]_lateVars => Late!IInv'
<1> SUFFICES ASSUME Late!IInv, [Late!Next]_lateVars PROVE Late!IInv'
  OBVIOUS
<1> USE DEF Late!IInv, Late!Idle, Late!Careful
<1>1. CASE UNCHANGED lateVars
  BY <1>1 DEF lateVars
<1>2. ASSUME NEW i \in Input \cup {Blank}, Late!Change(i) PROVE Late!IInv'
  <2>1. /\ UNCHANGED <<panel, quiet>>
        /\ patient' = (patient /\ flights = {})
    BY <1>2 DEF Late!Change
  <2>2. CASE i = Blank
    <3>1. /\ timer' = FALSE /\ shown' \in {shown, None}
          /\ loading' = (loading /\ ~Late!P.debounced)
          /\ UNCHANGED <<asked, flights, error>>
          /\ Late!P.blank # "never"
      BY <1>2, <2>2 DEF Late!Change, Late!ChangeBlank
    <3>2. loading' \in BOOLEAN /\ (loading' <=> loading /\ panel # "search")
      BY <3>1, PanelKinds
    <3>3. panel \notin {"simulation", "cli"}
      BY <3>1, PanelKinds
    <3> QED
      BY <2>1, <3>1, <3>2, <3>3
  <2>3. CASE i # Blank /\ Late!P.starts = "button"
    BY <1>2, <2>1, <2>3, PanelKinds DEF Late!Change, Late!ChangeInput, Late!Wait
  <2>4. CASE i # Blank /\ Late!P.starts = "change" /\ Late!P.debounced
    <3>1. /\ timer' = TRUE /\ loading' = TRUE
          /\ UNCHANGED <<asked, flights, shown, error>>
      BY <1>2, <2>4 DEF Late!Change, Late!ChangeInput, Late!Wait
    <3> QED
      BY <2>1, <2>4, <3>1, PanelKinds
  <2>5. CASE i # Blank /\ Late!P.starts = "change" /\ ~Late!P.debounced
    BY <1>2, <2>1, <2>5, PanelKinds DEF Late!Change, Late!ChangeInput, Late!Ask
  <2> QED
    BY <2>2, <2>3, <2>4, <2>5, PanelKinds
<1>3. CASE Late!Fire
  BY <1>3, PanelKinds DEF Late!Fire, Late!Ask
<1>4. CASE Late!Press
  BY <1>4, PanelKinds DEF Late!Press, Late!Ask
<1>5. ASSUME NEW f \in flights, Late!Answer(f) PROVE Late!IInv'
  BY <1>5, PanelKinds DEF Late!Answer
<1>6. ASSUME NEW f \in flights, Late!Fail(f) PROVE Late!IInv'
  BY <1>6, PanelKinds DEF Late!Fail
<1> QED
  BY <1>1, <1>2, <1>3, <1>4, <1>5, <1>6 DEF Late!Next

(* A panel shows the answer to its last request, in every order of the     *)
(* answers: always those that drop or wait, the others with patience.      *)
THEOREM ShowsLastAnswer == PartsSpec => []PanelIsTrue
<1>1. PartsInit => Late!IInv
  BY DEF PartsInit, Late!Init, Late!IInv, Late!Idle
<1>2. Late!IInv /\ [PartsNext]_partsVars => Late!IInv'
  BY PartsStep, LateStep
<1>3. Late!IInv => PanelIsTrue
  BY DEF Late!IInv, PanelIsTrue, Late!PanelIsTrue, Late!Idle
<1> QED
  BY <1>1, <1>2, <1>3, PTL DEF PartsSpec

-----------------------------------------------------------------------------
(* The numbers of the overview (OverviewNumbers).                          *)
LEMMA NumbersStep == Numbers!IInv /\ [Numbers!Next]_numberVars => Numbers!IInv'
<1> SUFFICES ASSUME Numbers!IInv, [Numbers!Next]_numberVars PROVE Numbers!IInv'
  OBVIOUS
<1> USE DEF Numbers!IInv
<1>1. CASE UNCHANGED numberVars
  BY <1>1 DEF numberVars
<1>2. ASSUME NEW n \in Peer, Numbers!TunnelUp(n) \/ Numbers!TunnelDown(n)
      PROVE  Numbers!IInv'
  BY <1>2 DEF Numbers!TunnelUp, Numbers!TunnelDown
<1>3. ASSUME NEW n \in Peer, NEW s \in {"absent", "enabled", "disabled"},
             Numbers!Configure(n, s)
      PROVE  Numbers!IInv'
  BY <1>3 DEF Numbers!Configure
<1>4. CASE Numbers!ReadConfig \/ Numbers!PollStatus
  BY <1>4 DEF Numbers!ReadConfig, Numbers!PollStatus
<1>5. CASE Numbers!PollOverview
  BY <1>5 DEF Numbers!PollOverview
<1> QED
  BY <1>1, <1>2, <1>3, <1>4, <1>5 DEF Numbers!Next

(* The counting operator that OverviewNumbers extends is the library's.    *)
LEMMA SameCount == \A S : Numbers!Cardinality(S) = Cardinality(S)
BY DEF Numbers!Cardinality, Cardinality

(* A metric the page has read, or the sign that it has none, is a number.  *)
LEMMA MetricsType ==
    ASSUME Numbers!IInv
    PROVE  metrics.cpu \in Int /\ metrics.mem \in Int
<1>1. Loads \cup {Numbers!Unknown} \subseteq Int
  BY PartsAssumption DEF PartsAssumption, Numbers!Unknown
<1> QED
  BY <1>1 DEF Numbers!IInv

(* How the difference of two counts compares with the count of the         *)
(* difference (Overview.tsx: the peers less the names with a tunnel).      *)
LEMMA CountOfDifference ==
    ASSUME NEW S, NEW T, IsFiniteSet(S), IsFiniteSet(T)
    PROVE  /\ Cardinality(S) \in Nat /\ Cardinality(T) \in Nat
           /\ Cardinality(S) - Cardinality(T) <= Cardinality(S \ T)
           /\ Cardinality(S \ T) \in Nat
           /\ T \subseteq S => Cardinality(S \ T) = Cardinality(S) - Cardinality(T)
<1>1. Cardinality(S) \in Nat /\ Cardinality(T) \in Nat
  BY FS_CardinalityType
<1>2. IsFiniteSet(S \ T) /\ Cardinality(S \ T) = Cardinality(S) - Cardinality(S \cap T)
  BY FS_Difference
<1>3. /\ IsFiniteSet(S \cap T) /\ Cardinality(S \cap T) <= Cardinality(T)
      /\ Cardinality(S \cap T) \in Nat
  BY FS_Intersection, FS_CardinalityType
<1>4. T \subseteq S => S \cap T = T
  OBVIOUS
<1>5. Cardinality(S \ T) \in Nat
  BY <1>2, FS_CardinalityType
<1> QED
  BY <1>1, <1>2, <1>3, <1>4, <1>5

(* A score's four tolls: what each can be, and when it is none.            *)
LEMMA Tolls ==
    ASSUME Numbers!IInv, NEW down \in Nat, NEW off \in Nat,
           NEW b, b = Numbers!Breakdown(metrics, down, off)
    PROVE  /\ DOMAIN b = {"cpu", "mem", "peers", "interfaces"}
           /\ b["cpu"] \in {0, 15, 25} /\ (b["cpu"] <= 15 => metrics.cpu <= 90)
           /\ b["mem"] \in {0, 15, 25} /\ (b["mem"] <= 15 => metrics.mem <= 95)
           /\ b["peers"] = IF down = 0 THEN 0 ELSE IF down = 1 THEN 20 ELSE 40
           /\ b["interfaces"] = IF off = 0 THEN 0 ELSE IF off = 1 THEN 10 ELSE 20
<1>1. metrics.cpu \in Int /\ metrics.mem \in Int
  BY MetricsType
<1>2. /\ DOMAIN b = {"cpu", "mem", "peers", "interfaces"}
      /\ b["cpu"] = Numbers!Toll(metrics.cpu, 80, 90)
      /\ b["mem"] = Numbers!Toll(metrics.mem, 85, 95)
      /\ b["peers"] = Numbers!Least(40, down * 20)
      /\ b["interfaces"] = Numbers!Least(20, off * 10)
  BY DEF Numbers!Breakdown
<1>3. /\ b["cpu"] \in {0, 15, 25} /\ (b["cpu"] <= 15 => metrics.cpu <= 90)
      /\ b["mem"] \in {0, 15, 25} /\ (b["mem"] <= 15 => metrics.mem <= 95)
  BY <1>1, <1>2 DEF Numbers!Toll
<1>4. Numbers!Least(40, down * 20) = IF down = 0 THEN 0 ELSE IF down = 1 THEN 20 ELSE 40
  BY DEF Numbers!Least
<1>5. Numbers!Least(20, off * 10) = IF off = 0 THEN 0 ELSE IF off = 1 THEN 10 ELSE 20
  BY DEF Numbers!Least
<1> QED
  BY <1>2, <1>3, <1>4, <1>5

(* The count of peers down is never more than the peers without a tunnel.  *)
LEMMA DownCounts ==
    ASSUME Numbers!IInv
    PROVE  Numbers!DownCount \in Nat /\ Numbers!DownIsCounted
<1>1. /\ IsFiniteSet(Numbers!Configured(peersSeen)) /\ IsFiniteSet(upSeen)
  <2>1. Numbers!Configured(peersSeen) \in SUBSET Peer /\ upSeen \in SUBSET Peer
    BY DEF Numbers!IInv, Numbers!Configured
  <2> QED
    BY <2>1, PartsAssumption, FS_Subset DEF PartsAssumption
<1> QED
  BY <1>1, CountOfDifference, SameCount DEF Numbers!DownIsCounted, Numbers!DownCount,
       Numbers!PeerCount, Numbers!UpCount, Numbers!NotUp, Numbers!Most

(* The label agrees with the signs of trouble beside it.                   *)
LEMMA FairLabel == ASSUME Numbers!IInv PROVE Numbers!LabelIsFair
<1> DEFINE down == Numbers!DownCount
           b    == Numbers!Breakdown(metrics, down, adminDown)
           Signs == {s \in DOMAIN b : b[s] > 0}
           sum  == b["cpu"] + b["mem"] + b["peers"] + b["interfaces"]
<1>1. down \in Nat /\ adminDown \in Nat
  BY DownCounts DEF Numbers!IInv
<1> HIDE DEF down
<1>2. /\ DOMAIN b = {"cpu", "mem", "peers", "interfaces"}
      /\ b["cpu"] \in {0, 15, 25} /\ (b["cpu"] <= 15 => metrics.cpu <= 90)
      /\ b["mem"] \in {0, 15, 25} /\ (b["mem"] <= 15 => metrics.mem <= 95)
      /\ b["peers"] = IF down = 0 THEN 0 ELSE IF down = 1 THEN 20 ELSE 40
      /\ b["interfaces"] = IF adminDown = 0 THEN 0 ELSE IF adminDown = 1 THEN 10 ELSE 20
  BY <1>1, Tolls
<1>3. /\ Numbers!Shown = "Healthy" => sum <= 15
      /\ Numbers!Shown = "Critical" => sum > 40
  <2>1. Numbers!Score(metrics, down, adminDown)
          = IF Numbers!NoMetrics(metrics) THEN 0 ELSE IF sum <= 100 THEN 100 - sum ELSE 0
    <3>1. b.cpu = b["cpu"] /\ b.mem = b["mem"] /\ b.peers = b["peers"]
            /\ b.interfaces = b["interfaces"]
      OBVIOUS
    <3> HIDE DEF b
    <3> QED
      BY <1>2, <3>1 DEF Numbers!Score, Numbers!Least, Numbers!Most, b
  <2>2. sum \in Nat
    BY <1>2
  <2> HIDE DEF sum, b
  <2> QED
    BY <2>1, <2>2 DEF Numbers!Shown, Numbers!Label, down
<1> HIDE DEF b
<1>4. IsFiniteSet(Signs)
  <2>1. Signs \in SUBSET {"cpu", "mem", "peers", "interfaces"}
    BY <1>2
  <2>2. IsFiniteSet({"cpu", "mem", "peers", "interfaces"})
    <3>1. {"cpu", "mem", "peers", "interfaces"}
            = ((({} \cup {"cpu"}) \cup {"mem"}) \cup {"peers"}) \cup {"interfaces"}
      OBVIOUS
    <3> QED
      <4>1. IsFiniteSet({} \cup {"cpu"})
        BY FS_EmptySet, FS_AddElement
      <4>2. IsFiniteSet(({} \cup {"cpu"}) \cup {"mem"})
        BY <4>1, FS_AddElement
      <4>3. IsFiniteSet((({} \cup {"cpu"}) \cup {"mem"}) \cup {"peers"})
        BY <4>2, FS_AddElement
      <4> QED
        BY <3>1, <4>3, FS_AddElement
  <2> QED
    BY <2>1, <2>2, FS_Subset
<1>5. ASSUME sum <= 15
      PROVE  /\ down = 0 /\ metrics.cpu <= 90 /\ metrics.mem <= 95
             /\ Cardinality(Signs) <= 1
  <2>1. down = 0 /\ metrics.cpu <= 90 /\ metrics.mem <= 95
    BY <1>1, <1>2, <1>5
  <2>2. /\ b["peers"] = 0
        /\ \/ b["cpu"] = 0 /\ b["mem"] = 0
           \/ b["mem"] = 0 /\ b["interfaces"] = 0
           \/ b["cpu"] = 0 /\ b["interfaces"] = 0
    BY <1>1, <1>2, <1>5
  <2>3. \E s \in {"cpu", "mem", "interfaces"} : Signs \subseteq {s}
    <3>1. CASE b["cpu"] = 0 /\ b["mem"] = 0
      BY <1>2, <2>2, <3>1
    <3>2. CASE b["mem"] = 0 /\ b["interfaces"] = 0
      BY <1>2, <2>2, <3>2
    <3>3. CASE b["cpu"] = 0 /\ b["interfaces"] = 0
      BY <1>2, <2>2, <3>3
    <3> QED
      BY <2>2, <3>1, <3>2, <3>3
  <2>4. PICK s \in {"cpu", "mem", "interfaces"} : Signs \in SUBSET {s}
    BY <2>3
  <2>5. Cardinality(Signs) <= 1
    <3>1. IsFiniteSet({s}) /\ Cardinality({s}) = 1
      BY FS_Singleton
    <3> QED
      BY <2>4, <3>1, FS_Subset
  <2> QED
    BY <2>1, <2>5
<1>6. ASSUME sum > 40 PROVE Cardinality(Signs) >= 2
  <2>1. \E s, t \in Signs : s # t
    <3>1. \/ b["cpu"] > 0 /\ b["mem"] > 0
          \/ b["cpu"] > 0 /\ b["peers"] > 0
          \/ b["cpu"] > 0 /\ b["interfaces"] > 0
          \/ b["mem"] > 0 /\ b["peers"] > 0
          \/ b["mem"] > 0 /\ b["interfaces"] > 0
          \/ b["peers"] > 0 /\ b["interfaces"] > 0
      BY <1>1, <1>2, <1>6
    <3> QED
      BY <1>2, <3>1
  <2>2. PICK s \in Signs, t \in Signs : s # t
    BY <2>1
  <2> HIDE DEF Signs
  <2>3. IsFiniteSet({s} \cup {t}) /\ Cardinality({s} \cup {t}) = 2
    <3>1. IsFiniteSet({s}) /\ Cardinality({s}) = 1
      BY FS_Singleton
    <3> QED
      BY <2>2, <3>1, FS_AddElement
  <2>4. {s} \cup {t} \in SUBSET Signs
    BY <2>2
  <2>5. Cardinality(Signs) \in Nat /\ Cardinality({s} \cup {t}) <= Cardinality(Signs)
    BY <1>4, <2>4, FS_Subset, FS_CardinalityType
  <2> QED
    BY <2>3, <2>5
<1>7. /\ Numbers!Score(metrics, down + 1, adminDown) <= Numbers!Score(metrics, down, adminDown)
      /\ Numbers!Score(metrics, down, adminDown + 1) <= Numbers!Score(metrics, down, adminDown)
  <2>1. metrics.cpu \in Int /\ metrics.mem \in Int
    BY MetricsType
  <2> QED
    BY <1>1, <2>1 DEF Numbers!Score, Numbers!Breakdown, Numbers!Toll, Numbers!Least,
         Numbers!Most, Numbers!NoMetrics
<1> HIDE DEF Signs, sum
<1> QED
  BY <1>3, <1>5, <1>6, <1>7, SameCount DEF Numbers!LabelIsFair, down, b, Signs

(* The health label and the counts of the overview agree.                  *)
THEOREM NumbersAgree == PartsSpec => []NumbersAreRight
<1>1. PartsInit => Numbers!IInv
  BY DEF PartsInit, Numbers!Init, Numbers!IInv
<1>2. Numbers!IInv /\ [PartsNext]_partsVars => Numbers!IInv'
  BY PartsStep, NumbersStep
<1>3. Numbers!IInv => NumbersAreRight
  BY DownCounts, FairLabel DEF NumbersAreRight, Numbers!NumbersAreRight
<1> QED
  BY <1>1, <1>2, <1>3, PTL DEF PartsSpec

-----------------------------------------------------------------------------
(* IFBs (IfbPool).                                                         *)
LEMMA NamesApart ==
    /\ Iface \cap Ifbpool!Ifb = {} /\ None \notin Ifbpool!Ifb /\ None \notin Policy
    /\ Ifbpool!Named = Iface \cup Ifbpool!Ifb /\ Ifbpool!Ifb \subseteq Nat
BY PartsAssumption DEF PartsAssumption, Ifbpool!Named, Ifbpool!Ifb

(* A set of naturals that is not empty has a least element.                *)
LEMMA LeastNatural ==
    ASSUME NEW S \in SUBSET Nat, S # {}
    PROVE  \E f \in S : \A g \in S : f <= g
<1>1. \E f \in S : \A g \in S : <<g, f>> \notin OpToRel(<, Nat)
  BY NatLessThanWellFounded, WFMin
<1>2. PICK f \in S : \A g \in S : <<g, f>> \notin OpToRel(<, Nat)
  BY <1>1
<1>3. \A g \in S : ~(g < f)
  BY <1>2 DEF OpToRel
<1> QED
  BY <1>3

LEMMA PickIsFree ==
    ASSUME NEW s, Ifbpool!Free(s) # {}
    PROVE  Ifbpool!Pick(s) \in Ifbpool!Free(s)
<1>1. Ifbpool!Free(s) \in SUBSET Nat
  BY NamesApart DEF Ifbpool!Free
<1>2. \E f \in Ifbpool!Free(s) : \A g \in Ifbpool!Free(s) : f <= g
  BY <1>1, LeastNatural
<1> QED
  BY <1>2 DEF Ifbpool!Pick

LEMMA BindEgressLegs ==
    ASSUME NEW l \in Ifbpool!Device, Ifbpool!Apart(l), NEW i \in Iface, NEW p \in Policy,
           NEW m, m = Ifbpool!BindEgress(l, i, p)
    PROVE  /\ m \in Ifbpool!Device /\ Ifbpool!Apart(m)
           /\ \A j \in Iface \ {i} : Ifbpool!Legs(m, j) = Ifbpool!Legs(l, j)
<1>1. /\ m \in Ifbpool!Device
      /\ m.declared = l.declared /\ m.redirect = l.redirect
      /\ m.qos = [l.qos EXCEPT ![i] = p]
  BY NamesApart DEF Ifbpool!Device, Ifbpool!BindEgress
<1>2. \A f \in Ifbpool!Ifb : m.qos[f] = l.qos[f]
  BY <1>1, NamesApart DEF Ifbpool!Device
<1>3. \A j \in Iface : l.redirect[j] \in Ifbpool!Ifb \cup {None}
  BY DEF Ifbpool!Device
<1>4. Ifbpool!Apart(m)
  BY <1>1, <1>2, <1>3, NamesApart DEF Ifbpool!Apart, Ifbpool!Healthy, Ifbpool!Bound
<1>5. \A j \in Iface \ {i} : m.qos[j] = l.qos[j]
  BY <1>1, NamesApart DEF Ifbpool!Device
<1> QED
  BY <1>1, <1>2, <1>3, <1>4, <1>5 DEF Ifbpool!Legs

LEMMA BindBothLegs ==
    ASSUME NEW l \in Ifbpool!Device, Ifbpool!Apart(l), NEW i \in Iface, NEW p \in Policy,
           NEW f \in Ifbpool!Free(l), NEW m, m = Ifbpool!BindBoth(l, i, p, f)
    PROVE  /\ m \in Ifbpool!Device /\ Ifbpool!Apart(m)
           /\ \A j \in Iface \ {i} : Ifbpool!Legs(m, j) = Ifbpool!Legs(l, j)
<1>1. /\ f \in Ifbpool!Ifb /\ f \notin l.declared
      /\ l.declared \in SUBSET Ifbpool!Ifb
      /\ l.qos \in [Ifbpool!Named -> Policy \cup {None}]
      /\ l.redirect \in [Iface -> Ifbpool!Ifb \cup {None}]
  BY DEF Ifbpool!Free, Ifbpool!Device
<1>2. /\ m.declared = l.declared \cup {f}
      /\ m.qos = [[l.qos EXCEPT ![i] = p] EXCEPT ![f] = p]
      /\ m.redirect = [l.redirect EXCEPT ![i] = f]
      /\ m = [declared |-> m.declared, qos |-> m.qos, redirect |-> m.redirect]
  BY DEF Ifbpool!BindBoth
<1>3. m \in Ifbpool!Device
  BY <1>1, <1>2, NamesApart DEF Ifbpool!Device
<1>4. \A n \in Ifbpool!Named : m.qos[n] = IF n \in {i, f} THEN p ELSE l.qos[n]
  BY <1>1, <1>2, NamesApart
<1>5. \A j \in Iface : m.redirect[j] = IF j = i THEN f ELSE l.redirect[j]
  BY <1>1, <1>2
<1>6. \A j \in Iface : l.redirect[j] # None => l.redirect[j] \in l.declared /\ l.redirect[j] # f
  BY <1>1 DEF Ifbpool!Apart, Ifbpool!Healthy
<1>7. Ifbpool!Apart(m)
  <2> SUFFICES ASSUME NEW j \in Iface, m.redirect[j] # None
               PROVE  /\ m.redirect[j] \in Ifbpool!Healthy(m)
                      /\ \A k \in Iface \ {j} : m.redirect[k] # m.redirect[j]
    BY DEF Ifbpool!Apart
  <2>1. \A k \in Iface \ {j} : m.redirect[k] # m.redirect[j]
    BY <1>5, <1>6 DEF Ifbpool!Apart
  <2>2. m.redirect[j] \in m.declared /\ m.redirect[j] \in Ifbpool!Ifb
    BY <1>1, <1>2, <1>5, <1>6
  <2>3. m.qos[m.redirect[j]] # None
    BY <1>4, <1>5, <2>2, NamesApart DEF Ifbpool!Apart, Ifbpool!Healthy, Ifbpool!Bound
  <2> QED
    BY <2>1, <2>2, <2>3, NamesApart DEF Ifbpool!Healthy, Ifbpool!Bound
<1>8. ASSUME NEW j \in Iface \ {i} PROVE Ifbpool!Legs(m, j) = Ifbpool!Legs(l, j)
  <2>1. m.redirect[j] = l.redirect[j] /\ m.qos[j] = l.qos[j]
    BY <1>1, <1>4, <1>5, NamesApart
  <2>2. ASSUME l.redirect[j] # None
        PROVE  /\ m.qos[l.redirect[j]] = l.qos[l.redirect[j]]
               /\ l.redirect[j] \in m.declared /\ l.redirect[j] \in l.declared
    BY <1>1, <1>2, <1>4, <1>6, <2>2, NamesApart
  <2> QED
    BY <2>1, <2>2 DEF Ifbpool!Legs
<1> QED
  BY <1>3, <1>7, <1>8

(* What a change takes away costs no other interface its IFB, if every     *)
(* IFB it names is one that no interface left redirects to.                *)
LEMMA WithoutLegs ==
    ASSUME NEW l \in Ifbpool!Device, Ifbpool!Apart(l),
           NEW names, NEW ifaces, NEW ifbs,
           \A i \in Iface : i \notin ifaces /\ l.redirect[i] # None
                               => l.redirect[i] \notin names \cup ifbs,
           NEW m, m = Ifbpool!Without(l, names, ifaces, ifbs)
    PROVE  /\ m \in Ifbpool!Device /\ Ifbpool!Apart(m)
           /\ \A j \in Iface \ (ifaces \cup names) : Ifbpool!Legs(m, j) = Ifbpool!Legs(l, j)
<1>1. /\ l.declared \in SUBSET Ifbpool!Ifb
      /\ l.qos \in [Ifbpool!Named -> Policy \cup {None}]
      /\ l.redirect \in [Iface -> Ifbpool!Ifb \cup {None}]
  BY DEF Ifbpool!Device
<1>2. /\ m.declared = l.declared \ ifbs
      /\ m.qos = [n \in Ifbpool!Named |-> IF n \in names THEN None ELSE l.qos[n]]
      /\ m.redirect = [i \in Iface |-> IF i \in ifaces THEN None ELSE l.redirect[i]]
      /\ m = [declared |-> m.declared, qos |-> m.qos, redirect |-> m.redirect]
  BY DEF Ifbpool!Without
<1>3. m \in Ifbpool!Device
  BY <1>1, <1>2, NamesApart DEF Ifbpool!Device
<1>4. ASSUME NEW j \in Iface, m.redirect[j] # None
      PROVE  /\ m.redirect[j] = l.redirect[j] /\ l.redirect[j] \in Ifbpool!Named
             /\ m.qos[l.redirect[j]] = l.qos[l.redirect[j]]
             /\ l.redirect[j] \in m.declared /\ l.redirect[j] \in l.declared
             /\ l.redirect[j] \in Ifbpool!Healthy(l)
  BY <1>1, <1>2, <1>4, NamesApart DEF Ifbpool!Apart, Ifbpool!Healthy
<1>5. Ifbpool!Apart(m)
  <2> SUFFICES ASSUME NEW j \in Iface, m.redirect[j] # None
               PROVE  /\ m.redirect[j] \in Ifbpool!Healthy(m)
                      /\ \A k \in Iface \ {j} : m.redirect[k] # m.redirect[j]
    BY DEF Ifbpool!Apart
  <2>1. \A k \in Iface \ {j} : m.redirect[k] # m.redirect[j]
    BY <1>2, <1>4 DEF Ifbpool!Apart
  <2>2. m.redirect[j] \in Ifbpool!Healthy(m)
    BY <1>4 DEF Ifbpool!Healthy, Ifbpool!Bound
  <2> QED
    BY <2>1, <2>2
<1>6. ASSUME NEW j \in Iface \ (ifaces \cup names)
      PROVE  Ifbpool!Legs(m, j) = Ifbpool!Legs(l, j)
  BY <1>1, <1>2, <1>4, NamesApart DEF Ifbpool!Legs
<1> QED
  BY <1>3, <1>5, <1>6

LEMMA UnbindLegs ==
    ASSUME NEW l \in Ifbpool!Device, Ifbpool!Apart(l), NEW s, NEW n \in Ifbpool!Named,
           s.redirect = l.redirect \/ (n \in Iface /\ s.redirect[n] = None),
           NEW m, m = Ifbpool!Unbind(l, s, n)
    PROVE  /\ m \in Ifbpool!Device /\ Ifbpool!Apart(m)
           /\ \A j \in Iface : n \notin {j, l.redirect[j]}
                                  => Ifbpool!Legs(m, j) = Ifbpool!Legs(l, j)
<1>1. l.redirect \in [Iface -> Ifbpool!Ifb \cup {None}]
  BY DEF Ifbpool!Device
<1>2. CASE n \in Ifbpool!Ifb /\ Ifbpool!Redirectors(s, n) = {}
  <2>1. m = Ifbpool!Without(l, {n}, {}, {n})
    BY <1>2, NamesApart DEF Ifbpool!Unbind
  <2>2. \A i \in Iface : l.redirect[i] # n
    BY <1>2, NamesApart DEF Ifbpool!Redirectors
  <2> QED
    BY <2>1, <2>2, WithoutLegs
<1>3. CASE n \in Ifbpool!Ifb /\ Ifbpool!Redirectors(s, n) # {}
  <2> DEFINE i == CHOOSE i \in Ifbpool!Redirectors(s, n) : TRUE
  <2>1. i \in Iface /\ l.redirect[i] = n
    BY <1>3, NamesApart DEF Ifbpool!Redirectors
  <2>2. m = Ifbpool!Without(l, {i, n}, {i}, {n})
    BY <1>3, NamesApart DEF Ifbpool!Unbind
  <2> HIDE DEF i
  <2>3. \A j \in Iface : j \notin {i} /\ l.redirect[j] # None => l.redirect[j] \notin {i, n} \cup {n}
    BY <1>1, <2>1, NamesApart DEF Ifbpool!Apart
  <2>4. /\ m \in Ifbpool!Device /\ Ifbpool!Apart(m)
        /\ \A j \in Iface \ ({i} \cup {i, n}) : Ifbpool!Legs(m, j) = Ifbpool!Legs(l, j)
    BY <2>2, <2>3, WithoutLegs
  <2> QED
    BY <2>1, <2>4
<1>4. CASE n \in Iface
  <2> DEFINE f == {s.redirect[n]} \ {None}
             ifaces == IF f = {} THEN {} ELSE {n}
  <2>1. m = Ifbpool!Without(l, {n} \cup f, ifaces, f)
    BY <1>4, NamesApart DEF Ifbpool!Unbind
  <2>2. \A j \in Iface : j \notin ifaces /\ l.redirect[j] # None
                            => l.redirect[j] \notin ({n} \cup f) \cup f
    BY <1>1, <1>4, NamesApart DEF Ifbpool!Apart
  <2>3. f \cap Iface = {}
    BY <1>1, <1>4, NamesApart
  <2> HIDE DEF f, ifaces
  <2>4. /\ m \in Ifbpool!Device /\ Ifbpool!Apart(m)
        /\ \A j \in Iface \ (ifaces \cup ({n} \cup f)) : Ifbpool!Legs(m, j) = Ifbpool!Legs(l, j)
    BY <2>1, <2>2, WithoutLegs
  <2> QED
    BY <2>3, <2>4 DEF ifaces
<1> QED
  BY <1>2, <1>3, <1>4, NamesApart

LEMMA DeleteLegs ==
    ASSUME NEW l \in Ifbpool!Device, Ifbpool!Apart(l),
           NEW s, s = Ifbpool!Bare \/ (s.redirect = l.redirect /\ s.qos = l.qos),
           NEW p, NEW m, m = Ifbpool!Delete(l, s, p)
    PROVE  /\ m \in Ifbpool!Device /\ Ifbpool!Apart(m)
           /\ \A j \in Iface : l.qos[j] # p => Ifbpool!Legs(m, j) = Ifbpool!Legs(l, j)
<1> DEFINE Rows   == {n \in Ifbpool!Bound(s) \ Ifbpool!Shadows(s) : s.qos[n] = p}
           Paired == {i \in Rows \cap Iface : s.redirect[i] \in Ifbpool!Shadows(s)}
           Behind == {s.redirect[i] : i \in Paired}
<1>1. m = Ifbpool!Without(l, Rows \cup Behind, Paired, Behind)
  BY DEF Ifbpool!Delete, Ifbpool!RowsOf
<1>4. CASE s = Ifbpool!Bare
  <2>1. Rows = {} /\ Paired = {} /\ Behind = {}
    BY <1>4 DEF Ifbpool!Bare, Ifbpool!Bound
  <2> HIDE DEF Rows, Paired, Behind
  <2>2. m = Ifbpool!Without(l, {}, {}, {})
    BY <1>1, <2>1
  <2> QED
    BY <2>2, WithoutLegs
<1> SUFFICES ASSUME s.redirect = l.redirect, s.qos = l.qos
             PROVE  /\ m \in Ifbpool!Device /\ Ifbpool!Apart(m)
                    /\ \A j \in Iface : l.qos[j] # p => Ifbpool!Legs(m, j) = Ifbpool!Legs(l, j)
  BY <1>4
<1>2. ASSUME NEW i \in Iface, i \notin Paired, l.redirect[i] # None
      PROVE  l.redirect[i] \notin (Rows \cup Behind) \cup Behind
  <2>1. l.redirect[i] \in Ifbpool!Shadows(s)
    BY <1>2 DEF Ifbpool!Apart, Ifbpool!Healthy, Ifbpool!Bound, Ifbpool!Shadows,
         Ifbpool!Redirectors, Ifbpool!Device
  <2>2. l.redirect[i] \notin Behind
    BY <1>2 DEF Ifbpool!Apart
  <2> QED
    BY <2>1, <2>2
<1>3. \A j \in Iface : l.qos[j] # p => j \notin Paired \cup (Rows \cup Behind)
  <2>1. Behind \subseteq Ifbpool!Ifb
    BY DEF Ifbpool!Shadows
  <2> QED
    BY <2>1, NamesApart
<1> HIDE DEF Rows, Paired, Behind
<1> QED
  BY <1>1, <1>2, <1>3, WithoutLegs

LEMMA CleanUpLegs ==
    ASSUME NEW l \in Ifbpool!Device, Ifbpool!Apart(l),
           NEW m, m = Ifbpool!CleanUp(l, l)
    PROVE  /\ m \in Ifbpool!Device /\ Ifbpool!Apart(m)
           /\ \A j \in Iface : Ifbpool!Legs(m, j) = Ifbpool!Legs(l, j)
<1> DEFINE names == Ifbpool!Orphans(l) \cap Ifbpool!Bound(l)
           ifbs  == Ifbpool!Orphans(l) \cap l.declared
<1>1. m = Ifbpool!Without(l, names, {}, ifbs)
  BY DEF Ifbpool!CleanUp
<1>3. \A i \in Iface : i \notin {} /\ l.redirect[i] # None => l.redirect[i] \notin names \cup ifbs
  BY DEF Ifbpool!Apart, Ifbpool!Orphans
<1>4. names \cap Iface = {}
  BY NamesApart DEF Ifbpool!Orphans, Ifbpool!Device
<1> HIDE DEF names, ifbs
<1>5. /\ m \in Ifbpool!Device /\ Ifbpool!Apart(m)
      /\ \A j \in Iface \ ({} \cup names) : Ifbpool!Legs(m, j) = Ifbpool!Legs(l, j)
  BY <1>1, <1>3, WithoutLegs
<1> QED
  BY <1>4, <1>5

(* A request that is not misled keeps the interfaces apart and touches     *)
(* only its own: it does what it would on the legs as they are.            *)
LEMMA ConfigureLegs ==
    ASSUME Ifbpool!IInv, NEW r \in Request, Ifbpool!Configure(r), ~misled'
    PROVE  /\ legs' \in Ifbpool!Device /\ Ifbpool!Apart(legs')
           /\ \A i \in Iface : ~Ifbpool!Concerns(request[r], i)
                                  => Ifbpool!Legs(legs', i) = Ifbpool!Legs(legs, i)
<1> DEFINE q == request[r]
           s == Ifbpool!View(q)
<1>1. /\ ~misled /\ legs \in Ifbpool!Device /\ Ifbpool!Apart(legs)
      /\ Ifbpool!Sensible(q) /\ q \notin {Ifbpool!Idle, Ifbpool!Confirming}
      /\ ~Ifbpool!NothingToDo(q, s) /\ legs' = Ifbpool!Made(q, s)
  BY DEF Ifbpool!IInv, Ifbpool!Configure, Ifbpool!Ready, Ifbpool!Misleads
<1>2. s = IF Ifbpool!Legible(q) THEN legs ELSE Ifbpool!Bare
  BY DEF Ifbpool!View
<1> HIDE DEF q, s
<1>3. \/ q.does \in {"upsert", "delete", "clean up"}
      \/ q.does \in {"bind egress", "bind both"} /\ q.on \in Iface /\ q.policy \in Policy
      \/ q.does = "unbind" /\ q.on \in Ifbpool!Named
  BY <1>1 DEF Ifbpool!Sensible
<1>9. SUFFICES /\ legs' \in Ifbpool!Device /\ Ifbpool!Apart(legs')
               /\ \A i \in Iface : ~Ifbpool!Concerns(q, i)
                                      => Ifbpool!Legs(legs', i) = Ifbpool!Legs(legs, i)
  BY DEF q
<1>4. CASE q.does = "bind egress"
  <2>0. q.on \in Iface /\ q.policy \in Policy
    BY <1>3, <1>4
  <2>1. legs' = Ifbpool!BindEgress(legs, q.on, q.policy)
    BY <1>1, <1>4 DEF Ifbpool!Made
  <2>2. \A i \in Iface : Ifbpool!Concerns(q, i) <=> q.on = i
    BY <1>4 DEF Ifbpool!Concerns
  <2> QED
    BY <1>1, <2>0, <2>1, <2>2, BindEgressLegs
<1>5. CASE q.does = "bind both"
  <2>0. q.on \in Iface /\ q.policy \in Policy
    BY <1>3, <1>5
  <2>1. legs' = Ifbpool!BindBoth(legs, q.on, q.policy, Ifbpool!Pick(s))
    BY <1>1, <1>5 DEF Ifbpool!Made
  <2>2. s = legs
    BY <1>2, <1>5 DEF Ifbpool!Legible
  <2>3. Ifbpool!Pick(s) \in Ifbpool!Free(legs)
    BY <1>1, <1>5, <2>2, PickIsFree DEF Ifbpool!NothingToDo
  <2>4. \A i \in Iface : Ifbpool!Concerns(q, i) <=> q.on = i
    BY <1>5 DEF Ifbpool!Concerns
  <2> QED
    BY <1>1, <2>0, <2>1, <2>3, <2>4, BindBothLegs
<1>6. CASE q.does = "unbind"
  <2>1. legs' = Ifbpool!Unbind(legs, s, q.on)
    BY <1>1, <1>6 DEF Ifbpool!Made
  <2>2. s.redirect = legs.redirect \/ (q.on \in Iface /\ s.redirect[q.on] = None)
    BY <1>2, <1>6 DEF Ifbpool!Legible, Ifbpool!Bare
  <2>3. \A i \in Iface : Ifbpool!Concerns(q, i) <=> q.on \in {i, legs.redirect[i]}
    BY <1>6 DEF Ifbpool!Concerns
  <2> QED
    BY <1>1, <1>3, <1>6, <2>1, <2>2, <2>3, UnbindLegs
<1>7. CASE q.does = "delete"
  <2>1. legs' = Ifbpool!Delete(legs, s, q.policy)
    BY <1>1, <1>7 DEF Ifbpool!Made
  <2>2. s = Ifbpool!Bare \/ (s.redirect = legs.redirect /\ s.qos = legs.qos)
    BY <1>2
  <2>3. \A i \in Iface : Ifbpool!Concerns(q, i) <=> legs.qos[i] = q.policy
    BY <1>7 DEF Ifbpool!Concerns
  <2> QED
    BY <1>1, <2>1, <2>2, <2>3, DeleteLegs
<1>8. CASE q.does = "clean up"
  <2>1. legs' = Ifbpool!CleanUp(legs, s) /\ s = legs
    BY <1>1, <1>2, <1>8 DEF Ifbpool!Made, Ifbpool!Legible
  <2> QED
    BY <1>1, <2>1, CleanUpLegs
<1>10. CASE q.does = "upsert"
  BY <1>1, <1>10 DEF Ifbpool!Made
<1> QED
  BY <1>3, <1>4, <1>5, <1>6, <1>7, <1>8, <1>10

(* A request that moves on stays one the service can make.                 *)
LEMMA RequestStep ==
    ASSUME DOMAIN request = Request, \A r \in Request : Ifbpool!Sensible(request[r]),
           NEW r \in Request, NEW d, request' = [request EXCEPT ![r] = d], Ifbpool!Sensible(d)
    PROVE  DOMAIN request' = Request /\ \A s \in Request : Ifbpool!Sensible(request'[s])
<1>1. \A s \in Request : request'[s] = IF s = r THEN d ELSE request[s]
  OBVIOUS
<1>2. DOMAIN request' = Request
  OBVIOUS
<1> QED
  BY <1>1, <1>2

LEMMA BetweenRequests == Ifbpool!Sensible(Ifbpool!Idle) /\ Ifbpool!Sensible(Ifbpool!Confirming)
<1>1. DOMAIN Ifbpool!Confirming = DOMAIN Ifbpool!Idle
  BY DEF Ifbpool!Confirming
<1> QED
  BY <1>1 DEF Ifbpool!Sensible

(* A request that reads on, or fails to.                                   *)
LEMMA ReadOn ==
    ASSUME NEW q, Ifbpool!Sensible(q), q.todo # << >>, NEW read, NEW left,
           NEW d, d = [q EXCEPT !.seen = read, !.todo = left]
    PROVE  Ifbpool!Sensible(d)
<1>1. q \notin {Ifbpool!Idle, Ifbpool!Confirming}
  BY DEF Ifbpool!Idle, Ifbpool!Confirming
<1>2. DOMAIN q = {"does", "on", "policy", "seen", "todo"}
  BY DEF Ifbpool!Sensible, Ifbpool!Idle
<1>3. DOMAIN d = DOMAIN q /\ d.does = q.does /\ d.on = q.on /\ d.policy = q.policy
  BY <1>2
<1> QED
  BY <1>1, <1>3 DEF Ifbpool!Sensible

LEMMA IfbStep == Ifbpool!IInv /\ [Ifbpool!Next]_ifbVars => Ifbpool!IInv'
<1> SUFFICES ASSUME Ifbpool!IInv, [Ifbpool!Next]_ifbVars, ~misled' PROVE Ifbpool!IInv'
  BY DEF Ifbpool!IInv
<1> DEFINE Kept == UNCHANGED <<legs, trial>>
           RequestsKept == DOMAIN request' = Request /\ \A r \in Request : Ifbpool!Sensible(request'[r])
<1>0. ~misled
  BY DEF ifbVars, Ifbpool!Next
<1>1. /\ legs \in Ifbpool!Device /\ Ifbpool!Apart(legs)
      /\ trial # None =>
           /\ trial.legs \in Ifbpool!Device /\ Ifbpool!Apart(trial.legs)
           /\ \A i \in Iface \ trial.about : Ifbpool!Legs(legs, i) = Ifbpool!Legs(trial.legs, i)
      /\ DOMAIN request = Request /\ \A r \in Request : Ifbpool!Sensible(request[r])
  BY <1>0 DEF Ifbpool!IInv
<1>2. ASSUME Kept, RequestsKept PROVE Ifbpool!IInv'
  BY <1>1, <1>2 DEF Ifbpool!IInv
<1>3. CASE UNCHANGED ifbVars
  BY <1>1, <1>2, <1>3 DEF ifbVars
<1>4. ASSUME NEW r \in Request, NEW does, NEW on, NEW policy, Ifbpool!Begin(r, does, on, policy),
             \/ does \in {"upsert", "delete", "clean up"}
             \/ does \in {"bind egress", "bind both"} /\ on \in Iface /\ policy \in Policy
             \/ does = "unbind" /\ on \in Ifbpool!Named
      PROVE  Ifbpool!IInv'
  <2> DEFINE d == [does |-> does, on |-> on, policy |-> policy, seen |-> Ifbpool!Bare,
                   todo |-> Ifbpool!Reads(does)]
  <2>1. request' = [request EXCEPT ![r] = d] /\ Kept
    BY <1>4 DEF Ifbpool!Begin
  <2>2. Ifbpool!Sensible(d)
    BY <1>4 DEF Ifbpool!Sensible, Ifbpool!Idle
  <2> HIDE DEF d
  <2>3. RequestsKept
    BY <1>1, <2>1, <2>2, RequestStep
  <2> QED
    BY <1>2, <2>1, <2>3
<1>5. ASSUME NEW r \in Request,
             \/ \E i \in Iface, p \in Policy : Ifbpool!BindTrafficPolicy(r, i, p)
             \/ \E n \in Ifbpool!Named : Ifbpool!UnbindTrafficPolicy(r, n)
             \/ \E p \in Policy : Ifbpool!UpsertTrafficPolicy(r, p) \/ Ifbpool!DeleteTrafficPolicy(r, p)
             \/ Ifbpool!CleanupOrphanedIFBs(r)
      PROVE  Ifbpool!IInv'
  <2>1. CASE \E i \in Iface, p \in Policy : Ifbpool!BindTrafficPolicy(r, i, p)
    BY <1>4, <2>1 DEF Ifbpool!BindTrafficPolicy
  <2>2. CASE \E n \in Ifbpool!Named : Ifbpool!UnbindTrafficPolicy(r, n)
    BY <1>4, <2>2 DEF Ifbpool!UnbindTrafficPolicy
  <2>3. CASE \E p \in Policy : Ifbpool!UpsertTrafficPolicy(r, p) \/ Ifbpool!DeleteTrafficPolicy(r, p)
    BY <1>4, <2>3 DEF Ifbpool!UpsertTrafficPolicy, Ifbpool!DeleteTrafficPolicy
  <2>4. CASE Ifbpool!CleanupOrphanedIFBs(r)
    BY <1>4, <2>4 DEF Ifbpool!CleanupOrphanedIFBs
  <2> QED
    BY <1>5, <2>1, <2>2, <2>3, <2>4
<1>6. ASSUME NEW r \in Request, Ifbpool!Retrieve(r) PROVE Ifbpool!IInv'
  <2> DEFINE q == request[r]
             seen1 == [q.seen EXCEPT ![Head(q.todo)] = Ifbpool!View(q)[Head(q.todo)]]
             d == [q EXCEPT !.seen = seen1, !.todo = Tail(q.todo)]
  <2>1. q.todo # << >> /\ request' = [request EXCEPT ![r] = d] /\ Kept
    BY <1>6 DEF Ifbpool!Retrieve
  <2> HIDE DEF seen1
  <2>2. Ifbpool!Sensible(d)
    BY <1>1, <2>1, ReadOn
  <2> HIDE DEF d
  <2>3. RequestsKept
    BY <1>1, <2>1, <2>2, RequestStep
  <2> QED
    BY <1>2, <2>1, <2>3
<1>7. ASSUME NEW r \in Request, Ifbpool!FailRetrieve(r) PROVE Ifbpool!IInv'
  <2> DEFINE q == request[r]
             e == [q EXCEPT !.seen = q.seen, !.todo = Tail(q.todo)]
             d == IF q.does = "delete" /\ Head(q.todo) = "qos" THEN Ifbpool!Idle
                  ELSE [q EXCEPT !.todo = Tail(q.todo)]
  <2>1. q.todo # << >> /\ request' = [request EXCEPT ![r] = d] /\ Kept
    BY <1>7 DEF Ifbpool!FailRetrieve
  <2>2. Ifbpool!Sensible(e)
    BY <1>1, <2>1, ReadOn
  <2>3. DOMAIN q = {"does", "on", "policy", "seen", "todo"}
    BY <1>1 DEF Ifbpool!Sensible, Ifbpool!Idle
  <2>4. e = [q EXCEPT !.todo = Tail(q.todo)]
    BY <2>3
  <2>5. Ifbpool!Sensible(d)
    BY <2>2, <2>4, BetweenRequests
  <2> HIDE DEF d
  <2>6. RequestsKept
    BY <1>1, <2>1, <2>5, RequestStep
  <2> QED
    BY <1>2, <2>1, <2>6
<1>8. ASSUME NEW r \in Request, Ifbpool!Configure(r) PROVE Ifbpool!IInv'
  <2>1. PICK next \in {Ifbpool!Confirming, Ifbpool!Idle} : request' = [request EXCEPT ![r] = next]
    BY <1>8 DEF Ifbpool!Configure
  <2>2. RequestsKept
    BY <1>1, <2>1, BetweenRequests, RequestStep
  <2>3. /\ legs' \in Ifbpool!Device /\ Ifbpool!Apart(legs')
        /\ \A i \in Iface : ~Ifbpool!Concerns(request[r], i)
                                => Ifbpool!Legs(legs', i) = Ifbpool!Legs(legs, i)
    BY <1>8, ConfigureLegs
  <2>4. trial'.legs = legs /\ trial'.about = {i \in Iface : Ifbpool!Concerns(request[r], i)}
    BY <1>8 DEF Ifbpool!Configure
  <2> QED
    BY <1>1, <2>2, <2>3, <2>4 DEF Ifbpool!IInv, Ifbpool!Legs
<1>9. ASSUME NEW r \in Request,
             Ifbpool!GiveUp(r) \/ Ifbpool!Confirm(r) \/ Ifbpool!FailConfirm(r)
      PROVE  Ifbpool!IInv'
  <2>1. /\ request' = [request EXCEPT ![r] = Ifbpool!Idle] /\ legs' = legs
        /\ trial' \in {trial, None}
    BY <1>9 DEF Ifbpool!GiveUp, Ifbpool!Confirm, Ifbpool!FailConfirm
  <2>2. RequestsKept
    BY <1>1, <2>1, BetweenRequests, RequestStep
  <2> QED
    BY <1>1, <2>1, <2>2 DEF Ifbpool!IInv
<1>10. CASE Ifbpool!TakeBack
  BY <1>1, <1>10 DEF Ifbpool!TakeBack, Ifbpool!IInv
<1> QED
  BY <1>3, <1>5, <1>6, <1>7, <1>8, <1>9, <1>10 DEF Ifbpool!Next, Ifbpool!Moves

LEMMA IfbBegins == PartsInit => Ifbpool!IInv
<1> SUFFICES ASSUME PartsInit PROVE Ifbpool!IInv
  OBVIOUS
<1>1. legs = Ifbpool!Bare /\ request = [r \in Request |-> Ifbpool!Idle] /\ trial = None
  BY DEF PartsInit, Ifbpool!Init
<1>2. Ifbpool!Bare \in Ifbpool!Device
  BY DEF Ifbpool!Bare, Ifbpool!Device
<1>3. Ifbpool!Apart(Ifbpool!Bare)
  BY DEF Ifbpool!Apart, Ifbpool!Bare
<1> QED
  BY <1>1, <1>2, <1>3, BetweenRequests DEF Ifbpool!IInv

(***************************************************************************)
(* However many interfaces, IFBs, policies and requests there are, however *)
(* requests overlap, reads and confirmations fail and the timer takes back *)
(* what was not confirmed: until a request acts on legs that are no longer *)
(* so, no two interfaces redirect to one IFB and none to one that lacks a  *)
(* leg (qos_snmp.go).                                                      *)
(***************************************************************************)
THEOREM KeepsInterfacesApart == PartsSpec => []OneInterfacePerIfb
<1>1. Ifbpool!IInv /\ [PartsNext]_partsVars => Ifbpool!IInv'
  BY PartsStep, IfbStep
<1>2. Ifbpool!IInv => OneInterfacePerIfb
  BY DEF Ifbpool!IInv, OneInterfacePerIfb, Ifbpool!OneInterfacePerIfb
<1> QED
  BY IfbBegins, <1>1, <1>2, PTL DEF PartsSpec

(***************************************************************************)
(* Until then a change leaves the interfaces it is not about, and their    *)
(* IFBs, as they were, when it goes on trial and when the timer takes it   *)
(* back (qos_snmp.go, runConfigure).                                       *)
(***************************************************************************)
THEOREM LeavesOthersAlone == PartsSpec => OthersUntouched
<1> DEFINE A == ~misled' => \A i \in Iface :
                  Ifbpool!Legs(legs', i) # Ifbpool!Legs(legs, i) => i \in Ifbpool!Change.about
<1>1. Ifbpool!IInv /\ [PartsNext]_partsVars => Ifbpool!IInv'
  BY PartsStep, IfbStep
<1>2. ASSUME Ifbpool!IInv, [PartsNext]_partsVars PROVE [A]_ifbVars
  <2> SUFFICES ASSUME ~misled', NEW i \in Iface,
                      Ifbpool!Legs(legs', i) # Ifbpool!Legs(legs, i)
               PROVE  i \in Ifbpool!Change.about
    OBVIOUS
  <2>1. legs' # legs
    OBVIOUS
  <2>2. Ifbpool!TakeBack \/ \E r \in Request : Ifbpool!Configure(r)
    BY <1>2, <2>1, PartsStep DEF ifbVars, Ifbpool!Next, Ifbpool!Moves,
         Ifbpool!UpsertTrafficPolicy, Ifbpool!BindTrafficPolicy, Ifbpool!UnbindTrafficPolicy,
         Ifbpool!DeleteTrafficPolicy, Ifbpool!CleanupOrphanedIFBs, Ifbpool!Begin,
         Ifbpool!Retrieve, Ifbpool!FailRetrieve, Ifbpool!GiveUp, Ifbpool!Confirm,
         Ifbpool!FailConfirm
  <2>3. CASE Ifbpool!TakeBack
    <3>1. trial # None /\ legs' = trial.legs /\ ~misled
      BY <2>3 DEF Ifbpool!TakeBack
    <3> QED
      BY <1>2, <3>1 DEF Ifbpool!IInv, Ifbpool!Change
  <2>4. CASE \E r \in Request : Ifbpool!Configure(r)
    <3>1. PICK r \in Request : Ifbpool!Configure(r)
      BY <2>4
    <3>2. trial = None /\ trial'.about = {j \in Iface : Ifbpool!Concerns(request[r], j)}
      BY <3>1 DEF Ifbpool!Configure
    <3>3. Ifbpool!Concerns(request[r], i)
      BY <1>2, <3>1, ConfigureLegs
    <3> QED
      BY <3>2, <3>3 DEF Ifbpool!Change
  <2> QED
    BY <2>2, <2>3, <2>4
<1>3. OthersUntouched <=> [][A]_ifbVars
  BY PTL DEF OthersUntouched, Ifbpool!OthersUntouched, ifbVars, Ifbpool!vars
<1> HIDE DEF A
<1> QED
  BY IfbBegins, <1>1, <1>2, <1>3, PTL DEF PartsSpec

-----------------------------------------------------------------------------
(* The SNMP page and its service (SnmpConfig) implement ItemStore.         *)

(* What a trip to the page and back leaves of a configuration.             *)
LEMMA TripWears ==
    ASSUME NEW c \in Snmp!Config
    PROVE  /\ Snmp!Decoded(c) \in Snmp!Config /\ Snmp!Encoded(c) \in Snmp!Config
           /\ \A j \in Key : Snmp!Encoded(Snmp!Decoded(c))[j] = Snmp!Worn(c[j])
<1>1. ASSUME NEW b \in Snmp!Body, b.rest = "extra"
      PROVE  [b EXCEPT !.rest = "plain"] \in Snmp!Body /\ [b EXCEPT !.rest = "plain"].rest = "plain"
  BY <1>1 DEF Snmp!Body
<1>2. Snmp!Decoded(c) \in Snmp!Config
  BY <1>1 DEF Snmp!Decoded, Snmp!Config
<1>3. Snmp!Encoded(c) \in Snmp!Config
  BY DEF Snmp!Encoded, Snmp!Config
<1>4. ASSUME NEW j \in Key PROVE Snmp!Encoded(Snmp!Decoded(c))[j] = Snmp!Worn(c[j])
  <2>1. c[j] \in Snmp!Body \cup {None}
    BY DEF Snmp!Config
  <2> DEFINE d == Snmp!Decoded(c)[j]
  <2>2. d = IF c[j] = None \/ c[j].rest # "extra" THEN c[j] ELSE [c[j] EXCEPT !.rest = "plain"]
    BY DEF Snmp!Decoded
  <2>3. Snmp!Encoded(Snmp!Decoded(c))[j] = IF d = None \/ d.rest = "bare" THEN None ELSE d
    BY DEF Snmp!Encoded
  <2> HIDE DEF d
  <2>4. CASE c[j] = None
    BY <2>2, <2>3, <2>4 DEF Snmp!Worn
  <2>5. CASE c[j] # None /\ c[j].rest = "extra"
    <3>1. d = [c[j] EXCEPT !.rest = "plain"] /\ d.rest = "plain"
      BY <1>1, <2>1, <2>2, <2>5
    <3>2. Snmp!Worn(c[j]) = [c[j] EXCEPT !.rest = "plain"]
      BY <2>5 DEF Snmp!Worn
    <3> QED
      BY <2>3, <3>1, <3>2
  <2>6. CASE c[j] # None /\ c[j].rest # "extra"
    BY <2>2, <2>3, <2>6 DEF Snmp!Worn
  <2> QED
    BY <2>4, <2>5, <2>6
<1> QED
  BY <1>2, <1>3, <1>4

(* A click that nothing raced is one item away from the device.            *)
LEMMA SendStep ==
    ASSUME Snmp!IInv, NEW cfg \in Snmp!Config, Snmp!Send(cfg), UNCHANGED <<production, wrapped>>,
           \E k \in Key, b \in Snmp!Body \cup {None} :
              cfg \in {Snmp!Beside(Snmp!Cfg, k, b), Snmp!InPlace(Snmp!Cfg, k, b)}
    PROVE  Snmp!IInv'
<1> DEFINE w == [nr |-> clicks + 1, cfg |-> cfg, all |-> FALSE, done |-> FALSE]
<1>1. /\ clicks' = clicks + 1 /\ writes' = writes \cup {w} /\ raced' = (raced \/ ~Snmp!Settled)
      /\ UNCHANGED <<server, wrapped, cache, modal>>
  BY DEF Snmp!Send, Snmp!Call
<1>2. clicks \in Nat /\ raced \in BOOLEAN
  BY DEF Snmp!IInv, Snmp!TypeOK
<1>3. w \in [nr : Nat, cfg : Snmp!Config, all : BOOLEAN, done : BOOLEAN]
  BY <1>2
<1>4. w.cfg = cfg /\ ~w.done
  OBVIOUS
<1> HIDE DEF w
<1>5. Snmp!TypeOK'
  <2>1. raced' \in BOOLEAN
    BY <1>1
  <2> QED
    BY <1>1, <1>2, <1>3, <2>1 DEF Snmp!IInv, Snmp!TypeOK
<1>6. ASSUME ~raced'
      PROVE  /\ \A v \in writes' : writes' = {v}
             /\ \A v \in writes' : ~v.done => v.cfg = Snmp!Empty \/ Snmp!OneAway(v.cfg)'
  <2>1. writes = {} /\ cache # None /\ cache = Snmp!Decoded(server)
    BY <1>1, <1>6 DEF Snmp!Settled
  <2>5. Snmp!OneAway(cfg)
    BY <2>1 DEF Snmp!OneAway, Snmp!Cfg
  <2> QED
    BY <1>1, <1>4, <2>1, <2>5 DEF Snmp!OneAway
<1> QED
  BY <1>5, <1>6 DEF Snmp!IInv

LEMMA ClickSends ==
    ASSUME Snmp!TypeOK
    PROVE  /\ Snmp!Cfg \in Snmp!Config
           /\ \A k \in Key, b \in Snmp!Body \cup {None} :
                 Snmp!Beside(Snmp!Cfg, k, b) \in Snmp!Config /\ Snmp!InPlace(Snmp!Cfg, k, b) \in Snmp!Config
           /\ modal.kind \in {"add", "edit"} => \A j \in Snmp!Alike(modal.key), b \in Snmp!Body :
                \E k \in Key, c \in Snmp!Body \cup {None} :
                   Snmp!Changed(j, b) \in {Snmp!Beside(Snmp!Cfg, k, c), Snmp!InPlace(Snmp!Cfg, k, c)}
<1>1. Snmp!Cfg \in Snmp!Config
  BY DEF Snmp!TypeOK, Snmp!Cfg, Snmp!Empty, Snmp!Config
<1>2. ASSUME NEW k \in Key, NEW b \in Snmp!Body \cup {None}
      PROVE  Snmp!Beside(Snmp!Cfg, k, b) \in Snmp!Config /\ Snmp!InPlace(Snmp!Cfg, k, b) \in Snmp!Config
  BY <1>1 DEF Snmp!Config, Snmp!Beside, Snmp!InPlace
<1>3. ASSUME modal.kind \in {"add", "edit"}, NEW j \in Snmp!Alike(modal.key), NEW b \in Snmp!Body
      PROVE  \E k \in Key, c \in Snmp!Body \cup {None} :
                Snmp!Changed(j, b) \in {Snmp!Beside(Snmp!Cfg, k, c), Snmp!InPlace(Snmp!Cfg, k, c)}
  <2>1. j \in Key
    BY DEF Snmp!Alike
  <2>2. Snmp!Cfg = Snmp!Beside(Snmp!Cfg, j, Snmp!Cfg[j]) /\ Snmp!Cfg[j] \in Snmp!Body \cup {None}
    BY <1>1, <2>1 DEF Snmp!Config, Snmp!Beside
  <2>3. \/ Snmp!Changed(j, b) \in {Snmp!Beside(Snmp!Cfg, j, b), Snmp!InPlace(Snmp!Cfg, j, b)}
        \/ Snmp!Changed(j, b) = Snmp!Cfg
    BY DEF Snmp!Changed
  <2> QED
    BY <2>1, <2>2, <2>3
<1> QED
  BY <1>1, <1>2, <1>3

LEMMA SnmpStep == Snmp!IInv /\ [Snmp!Next]_snmpVars => Snmp!IInv'
<1> SUFFICES ASSUME Snmp!IInv, [Snmp!Next]_snmpVars PROVE Snmp!IInv'
  OBVIOUS
<1> USE DEF Snmp!TypeOK
<1>1. Snmp!TypeOK
  BY DEF Snmp!IInv
<1>2. CASE UNCHANGED snmpVars
  BY <1>2 DEF snmpVars, Snmp!IInv, Snmp!OneAway
<1>3. CASE Snmp!Answer
  <2>1. Snmp!Decoded(server) \in Snmp!Config /\ Snmp!Empty \in Snmp!Config
    BY <1>1, TripWears DEF Snmp!Empty, Snmp!Config
  <2> QED
    BY <1>3, <2>1 DEF Snmp!IInv, Snmp!Answer, Snmp!OneAway
<1>4. CASE Snmp!FailFetch
  BY <1>4 DEF Snmp!IInv, Snmp!FailFetch, Snmp!OneAway
<1>5. CASE Snmp!Refetch
  BY <1>5 DEF Snmp!IInv, Snmp!Refetch, Snmp!OneAway
<1>6. ASSUME NEW kind \in {"add", "edit", "all"}, NEW key, kind # "all" => key \in Key,
             Snmp!Open(kind, key)
      PROVE  Snmp!IInv'
  <2>1. modal'.kind \in {"add", "edit"} => modal'.key \in Key
    BY <1>6 DEF Snmp!Open
  <2> QED
    BY <1>6, <2>1 DEF Snmp!IInv, Snmp!Open, Snmp!OneAway
<1>7. CASE Snmp!Close
  BY <1>7 DEF Snmp!IInv, Snmp!Close, Snmp!Closed, Snmp!OneAway
<1>8. CASE Snmp!Save
  <2>1. PICK j \in Snmp!Alike(modal.key), b \in Snmp!Body :
          modal.kind \in {"add", "edit"} /\ Snmp!Send(Snmp!Changed(j, b))
    BY <1>8 DEF Snmp!Save
  <2>2. UNCHANGED <<production, wrapped>>
    BY <2>1 DEF Snmp!Send
  <2> DEFINE sent == Snmp!Changed(j, b)
  <2>3. \E k \in Key, c \in Snmp!Body \cup {None} :
           sent \in {Snmp!Beside(Snmp!Cfg, k, c), Snmp!InPlace(Snmp!Cfg, k, c)}
    BY <1>1, <2>1, ClickSends
  <2>4. Snmp!Send(sent)
    BY <2>1
  <2> HIDE DEF sent
  <2>5. sent \in Snmp!Config
    BY <1>1, <2>3, ClickSends
  <2> QED
    BY <2>2, <2>3, <2>4, <2>5, SendStep
<1>9. ASSUME NEW k \in Key, Snmp!Delete(k) PROVE Snmp!IInv'
  <2> DEFINE sent == Snmp!InPlace(Snmp!Cfg, k, None)
  <2>1. Snmp!Send(sent) /\ UNCHANGED <<production, wrapped>>
    BY <1>9 DEF Snmp!Delete, Snmp!Send
  <2>2. sent \in Snmp!Config
    BY <1>1, ClickSends
  <2>3. \E j \in Key, c \in Snmp!Body \cup {None} :
           sent \in {Snmp!Beside(Snmp!Cfg, j, c), Snmp!InPlace(Snmp!Cfg, j, c)}
    OBVIOUS
  <2> HIDE DEF sent
  <2> QED
    BY <2>1, <2>2, <2>3, SendStep
<1>10. CASE Snmp!DeleteAll
  <2> DEFINE w == Snmp!Call(clicks, Snmp!Empty, TRUE)
  <2>1. /\ writes' = writes \cup {w} /\ raced' = (raced \/ writes # {})
        /\ UNCHANGED <<server, wrapped, cache, modal, clicks>>
    BY <1>10 DEF Snmp!DeleteAll
  <2>2. /\ w \in [nr : Nat, cfg : Snmp!Config, all : BOOLEAN, done : BOOLEAN]
        /\ w.cfg = Snmp!Empty /\ ~w.done
    BY <1>1 DEF Snmp!Call, Snmp!Empty, Snmp!Config
  <2> HIDE DEF w
  <2>3. raced' \in BOOLEAN
    BY <2>1
  <2> QED
    BY <2>1, <2>2, <2>3 DEF Snmp!IInv
<1>11. ASSUME NEW w \in writes, Snmp!Apply(w) PROVE Snmp!IInv'
  <2> DEFINE v == [w EXCEPT !.done = TRUE]
  <2>1. /\ server' = Snmp!Encoded(w.cfg) /\ writes' = (writes \ {w}) \cup {v}
        /\ UNCHANGED <<wrapped, cache, modal, clicks, raced>>
    BY <1>11 DEF Snmp!Apply
  <2>2. w.cfg \in Snmp!Config
    BY <1>1
  <2>3. server' \in Snmp!Config
    BY <2>1, <2>2, TripWears
  <2>4. v \in [nr : Nat, cfg : Snmp!Config, all : BOOLEAN, done : BOOLEAN] /\ v.done
    BY <1>1
  <2> HIDE DEF v
  <2> QED
    BY <2>1, <2>3, <2>4 DEF Snmp!IInv
<1>12. ASSUME NEW w \in writes, Snmp!Refuse(w) PROVE Snmp!IInv'
  BY <1>12 DEF Snmp!IInv, Snmp!Refuse
<1>13. ASSUME NEW w \in writes, Snmp!Succeed(w) PROVE Snmp!IInv'
  BY <1>13 DEF Snmp!IInv, Snmp!Succeed, Snmp!Closed
<1>14. ASSUME NEW w \in writes, Snmp!LoseAnswer(w) PROVE Snmp!IInv'
  BY <1>14 DEF Snmp!IInv, Snmp!LoseAnswer
<1>15. CASE Snmp!Outside
  <2>1. server' \in Snmp!Config
    BY <1>1, <1>15 DEF Snmp!Outside, Snmp!Config
  <2> QED
    BY <1>15, <2>1 DEF Snmp!IInv, Snmp!Outside
<1>16. CASE Snmp!OpenDeleteAll
  BY <1>6, <1>16 DEF Snmp!OpenDeleteAll
<1>17. ASSUME NEW k \in Key, Snmp!OpenAdd(k) \/ Snmp!OpenEdit(k) PROVE Snmp!IInv'
  BY <1>6, <1>17 DEF Snmp!OpenAdd, Snmp!OpenEdit
<1> QED
  BY <1>2, <1>3, <1>4, <1>5, <1>7, <1>8, <1>9, <1>10, <1>11, <1>12, <1>13, <1>14, <1>15,
     <1>16, <1>17 DEF Snmp!Next, Snmp!Moves

(* A write that reaches the device changes one item or wipes them all.     *)
LEMMA ApplyChanges ==
    ASSUME Snmp!IInv, ~raced, NEW w \in writes, Snmp!Apply(w)
    PROVE  Snmp!Store!Change \/ Snmp!Store!Wipe
<1>1. server' = Snmp!Encoded(w.cfg) /\ ~w.done
  BY DEF Snmp!Apply
<1>2. server \in Snmp!Config /\ w.cfg \in Snmp!Config
  BY DEF Snmp!IInv, Snmp!TypeOK
<1>3. w.cfg = Snmp!Empty \/ Snmp!OneAway(w.cfg)
  BY <1>1 DEF Snmp!IInv
<1>4. CASE w.cfg = Snmp!Empty
  <2>1. server' = [k \in Key |-> None]
    BY <1>1, <1>4 DEF Snmp!Encoded, Snmp!Empty
  <2> QED
    BY <2>1 DEF Snmp!Store!Wipe
<1>5. CASE Snmp!OneAway(w.cfg)
  <2> DEFINE d == Snmp!Decoded(server)
  <2>1. PICK k \in Key, b \in Snmp!Body \cup {None} :
          w.cfg \in {Snmp!Beside(d, k, b), Snmp!InPlace(d, k, b)}
    BY <1>5 DEF Snmp!OneAway
  <2>2. server' \in Snmp!Config /\ d \in Snmp!Config
    BY <1>1, <1>2, TripWears
  <2>3. ASSUME NEW j \in Key \ {k} PROVE w.cfg[j] = d[j] \/ (j \in Snmp!Alike(k) /\ w.cfg[j] = None)
    BY <2>1, <2>2 DEF Snmp!Config, Snmp!Beside, Snmp!InPlace
  <2>4. ASSUME NEW j \in Key \ {k}
        PROVE  server'[j] = Snmp!Worn(server[j]) \/ (j \in Snmp!Alike(k) /\ server'[j] = None)
    <3>1. CASE w.cfg[j] = d[j]
      <4>1. server'[j] = Snmp!Encoded(d)[j]
        BY <1>1, <3>1 DEF Snmp!Encoded
      <4> QED
        BY <1>2, <4>1, TripWears
    <3>2. CASE j \in Snmp!Alike(k) /\ w.cfg[j] = None
      BY <1>1, <3>2 DEF Snmp!Encoded
    <3> QED
      BY <2>3, <3>1, <3>2
  <2> HIDE DEF d
  <2>6. Snmp!Store!Put(k, server'[k])
    <3>1. k \in Snmp!Alike(k)
      BY DEF Snmp!Alike
    <3>2. \A j \in Key \ Snmp!Alike(k) : server'[j] \in {server[j], Snmp!Worn(server[j])}
      BY <2>4, <3>1
    <3>3. \A j \in Snmp!Alike(k) \ {k} : server'[j] \in {server[j], Snmp!Worn(server[j]), None}
      BY <2>4 DEF Snmp!Alike
    <3> QED
      BY <2>2, <3>2, <3>3 DEF Snmp!Store!Put, Snmp!Config
  <2>5. server'[k] \in Snmp!Body \cup {None}
    BY <2>2 DEF Snmp!Config
  <2> QED
    BY <2>5, <2>6 DEF Snmp!Store!Change
<1> QED
  BY <1>3, <1>4, <1>5

(* Every other step leaves the device alone, or is one of others.          *)
LEMMA SnmpRefines ==
    ASSUME Snmp!IInv, Snmp!IInv', [Snmp!Next]_snmpVars
    PROVE  [Snmp!Store!Next]_<<server, raced>>
<1>1. raced \in BOOLEAN /\ raced' \in BOOLEAN /\ server \in Snmp!Config /\ server' \in Snmp!Config
  BY DEF Snmp!IInv, Snmp!TypeOK
<1>2. CASE \E w \in writes : Snmp!Apply(w)
  <2>1. UNCHANGED raced
    BY <1>2 DEF Snmp!Apply
  <2>2. CASE raced
    BY <2>1, <2>2 DEF Snmp!Store!Next
  <2>3. CASE ~raced
    BY <1>1, <1>2, <2>3, ApplyChanges DEF Snmp!Store!Next
  <2> QED
    BY <1>1, <2>2, <2>3
<1>3. CASE Snmp!Outside
  <2>1. PICK k \in Key : server' = [server EXCEPT ![k] = None] /\ raced'
    BY <1>3 DEF Snmp!Outside
  <2>2. Snmp!Store!Put(k, None)
    <3>1. server'[k] = None /\ \A j \in Key \ {k} : server'[j] = server[j]
      BY <1>1, <2>1 DEF Snmp!Config
    <3> QED
      BY <1>1, <3>1 DEF Snmp!Store!Put, Snmp!Config, Snmp!Alike
  <2>3. Snmp!Store!Change
    BY <2>2 DEF Snmp!Store!Change
  <2> QED
    BY <1>1, <2>1, <2>3 DEF Snmp!Store!Next
<1>4. CASE UNCHANGED server /\ (raced => raced')
  BY <1>1, <1>4 DEF Snmp!Store!Next
<1>5. (\E w \in writes : Snmp!Apply(w)) \/ Snmp!Outside \/ (UNCHANGED server /\ (raced => raced'))
  BY DEF snmpVars, Snmp!Next, Snmp!Moves, Snmp!Answer, Snmp!FailFetch, Snmp!Refetch, Snmp!OpenDeleteAll,
     Snmp!Close, Snmp!Save, Snmp!DeleteAll, Snmp!OpenAdd, Snmp!OpenEdit, Snmp!Delete,
     Snmp!Open, Snmp!Send, Snmp!Refuse, Snmp!Succeed, Snmp!LoseAnswer
<1> QED
  BY <1>2, <1>3, <1>4, <1>5

(***************************************************************************)
(* The page and the service, which replaces the whole configuration at     *)
(* every save, implement a store of which one item at a time is put or     *)
(* removed (SNMP.tsx, qos_snmp.go UpdateSNMP).                             *)
(***************************************************************************)
THEOREM ImplementsItemStore == PartsSpec => WritesOneItem
<1>1. PartsInit => Snmp!IInv
  <2>1. ASSUME PartsInit PROVE Snmp!TypeOK
    <3>1. /\ server \in [Key -> {b \in Snmp!Body : b.value = First} \cup {None}]
          /\ cache = None /\ raced = FALSE /\ clicks = 0 /\ writes = {}
          /\ modal = [kind |-> "none", key |-> None] /\ wrapped \in BOOLEAN
      BY <2>1 DEF PartsInit, Snmp!Init, Snmp!Closed
    <3>2. server \in Snmp!Config
      BY <3>1 DEF Snmp!Config
    <3>3. modal.kind \notin {"add", "edit"}
      BY <3>1
    <3> QED
      BY <3>1, <3>2, <3>3 DEF Snmp!TypeOK
  <2> QED
    BY <2>1 DEF PartsInit, Snmp!Init, Snmp!IInv
<1>2. Snmp!IInv /\ [PartsNext]_partsVars => Snmp!IInv'
  BY PartsStep, SnmpStep
<1>3. PartsInit => Snmp!Store!Init
  BY DEF PartsInit, Snmp!Init, Snmp!Store!Init
<1>4. Snmp!IInv /\ Snmp!IInv' /\ [PartsNext]_partsVars => [Snmp!Store!Next]_<<server, raced>>
  BY PartsStep, SnmpRefines
<1> QED
  BY <1>1, <1>2, <1>3, <1>4, PTL
  DEF PartsSpec, WritesOneItem, Snmp!WritesOneItem, Snmp!Store!Spec, Snmp!Store!vars

-----------------------------------------------------------------------------
(* Sums over finite sets: what MapThenSumSet of FiniteSetsExt adds up.     *)
SumOf(f, S) == MapThenSumSet(LAMBDA x : f[x], S)
One(S)      == CHOOSE x \in S : TRUE
IsSum(f, S, sum) ==
    sum = [s \in SUBSET S |-> IF s = {} THEN 0 ELSE f[One(s)] + sum[s \ {One(s)}]]

(* Of a set of finite sets one is smallest: the induction of this section. *)
LEMMA SmallestSet ==
    ASSUME NEW U, U # {}, \A s \in U : IsFiniteSet(s)
    PROVE  \E s \in U : \A t \in U : ~(t \subseteq s /\ t # s)
<1> DEFINE sizes == {Cardinality(s) : s \in U}
<1>1. sizes \in SUBSET Nat /\ sizes # {}
  BY FS_CardinalityType
<1>2. PICK n \in sizes : \A m \in sizes : n <= m
  <2> HIDE DEF sizes
  <2> QED
    BY <1>1, LeastNatural
<1>3. PICK s \in U : Cardinality(s) = n
  BY <1>2
<1>4. ASSUME NEW t \in U, t \subseteq s, t # s PROVE FALSE
  <2>1. Cardinality(t) <= Cardinality(s) /\ Cardinality(t) # Cardinality(s)
    BY <1>4, FS_Subset
  <2>2. Cardinality(s) <= Cardinality(t)
    BY <1>2, <1>3
  <2> QED
    BY <2>1, <2>2, FS_CardinalityType
<1> QED
  BY <1>4

LEMMA OneIsIn == ASSUME NEW s, s # {} PROVE One(s) \in s
BY DEF One

LEMMA SumExists ==
    ASSUME NEW f, NEW S, IsFiniteSet(S)
    PROVE  \E sum : IsSum(f, S, sum)
<1> DEFINE D(n) == {s \in SUBSET S : Cardinality(s) <= n}
           Upto(n, sum) == sum = [s \in D(n) |-> IF s = {} THEN 0 ELSE f[One(s)] + sum[s \ {One(s)}]]
           Bad == {n \in Nat : ~\E sum : Upto(n, sum)}
<1>1. \A s \in SUBSET S : IsFiniteSet(s) /\ Cardinality(s) \in Nat /\ Cardinality(s) <= Cardinality(S)
  BY FS_Subset, FS_CardinalityType
<1>2. Bad = {}
  <2> SUFFICES ASSUME Bad # {} PROVE FALSE
    OBVIOUS
  <2>1. PICK n \in Bad : \A m \in Bad : n <= m
    <3>1. Bad \in SUBSET Nat
      OBVIOUS
    <3> HIDE DEF Bad
    <3> QED
      BY <3>1, LeastNatural
  <2>2. CASE n = 0
    <3> DEFINE sum == [s \in D(n) |-> 0]
    <3>1. \A s \in D(n) : s = {}
      BY <1>1, <2>2, FS_EmptySet
    <3>2. Upto(n, sum)
      BY <3>1
    <3> QED
      BY <2>1, <3>2
  <2>3. CASE n # 0
    <3>1. n - 1 \in Nat /\ n - 1 \notin Bad
      <4>1. n \in Nat /\ \A m \in Bad : n <= m
        BY <2>1
      <4> HIDE DEF Bad
      <4> QED
        BY <2>3, <4>1
    <3>2. PICK low : Upto(n - 1, low)
      BY <3>1
    <3> DEFINE sum == [s \in D(n) |-> IF s = {} THEN 0 ELSE f[One(s)] + low[s \ {One(s)}]]
    <3>3. ASSUME NEW s \in D(n), s # {}
          PROVE  s \ {One(s)} \in D(n - 1) /\ s \ {One(s)} \in D(n)
      <4>1. IsFiniteSet(s) /\ One(s) \in s
        BY <1>1, <3>3, OneIsIn
      <4>2. Cardinality(s \ {One(s)}) = Cardinality(s) - 1
        BY <4>1, FS_RemoveElement
      <4> QED
        BY <1>1, <2>1, <4>2
    <3>4. ASSUME NEW s \in D(n - 1) PROVE low[s] = sum[s]
      <4>1. s \in D(n)
        BY <1>1, <2>1
      <4>2. low[s] = IF s = {} THEN 0 ELSE f[One(s)] + low[s \ {One(s)}]
        BY <3>2
      <4> QED
        BY <4>1, <4>2
    <3>5. Upto(n, sum)
      <4>1. \A s \in D(n) : s # {} => sum[s \ {One(s)}] = low[s \ {One(s)}]
        BY <3>3, <3>4
      <4>2. \A s \in D(n) : sum[s] = IF s = {} THEN 0 ELSE f[One(s)] + sum[s \ {One(s)}]
        BY <4>1
      <4>3. sum = [s \in D(n) |-> sum[s]]
        OBVIOUS
      <4> HIDE DEF sum
      <4> QED
        BY <4>2, <4>3
    <3> QED
      BY <2>1, <3>5
  <2> QED
    BY <2>2, <2>3
<1>3. Cardinality(S) \in Nat
  BY FS_CardinalityType
<1>4. PICK sum : Upto(Cardinality(S), sum)
  BY <1>2, <1>3
<1>5. D(Cardinality(S)) = SUBSET S
  BY <1>1
<1> QED
  BY <1>4, <1>5 DEF IsSum

(* Two such sums agree wherever their terms do.                            *)
LEMMA SumsAgree ==
    ASSUME NEW S, IsFiniteSet(S), NEW T \in SUBSET S, NEW f, NEW g, \A x \in T : f[x] = g[x],
           NEW a, NEW b, IsSum(f, S, a), IsSum(g, T, b)
    PROVE  \A s \in SUBSET T : a[s] = b[s]
<1> DEFINE Bad == {s \in SUBSET T : a[s] # b[s]}
<1> SUFFICES ASSUME Bad # {} PROVE FALSE
  OBVIOUS
<1>1. \A s \in Bad : IsFiniteSet(s)
  BY FS_Subset
<1>2. PICK s \in Bad : \A t \in Bad : ~(t \subseteq s /\ t # s)
  <2> HIDE DEF Bad
  <2> QED
    BY <1>1, SmallestSet
<1>3. /\ a[s] = IF s = {} THEN 0 ELSE f[One(s)] + a[s \ {One(s)}]
      /\ b[s] = IF s = {} THEN 0 ELSE g[One(s)] + b[s \ {One(s)}]
  BY DEF IsSum
<1>4. s # {}
  BY <1>3
<1>5. One(s) \in s
  BY <1>4, OneIsIn
<1>6. s \ {One(s)} \notin Bad
  BY <1>2, <1>5
<1>7. a[s \ {One(s)}] = b[s \ {One(s)}] /\ f[One(s)] = g[One(s)]
  BY <1>5, <1>6
<1> QED
  BY <1>3, <1>7

LEMMA SumOfChosen ==
    ASSUME NEW f, NEW S, IsFiniteSet(S)
    PROVE  SumOf(f, S) = IF S = {} THEN 0 ELSE f[One(S)] + SumOf(f, S \ {One(S)})
<1>1. ASSUME NEW T PROVE SumOf(f, T) = (CHOOSE sum : IsSum(f, T, sum))[T]
  BY DEF SumOf, IsSum, One, MapThenSumSet, MapThenFoldSet
<1>2. PICK a : a = (CHOOSE sum : IsSum(f, S, sum)) /\ IsSum(f, S, a)
  BY SumExists
<1>3. a[S] = IF S = {} THEN 0 ELSE f[One(S)] + a[S \ {One(S)}]
  BY <1>2 DEF IsSum
<1>4. CASE S # {}
  <2> DEFINE T == S \ {One(S)}
  <2>1. IsFiniteSet(T)
    BY FS_Subset
  <2>2. PICK b : b = (CHOOSE sum : IsSum(f, T, sum)) /\ IsSum(f, T, b)
    BY <2>1, SumExists
  <2>3. a[T] = b[T]
    BY <1>2, <2>2, SumsAgree
  <2> QED
    BY <1>1, <1>2, <1>3, <1>4, <2>2, <2>3
<1> QED
  BY <1>1, <1>2, <1>3, <1>4

LEMMA SumType ==
    ASSUME NEW f, NEW S, IsFiniteSet(S), \A x \in S : f[x] \in Nat
    PROVE  SumOf(f, S) \in Nat
<1> DEFINE Bad == {s \in SUBSET S : SumOf(f, s) \notin Nat}
<1> SUFFICES ASSUME Bad # {} PROVE FALSE
  OBVIOUS
<1>1. \A s \in Bad : IsFiniteSet(s)
  BY FS_Subset
<1>2. PICK s \in Bad : \A t \in Bad : ~(t \subseteq s /\ t # s)
  <2> HIDE DEF Bad
  <2> QED
    BY <1>1, SmallestSet
<1>3. SumOf(f, s) = IF s = {} THEN 0 ELSE f[One(s)] + SumOf(f, s \ {One(s)})
  BY <1>1, <1>2, SumOfChosen
<1>4. s # {} => One(s) \in s /\ s \ {One(s)} \notin Bad
  BY <1>2, OneIsIn
<1>5. s # {} => SumOf(f, s \ {One(s)}) \in Nat
  BY <1>4
<1> QED
  BY <1>3, <1>4, <1>5

(* A sum may be begun with any of its terms.                               *)
LEMMA SumOfOne ==
    ASSUME NEW f, NEW S, IsFiniteSet(S), \A x \in S : f[x] \in Nat, NEW x \in S
    PROVE  SumOf(f, S) = f[x] + SumOf(f, S \ {x})
<1> DEFINE Bad == {s \in SUBSET S : \E y \in s : SumOf(f, s) # f[y] + SumOf(f, s \ {y})}
<1> SUFFICES ASSUME Bad # {} PROVE FALSE
  OBVIOUS
<1>1. \A s \in SUBSET S : IsFiniteSet(s) /\ SumOf(f, s) \in Nat
  BY FS_Subset, SumType
<1>2. PICK s \in Bad : \A t \in Bad : ~(t \subseteq s /\ t # s)
  <2>1. \A s \in Bad : IsFiniteSet(s)
    BY <1>1
  <2> HIDE DEF Bad
  <2> QED
    BY <2>1, SmallestSet
<1>3. PICK y \in s : SumOf(f, s) # f[y] + SumOf(f, s \ {y})
  BY <1>2
<1> DEFINE c == One(s)
<1>4. c \in s /\ SumOf(f, s) = f[c] + SumOf(f, s \ {c})
  BY <1>1, <1>3, SumOfChosen, OneIsIn
<1> HIDE DEF c
<1>5. y # c
  BY <1>3, <1>4
<1>6. s \ {c} \notin Bad /\ s \ {y} \notin Bad
  BY <1>2, <1>4
<1>7. /\ SumOf(f, s \ {c}) = f[y] + SumOf(f, (s \ {c}) \ {y})
      /\ SumOf(f, s \ {y}) = f[c] + SumOf(f, (s \ {y}) \ {c})
  BY <1>4, <1>5, <1>6
<1>8. (s \ {c}) \ {y} = (s \ {y}) \ {c} /\ SumOf(f, (s \ {y}) \ {c}) \in Nat
  BY <1>1
<1>9. f[c] \in Nat /\ f[y] \in Nat
  BY <1>3, <1>4
<1> QED
  BY <1>3, <1>4, <1>7, <1>8, <1>9

LEMMA SumOfNone == \A f : SumOf(f, {}) = 0
BY SumOfChosen, FS_EmptySet

LEMMA SumOfSingle == ASSUME NEW f, NEW x, f[x] \in Nat PROVE SumOf(f, {x}) = f[x]
<1>1. IsFiniteSet({x})
  BY FS_Singleton
<1>2. SumOf(f, {x}) = f[x] + SumOf(f, {x} \ {x})
  BY <1>1, SumOfOne
<1>3. {x} \ {x} = {}
  OBVIOUS
<1> QED
  BY <1>2, <1>3, SumOfNone

(* Sums whose terms agree.                                                 *)
LEMMA SumOfSame ==
    ASSUME NEW f, NEW g, NEW S, \A x \in S : f[x] = g[x]
    PROVE  SumOf(f, S) = SumOf(g, S)
<1>1. ASSUME NEW h PROVE SumOf(h, S) = (CHOOSE sum : IsSum(h, S, sum))[S]
  BY DEF SumOf, IsSum, One, MapThenSumSet, MapThenFoldSet
<1>2. ASSUME NEW sum PROVE IsSum(f, S, sum) <=> IsSum(g, S, sum)
  <2>1. \A s \in SUBSET S : s # {} => f[One(s)] = g[One(s)]
    BY OneIsIn
  <2> QED
    BY <2>1 DEF IsSum
<1>3. (CHOOSE sum : IsSum(f, S, sum)) = (CHOOSE sum : IsSum(g, S, sum))
  BY <1>2, Zenon
<1> QED
  BY <1>1, <1>3

(* A sum split in two.                                                     *)
LEMMA SumSplits ==
    ASSUME NEW f, NEW S, IsFiniteSet(S), \A x \in S : f[x] \in Nat, NEW T \in SUBSET S
    PROVE  SumOf(f, S) = SumOf(f, T) + SumOf(f, S \ T)
<1> DEFINE Bad == {s \in SUBSET T : SumOf(f, S) # SumOf(f, T \ s) + SumOf(f, (S \ T) \cup s)}
<1>1. \A s \in SUBSET S : IsFiniteSet(s) /\ SumOf(f, s) \in Nat
  BY FS_Subset, SumType
<1>2. Bad = {}
  <2> SUFFICES ASSUME Bad # {} PROVE FALSE
    OBVIOUS
  <2> DEFINE Left == {T \ s : s \in Bad}
  <2>1. PICK r \in Left : \A t \in Left : ~(t \subseteq r /\ t # r)
    <3>1. Left # {} /\ \A t \in Left : IsFiniteSet(t)
      BY <1>1
    <3> HIDE DEF Left
    <3> QED
      BY <3>1, SmallestSet
  <2>2. PICK s \in Bad : r = T \ s
    BY <2>1
  <2>3. CASE r = {}
    <3>1. (S \ T) \cup s = S
      BY <2>2, <2>3
    <3> QED
      BY <1>1, <2>2, <2>3, <3>1, SumOfNone
  <2>4. ASSUME NEW x \in r PROVE FALSE
    <3>1. s \cup {x} \notin Bad
      <4>1. T \ (s \cup {x}) \notin Left
        BY <2>1, <2>2, <2>4
      <4> QED
        BY <4>1
    <3>2. SumOf(f, S) = SumOf(f, T \ (s \cup {x})) + SumOf(f, (S \ T) \cup (s \cup {x}))
      BY <2>2, <2>4, <3>1
    <3>3. SumOf(f, T \ s) = f[x] + SumOf(f, (T \ s) \ {x})
      <4>1. IsFiniteSet(T \ s) /\ \A y \in T \ s : f[y] \in Nat
        BY <1>1
      <4> QED
        BY <2>2, <2>4, <4>1, SumOfOne
    <3>4. SumOf(f, (S \ T) \cup (s \cup {x})) = f[x] + SumOf(f, ((S \ T) \cup (s \cup {x})) \ {x})
      <4>1. (S \ T) \cup (s \cup {x}) \in SUBSET S
        BY <2>2, <2>4
      <4>2. IsFiniteSet((S \ T) \cup (s \cup {x})) /\ \A y \in (S \ T) \cup (s \cup {x}) : f[y] \in Nat
        BY <1>1, <4>1
      <4> QED
        BY <4>2, SumOfOne
    <3>5. (T \ s) \ {x} = T \ (s \cup {x}) /\ ((S \ T) \cup (s \cup {x})) \ {x} = (S \ T) \cup s
      BY <2>2, <2>4
    <3>6. /\ f[x] \in Nat /\ SumOf(f, T \ (s \cup {x})) \in Nat
          /\ SumOf(f, (S \ T) \cup s) \in Nat
      BY <1>1, <2>2, <2>4
    <3>7. SumOf(f, S) # SumOf(f, T \ s) + SumOf(f, (S \ T) \cup s)
      BY <2>2
    <3>8. /\ SumOf(f, (T \ s) \ {x}) = SumOf(f, T \ (s \cup {x}))
          /\ SumOf(f, ((S \ T) \cup (s \cup {x})) \ {x}) = SumOf(f, (S \ T) \cup s)
      BY <3>5
    <3> HIDE DEF Left, Bad
    <3> QED
      BY <3>2, <3>3, <3>4, <3>6, <3>7, <3>8
  <2> QED
    BY <2>3, <2>4
<1>3. {} \notin Bad
  BY <1>2
<1>4. T \ {} = T /\ (S \ T) \cup {} = S \ T
  OBVIOUS
<1> QED
  BY <1>3, <1>4

LEMMA SumOfFewer ==
    ASSUME NEW f, NEW S, IsFiniteSet(S), \A x \in S : f[x] \in Nat, NEW T \in SUBSET S
    PROVE  SumOf(f, T) <= SumOf(f, S)
<1>1. IsFiniteSet(T) /\ IsFiniteSet(S \ T)
  BY FS_Subset
<1>2. SumOf(f, T) \in Nat /\ SumOf(f, S \ T) \in Nat
  BY <1>1, SumType
<1> QED
  BY <1>2, SumSplits

(* Groups of terms that have no term in common: their sums are no more     *)
(* than the whole.                                                         *)
LEMMA SumOfGroups ==
    ASSUME NEW g, NEW T, IsFiniteSet(T), \A c \in T : g[c] \in Nat,
           NEW a, NEW K, IsFiniteSet(K), \A k \in K : a[k] \in Nat,
           NEW C \in [K -> SUBSET T], \A k, l \in K : k # l => C[k] \cap C[l] = {},
           \A k \in K : a[k] <= SumOf(g, C[k])
    PROVE  SumOf(a, K) <= SumOf(g, T)
<1> DEFINE U(s) == UNION {C[k] : k \in s}
           Bad  == {s \in SUBSET K : ~(SumOf(a, s) <= SumOf(g, U(s)))}
<1>1. \A s \in SUBSET K : IsFiniteSet(s) /\ SumOf(a, s) \in Nat
  BY FS_Subset, SumType
<1>2. \A t \in SUBSET T : IsFiniteSet(t) /\ SumOf(g, t) \in Nat
  BY FS_Subset, SumType
<1>3. \A s \in SUBSET K : U(s) \in SUBSET T
  OBVIOUS
<1>4. Bad = {}
  <2> SUFFICES ASSUME Bad # {} PROVE FALSE
    OBVIOUS
  <2>1. PICK s \in Bad : \A t \in Bad : ~(t \subseteq s /\ t # s)
    <3>1. \A s \in Bad : IsFiniteSet(s)
      BY <1>1
    <3> HIDE DEF Bad
    <3> QED
      BY <3>1, SmallestSet
  <2>2. s \in SUBSET K /\ ~(SumOf(a, s) <= SumOf(g, U(s)))
    OBVIOUS
  <2>3. CASE s = {}
    <3>1. SumOf(g, U(s)) \in Nat
      BY <1>2, <1>3, <2>2
    <3> HIDE DEF U
    <3> QED
      BY <2>2, <2>3, <3>1, SumOfNone
  <2>4. ASSUME NEW k \in s PROVE FALSE
    <3>1. s \ {k} \notin Bad
      BY <2>1, <2>4
    <3>2. SumOf(a, s \ {k}) <= SumOf(g, U(s \ {k}))
      BY <2>2, <3>1
    <3>3. SumOf(a, s) = a[k] + SumOf(a, s \ {k})
      BY <1>1, <2>2, <2>4, SumOfOne
    <3>4. C[k] \in SUBSET U(s) /\ U(s) \ C[k] = U(s \ {k})
      BY <2>2, <2>4
    <3>5. SumOf(g, U(s)) = SumOf(g, C[k]) + SumOf(g, U(s \ {k}))
      <4>1. U(s) \in SUBSET T
        BY <1>3, <2>2
      <4>2. IsFiniteSet(U(s)) /\ \A c \in U(s) : g[c] \in Nat
        BY <1>2, <4>1
      <4> HIDE DEF U
      <4>3. SumOf(g, U(s)) = SumOf(g, C[k]) + SumOf(g, U(s) \ C[k])
        BY <3>4, <4>2, SumSplits
      <4> QED
        BY <3>4, <4>3
    <3>6. /\ SumOf(g, C[k]) \in Nat /\ SumOf(g, U(s \ {k})) \in Nat /\ a[k] \in Nat
          /\ SumOf(a, s \ {k}) \in Nat /\ a[k] <= SumOf(g, C[k])
      <4>1. C[k] \in SUBSET T /\ U(s \ {k}) \in SUBSET T /\ s \ {k} \in SUBSET K
        BY <1>3, <2>2, <2>4
      <4> HIDE DEF U
      <4> QED
        BY <1>1, <1>2, <2>2, <2>4, <4>1
    <3> HIDE DEF U, Bad
    <3> QED
      BY <2>2, <3>2, <3>3, <3>5, <3>6
  <2> QED
    BY <2>3, <2>4
<1>5. SumOf(a, K) <= SumOf(g, U(K)) /\ U(K) \in SUBSET T
  BY <1>3, <1>4
<1> HIDE DEF U
<1>6. SumOf(g, U(K)) <= SumOf(g, T)
  BY <1>5, SumOfFewer
<1>7. SumOf(a, K) \in Nat /\ SumOf(g, U(K)) \in Nat /\ SumOf(g, T) \in Nat
  BY <1>1, <1>2, <1>5
<1> QED
  BY <1>5, <1>6, <1>7

(* Groups that leave no term out: the whole is no more than their sums.    *)
LEMMA SumOfCover ==
    ASSUME NEW g, NEW T, IsFiniteSet(T), \A c \in T : g[c] \in Nat,
           NEW b, NEW K, IsFiniteSet(K), \A k \in K : b[k] \in Nat,
           NEW C \in [K -> SUBSET T], \A c \in T : \E k \in K : c \in C[k],
           \A k \in K : SumOf(g, C[k]) <= b[k]
    PROVE  SumOf(g, T) <= SumOf(b, K)
<1> DEFINE U(s) == UNION {C[k] : k \in s}
           Bad  == {s \in SUBSET K : ~(SumOf(g, U(s)) <= SumOf(b, s))}
<1>1. \A s \in SUBSET K : IsFiniteSet(s) /\ SumOf(b, s) \in Nat
  BY FS_Subset, SumType
<1>2. \A t \in SUBSET T : IsFiniteSet(t) /\ SumOf(g, t) \in Nat
  BY FS_Subset, SumType
<1>3. \A s \in SUBSET K : U(s) \in SUBSET T
  OBVIOUS
<1>4. Bad = {}
  <2> SUFFICES ASSUME Bad # {} PROVE FALSE
    OBVIOUS
  <2>1. PICK s \in Bad : \A t \in Bad : ~(t \subseteq s /\ t # s)
    <3>1. \A s \in Bad : IsFiniteSet(s)
      BY <1>1
    <3> HIDE DEF Bad
    <3> QED
      BY <3>1, SmallestSet
  <2>2. s \in SUBSET K /\ ~(SumOf(g, U(s)) <= SumOf(b, s))
    OBVIOUS
  <2>3. CASE s = {}
    <3>1. U(s) = {}
      BY <2>3
    <3> HIDE DEF U
    <3> QED
      BY <2>2, <2>3, <3>1, SumOfNone
  <2>4. ASSUME NEW k \in s PROVE FALSE
    <3>1. s \ {k} \notin Bad
      BY <2>1, <2>4
    <3>2. SumOf(g, U(s \ {k})) <= SumOf(b, s \ {k})
      BY <2>2, <3>1
    <3>3. SumOf(b, s) = b[k] + SumOf(b, s \ {k})
      BY <1>1, <2>2, <2>4, SumOfOne
    <3>4. C[k] \in SUBSET U(s) /\ U(s) \ C[k] \in SUBSET U(s \ {k})
      BY <2>2, <2>4
    <3>5. /\ SumOf(g, U(s)) = SumOf(g, C[k]) + SumOf(g, U(s) \ C[k])
          /\ SumOf(g, U(s) \ C[k]) <= SumOf(g, U(s \ {k}))
      <4>1. U(s) \in SUBSET T /\ U(s \ {k}) \in SUBSET T
        BY <1>3, <2>2
      <4>2. /\ IsFiniteSet(U(s)) /\ \A c \in U(s) : g[c] \in Nat
            /\ IsFiniteSet(U(s \ {k})) /\ \A c \in U(s \ {k}) : g[c] \in Nat
        BY <1>2, <4>1
      <4> HIDE DEF U
      <4>3. SumOf(g, U(s)) = SumOf(g, C[k]) + SumOf(g, U(s) \ C[k])
        BY <3>4, <4>2, SumSplits
      <4>4. SumOf(g, U(s) \ C[k]) <= SumOf(g, U(s \ {k}))
        BY <3>4, <4>2, SumOfFewer
      <4> QED
        BY <4>3, <4>4
    <3>6. /\ SumOf(g, C[k]) \in Nat /\ SumOf(g, U(s \ {k})) \in Nat /\ b[k] \in Nat
          /\ SumOf(g, U(s) \ C[k]) \in Nat
          /\ SumOf(b, s \ {k}) \in Nat /\ SumOf(g, C[k]) <= b[k]
      <4>1. C[k] \in SUBSET T /\ U(s \ {k}) \in SUBSET T /\ s \ {k} \in SUBSET K
            /\ U(s) \ C[k] \in SUBSET T
        BY <1>3, <2>2, <2>4
      <4> HIDE DEF U
      <4> QED
        BY <1>1, <1>2, <2>2, <2>4, <4>1
    <3> HIDE DEF U, Bad
    <3> QED
      BY <2>2, <3>2, <3>3, <3>5, <3>6
  <2> QED
    BY <2>3, <2>4
<1>5. SumOf(g, U(K)) <= SumOf(b, K)
  BY <1>4
<1>6. T = U(K)
  BY <1>3
<1> HIDE DEF U
<1> QED
  BY <1>5, <1>6

(* Sums whose terms are no more than those of another.                     *)
LEMMA SumOfLess ==
    ASSUME NEW f, NEW g, NEW S, IsFiniteSet(S), \A x \in S : f[x] \in Nat /\ g[x] \in Nat /\ f[x] <= g[x]
    PROVE  SumOf(f, S) <= SumOf(g, S)
<1> DEFINE C == [x \in S |-> {x}]
<1>1. C \in [S -> SUBSET S] /\ \A k, l \in S : k # l => C[k] \cap C[l] = {}
  OBVIOUS
<1>2. \A k \in S : f[k] <= SumOf(g, C[k])
  BY SumOfSingle
<1> HIDE DEF C
<1> QED
  BY <1>1, <1>2, SumOfGroups

-----------------------------------------------------------------------------
(* Numbered lists (RowEditors): what the kinds of lists have in common.    *)
LEMMA EditorKinds ==
    ASSUME editor \in DOMAIN Editors!EditorTable
    PROVE  /\ Editors!E.step \in Nat \ {0} /\ Editors!E.keeps \in Nat
           /\ Editors!E.by \in {"row", "dialog"} /\ Editors!E.next \in {"last", "gap", "count"}
           /\ Editors!E.remote => Editors!E.by = "dialog"
           /\ Editors!E.next = "count" <=> editor = "matcher"
           /\ Editors!E.next = "count" => Editors!E.by = "row"
BY DEF Editors!E, Editors!EditorTable, Editors!Editor, Editors!RuleEditor,
       Editors!TranslationEditor, Editors!TemplateRules, Editors!PolicyClasses,
       Editors!ClassMatchers, Editors!ProfileProposals, Editors!TunnelList

LEMMA SameSizes ==
    \A S : /\ Editors!Cardinality(S) = Cardinality(S)
           /\ Editors!IsFiniteSet(S) <=> IsFiniteSet(S)
BY DEF Editors!Cardinality, Cardinality, Editors!IsFiniteSet, IsFiniteSet

(* A finite set of numbers has a greatest one.                             *)
LEMMA GreatestNatural ==
    ASSUME NEW S \in SUBSET Nat, IsFiniteSet(S), S # {}
    PROVE  \E g \in S : \A n \in S : n <= g
<1> DEFINE Up(n) == {m \in S : m >= n}
           U == {Up(n) : n \in S}
<1>1. U # {} /\ \A s \in U : IsFiniteSet(s)
  <2>1. \A n \in S : Up(n) \in SUBSET S /\ IsFiniteSet(Up(n))
    BY FS_Subset
  <2> HIDE DEF Up
  <2> QED
    BY <2>1
<1>2. PICK s \in U : \A t \in U : ~(t \subseteq s /\ t # s)
  <2> HIDE DEF U
  <2> QED
    BY <1>1, SmallestSet
<1>3. PICK g \in S : s = Up(g)
  BY <1>2
<1>4. ASSUME NEW n \in S, n > g PROVE FALSE
  <2>1. Up(n) \in U /\ Up(n) \subseteq s /\ g \in s /\ g \notin Up(n)
    <3>1. n \in Nat /\ g \in Nat /\ n >= n /\ g >= g /\ ~(g >= n)
      BY <1>4
    <3>2. \A m \in S : m >= n => m >= g
      BY <1>4, <3>1
    <3>3. Up(n) \in U
      OBVIOUS
    <3> HIDE DEF U
    <3> QED
      BY <1>3, <3>1, <3>2, <3>3
  <2> QED
    BY <1>2, <2>1
<1> QED
  BY <1>4

(* The numbers of finitely many rows, and that they are no more than these.*)
LEMMA NumbersAreFew ==
    ASSUME NEW s \in SUBSET Editors!Row, IsFiniteSet(s)
    PROVE  /\ Editors!Numbers(s) \in SUBSET Nat /\ IsFiniteSet(Editors!Numbers(s))
           /\ Cardinality(Editors!Numbers(s)) <= Cardinality(s)
<1> DEFINE f == [r \in s |-> r.nr]
<1>1. f \in Surjection(s, Editors!Numbers(s))
  BY DEF Surjection, Editors!Numbers
<1>2. Editors!Numbers(s) \in SUBSET Nat
  BY DEF Editors!Numbers, Editors!Row
<1> HIDE DEF f
<1> QED
  BY <1>1, <1>2, FS_Surjection

(* The number a new row gets is free, but where rows are counted.          *)
LEMMA NumberIsFree ==
    ASSUME editor \in DOMAIN Editors!EditorTable, editor # "matcher",
           NEW s \in SUBSET Editors!Row, IsFiniteSet(s)
    PROVE  Editors!NextNumber(s) \in Nat /\ Editors!NextNumber(s) \notin Editors!Numbers(s)
<1> DEFINE step == Editors!E.step
           taken == Editors!Numbers(s)
           n == Cardinality(s)
<1>1. step \in Nat \ {0} /\ n \in Nat /\ taken \in SUBSET Nat /\ IsFiniteSet(taken)
      /\ Cardinality(taken) <= n
  BY EditorKinds, NumbersAreFew, FS_CardinalityType
<1>2. Editors!E.next \in {"last", "gap"}
  BY EditorKinds
<1>3. CASE Editors!E.next = "last" /\ s = {}
  <2>1. Editors!NextNumber(s) = step
    BY <1>3 DEF Editors!NextNumber
  <2>2. taken = {}
    BY <1>3 DEF Editors!Numbers
  <2> QED
    BY <1>1, <2>1, <2>2
<1>4. CASE Editors!E.next = "last" /\ s # {}
  <2>1. taken # {}
    BY <1>4 DEF Editors!Numbers
  <2>2. Editors!Greatest(s) \in taken /\ \A m \in taken : m <= Editors!Greatest(s)
    <3>1. \E g \in taken : \A m \in taken : m <= g
      BY <1>1, <2>1, GreatestNatural
    <3> QED
      BY <3>1 DEF Editors!Greatest
  <2>3. Editors!NextNumber(s) = Editors!Greatest(s) + step
    BY <1>4 DEF Editors!NextNumber
  <2>4. Editors!Greatest(s) + step \in Nat /\ Editors!Greatest(s) + step \notin taken
    <3>1. PICK g : g = Editors!Greatest(s)
      OBVIOUS
    <3>2. g \in Nat /\ \A m \in taken : m \in Nat /\ m <= g
      BY <1>1, <2>2, <3>1
    <3> HIDE DEF step, taken
    <3> QED
      BY <1>1, <3>1, <3>2
  <2> QED
    BY <2>3, <2>4
<1>5. CASE Editors!E.next = "gap"
  <2> DEFINE Free == {k \in 1..n + 1 : step * k \notin taken}
  <2>1. Free # {}
    <3> SUFFICES ASSUME Free = {} PROVE FALSE
      OBVIOUS
    <3> DEFINE f == [k \in 1..n + 1 |-> step * k]
    <3>1. f \in [1..n + 1 -> taken]
      OBVIOUS
    <3>2. IsFiniteSet(1..n + 1) /\ Cardinality(1..n + 1) = n + 1
      <4> HIDE DEF n
      <4>1. n + 1 \in Int /\ ~(1 > n + 1) /\ (n + 1) - 1 + 1 = n + 1 /\ 1 \in Int
        BY <1>1
      <4>2. IsFiniteSet(1..n + 1)
            /\ Cardinality(1..n + 1) = IF 1 > n + 1 THEN 0 ELSE (n + 1) - 1 + 1
        BY <4>1, FS_Interval
      <4> QED
        BY <4>1, <4>2
    <3>3. Cardinality(taken) \in Nat
      BY <1>1, FS_CardinalityType
    <3>4. Cardinality(taken) < Cardinality(1..n + 1)
      BY <1>1, <3>2, <3>3
    <3>5. PICK x, y \in 1..n + 1 : x # y /\ f[x] = f[y]
      <4> HIDE DEF f, taken, n
      <4> QED
        BY <1>1, <3>1, <3>2, <3>4, FS_PigeonHole
    <3>6. step * x = step * y
      BY <3>5
    <3> HIDE DEF step, n, f, taken
    <3> QED
      BY <1>1, <3>5, <3>6
  <2>2. PICK k \in Free : \A j \in Free : k <= j
    <3>1. Free \in SUBSET Nat
      BY <1>1
    <3> HIDE DEF Free
    <3> QED
      BY <2>1, <3>1, LeastNatural
  <2>3. step * k \notin taken /\ \A j \in 1..k - 1 : step * j \in taken
    <3>1. k \in 1..n + 1 /\ \A j \in 1..k - 1 : j \in 1..n + 1 /\ ~(k <= j)
      BY <1>1
    <3> QED
      BY <2>2, <3>1
  <2>4. Editors!Gap(s) \in 1..n + 1 /\ step * Editors!Gap(s) \notin taken
    <3>1. \E j \in 1..Editors!Cardinality(s) + 1 :
             /\ Editors!E.step * j \notin Editors!Numbers(s)
             /\ \A l \in 1..j - 1 : Editors!E.step * l \in Editors!Numbers(s)
      BY <2>2, <2>3, SameSizes
    <3>2. /\ Editors!Gap(s) \in 1..Editors!Cardinality(s) + 1
          /\ Editors!E.step * Editors!Gap(s) \notin Editors!Numbers(s)
      BY <3>1, Zenon DEF Editors!Gap
    <3> QED
      BY <3>2, SameSizes
  <2>5. Editors!NextNumber(s) = step * Editors!Gap(s)
    BY <1>5 DEF Editors!NextNumber
  <2>6. step * Editors!Gap(s) \in Nat
    <3> HIDE DEF step, n
    <3> QED
      BY <1>1, <2>4
  <2> QED
    BY <2>4, <2>5, <2>6
<1> QED
  BY <1>2, <1>3, <1>4, <1>5


(* One more row, made by an edit later than all, under a number that is    *)
(* free where numbers matter.                                              *)
WithRow(s, n, e) == s \cup {[nr |-> n, body |-> e]}

LEMMA OneMoreRow ==
    ASSUME NEW s \in SUBSET Editors!Row, IsFiniteSet(s), NEW e \in Nat, NEW n \in Nat,
           \A r \in s : r.body < e, \A r, q \in s : r.body = q.body => r = q,
           NEW t, t = WithRow(s, n, e)
    PROVE  /\ t \in SUBSET Editors!Row /\ IsFiniteSet(t) /\ \A r \in t : r.body <= e
           /\ \A r, q \in t : r.body = q.body => r = q
           /\ \A r \in s : r.body \in Editors!Bodies(t)
           /\ \A r \in s, q \in t : r.body = q.body => r.nr = q.nr
           /\ Cardinality(t) = Cardinality(s) + 1
           /\ Editors!Distinct(s) /\ n \notin Editors!Numbers(s) => Editors!Distinct(t)
<1> DEFINE new == [nr |-> n, body |-> e]
<1>1. new \in Editors!Row /\ new.nr = n /\ new.body = e
  BY DEF Editors!Row
<1> HIDE DEF new, WithRow
<1>2. \A r \in s : r.nr \in Nat /\ r.body \in Int
  BY DEF Editors!Row
<1>3. new \notin s
  BY <1>1, <1>2
<1>4. IsFiniteSet(t) /\ Cardinality(t) = Cardinality(s) + 1
  BY <1>3, FS_AddElement DEF new, WithRow
<1>5. t \in SUBSET Editors!Row /\ \A r \in t : r.body <= e
  BY <1>1, <1>2 DEF new, WithRow
<1>6. \A r, q \in t : r.body = q.body => r = q
  BY <1>1, <1>2 DEF new, WithRow
<1>7. \A r \in s : r.body \in Editors!Bodies(t)
  BY DEF Editors!Bodies, WithRow
<1>8. \A r \in s, q \in t : r.body = q.body => r.nr = q.nr
  BY <1>6 DEF WithRow
<1>9. Editors!Distinct(s) /\ n \notin Editors!Numbers(s) => Editors!Distinct(t)
  <2>1. t = s \cup {new}
    BY DEF new, WithRow
  <2> QED
    BY <1>1, <2>1 DEF Editors!Distinct, Editors!Numbers
<1> QED
  BY <1>4, <1>5, <1>6, <1>7, <1>8, <1>9

(* Fewer rows.                                                             *)
LEMMA FewerRows ==
    ASSUME NEW s \in SUBSET Editors!Row, IsFiniteSet(s), NEW t \in SUBSET s,
           \A r, q \in s : r.body = q.body => r = q
    PROVE  /\ t \in SUBSET Editors!Row /\ IsFiniteSet(t)
           /\ \A r, q \in t : r.body = q.body => r = q
           /\ \A r \in s : r.body \notin Editors!Bodies(t) <=> r \notin t
           /\ \A r \in s, q \in t : r.body = q.body => r.nr = q.nr
           /\ Editors!Distinct(s) => Editors!Distinct(t)
           /\ \A r \in s : t = s \ {r} => Cardinality(t) = Cardinality(s) - 1
<1>1. IsFiniteSet(t)
  BY FS_Subset
<1>2. \A r \in s : r.body \notin Editors!Bodies(t) <=> r \notin t
  BY DEF Editors!Bodies
<1>3. \A r \in s : t = s \ {r} => Cardinality(t) = Cardinality(s) - 1
  BY FS_RemoveElement
<1>4. Editors!Distinct(s) => Editors!Distinct(t)
  BY DEF Editors!Distinct
<1> QED
  BY <1>1, <1>2, <1>3, <1>4

(* A row put by its number: what was there under it goes, and only that.   *)
LEMMA PutRow ==
    ASSUME NEW s \in SUBSET Editors!Row, IsFiniteSet(s), NEW e \in Nat, NEW n \in Nat,
           \A r \in s : r.body < e, \A r, q \in s : r.body = q.body => r = q,
           NEW t, t = Editors!Put(s, [nr |-> n, body |-> e])
    PROVE  /\ t \in SUBSET Editors!Row /\ IsFiniteSet(t) /\ \A r \in t : r.body <= e
           /\ \A r, q \in t : r.body = q.body => r = q
           /\ \A r \in s : r.body \notin Editors!Bodies(t) <=> r.nr = n
           /\ \A r \in s, q \in t : r.body = q.body => r.nr = q.nr
           /\ \E r \in t : r.body = e
           /\ Editors!Distinct(s) => Editors!Distinct(t)
           /\ \A r \in s : Editors!Distinct(s) /\ r.nr = n => Cardinality(t) = Cardinality(s)
<1> DEFINE new == [nr |-> n, body |-> e]
           left == {q \in s : q.nr # n}
<1>1. new \in Editors!Row /\ new.nr = n /\ new.body = e
  BY DEF Editors!Row
<1>2. t = left \cup {new}
  BY <1>1 DEF Editors!Put
<1>3. left \in SUBSET s /\ left \in SUBSET Editors!Row
  OBVIOUS
<1>4. /\ IsFiniteSet(left) /\ \A r, q \in left : r.body = q.body => r = q
      /\ \A r \in s : r.body \notin Editors!Bodies(left) <=> r \notin left
      /\ \A r \in s, q \in left : r.body = q.body => r.nr = q.nr
      /\ Editors!Distinct(s) => Editors!Distinct(left)
      /\ \A r \in s : left = s \ {r} => Cardinality(left) = Cardinality(s) - 1
  <2> HIDE DEF left
  <2> QED
    BY <1>3, FewerRows
<1>5. \A r \in left : r.body < e
  OBVIOUS
<1>6. n \notin Editors!Numbers(left)
  BY DEF Editors!Numbers
<1>7. \A r \in s : r.nr # n <=> r \in left
  OBVIOUS
<1> HIDE DEF left, new
<1>8. /\ t \in SUBSET Editors!Row /\ IsFiniteSet(t) /\ \A r \in t : r.body <= e
      /\ \A r, q \in t : r.body = q.body => r = q
      /\ Cardinality(t) = Cardinality(left) + 1
      /\ Editors!Distinct(left) => Editors!Distinct(t)
  <2>1. t = WithRow(left, n, e)
    BY <1>2 DEF new, WithRow
  <2>2. IsFiniteSet(left) /\ \A r, q \in left : r.body = q.body => r = q
    BY <1>4
  <2>3. PICK l : l = left
    OBVIOUS
  <2>4. l \in SUBSET Editors!Row /\ IsFiniteSet(l) /\ \A r \in l : r.body < e
    BY <1>3, <1>5, <2>2, <2>3
  <2>5. \A r, q \in l : r.body = q.body => r = q
    BY <2>2, <2>3
  <2>6. t = WithRow(l, n, e)
    BY <2>1, <2>3
  <2>7. t \in SUBSET Editors!Row
    BY <2>4, <2>5, <2>6, OneMoreRow
  <2>8. IsFiniteSet(t)
    BY <2>4, <2>5, <2>6, OneMoreRow
  <2>9. \A r \in t : r.body <= e
    BY <2>4, <2>5, <2>6, OneMoreRow
  <2>10. \A r, q \in t : r.body = q.body => r = q
    BY <2>4, <2>5, <2>6, OneMoreRow
  <2>11. Cardinality(t) = Cardinality(l) + 1
    BY <2>4, <2>5, <2>6, OneMoreRow
  <2>12. Editors!Distinct(l) /\ n \notin Editors!Numbers(l) => Editors!Distinct(t)
    BY <2>4, <2>5, <2>6, OneMoreRow
  <2> QED
    BY <1>6, <2>3, <2>7, <2>8, <2>9, <2>10, <2>11, <2>12
<1>9. \A r \in s : r.body \notin Editors!Bodies(t) <=> r.nr = n
  <2>1. \A r \in s : r.body # e
    BY DEF Editors!Row
  <2>2. Editors!Bodies(t) = Editors!Bodies(left) \cup {e}
    BY <1>1, <1>2 DEF Editors!Bodies
  <2> QED
    BY <1>4, <1>7, <2>1, <2>2
<1>10. \A r \in s, q \in t : r.body = q.body => r.nr = q.nr
  <2>1. \A r \in s : r.body # e
    BY DEF Editors!Row
  <2> QED
    BY <1>1, <1>2, <1>4, <2>1
<1>11. ASSUME NEW r \in s, Editors!Distinct(s), r.nr = n
       PROVE  Cardinality(t) = Cardinality(s)
  <2>1. left = s \ {r}
    BY <1>3, <1>7, <1>11 DEF Editors!Distinct
  <2>2. Cardinality(s) \in Nat
    BY FS_CardinalityType
  <2>3. Cardinality(left) = Cardinality(s) - 1
    BY <1>4, <2>1
  <2>4. Cardinality(t) = Cardinality(left) + 1
    BY <1>8
  <2> QED
    BY <2>2, <2>3, <2>4
<1> QED
  BY <1>1, <1>2, <1>4, <1>8, <1>9, <1>10, <1>11

(* One step of a list: the invariant stays, and what the properties say of *)
(* a step holds of it.                                                     *)
LEMMA EditorsStep ==
    ASSUME Editors!IInv, PartsAssumption, [Editors!Next]_editorVars
    PROVE  /\ Editors!IInv'
           /\ \A r \in Editors!Lost : Editors!Spared(r)
           /\ \A r \in rows, q \in rows' : (r.body = q.body /\ ~typed') => r.nr = q.nr
<1> DEFINE Sound == /\ rows' \in SUBSET Editors!Row /\ IsFiniteSet(rows')
                    /\ \A r \in rows' : r.body <= edits'
                    /\ \A r, q \in rows' : r.body = q.body => r = q
                    /\ Editors!NumbersDistinct'
           Rest == /\ editor' = editor /\ edits' \in Nat
                   /\ seen' \in SUBSET Editors!Row /\ IsFiniteSet(seen')
                   /\ Editors!E.remote \/ seen' = rows'
                   /\ draft' = None \/ Editors!Drafted'
           NoLoss == \A r \in Editors!Lost :
                \/ Editors!Lost = {r} /\ Cardinality(rows') = Cardinality(rows) - 1
                \/ draft # None /\ \/ draft.of = r.nr
                                   \/ draft.typed \/ draft.blind \/ draft.base # rows
                \/ /\ Editors!E.remote /\ UNCHANGED <<draft, seen>>
                   /\ Editors!Lost = {r} /\ Cardinality(rows') = Cardinality(rows)
           Stay == \A r \in rows, q \in rows' : (r.body = q.body /\ ~typed') => r.nr = q.nr
<1>1. /\ editor \in DOMAIN Editors!EditorTable /\ edits \in Nat
      /\ rows \in SUBSET Editors!Row /\ IsFiniteSet(rows)
      /\ \A r \in rows : r.body <= edits
      /\ \A r, q \in rows : r.body = q.body => r = q
      /\ seen \in SUBSET Editors!Row /\ IsFiniteSet(seen) /\ (Editors!E.remote \/ seen = rows)
      /\ Editors!NumbersDistinct
      /\ draft = None \/ Editors!Drafted
  BY SameSizes DEF Editors!IInv
<1>2. Typed \in SUBSET Nat
  BY PartsAssumption DEF PartsAssumption
<1>3. /\ Editors!E.by \in {"row", "dialog"}
      /\ Editors!E.remote => Editors!E.by = "dialog"
      /\ Editors!E.by = "dialog" => editor # "matcher"
      /\ editor = "matcher" => Editors!NextNumber(rows) = Cardinality(rows) + 1
  BY <1>1, EditorKinds, SameSizes DEF Editors!NextNumber
<1>4. Editors!NextNumber(rows) \in Nat /\ Editors!NextNumber(seen) \in Nat
  BY <1>1, <1>3, NumberIsFree, FS_CardinalityType
<1>5. editor # "matcher" => /\ Editors!NextNumber(rows) \notin Editors!Numbers(rows)
                            /\ Editors!NextNumber(seen) \notin Editors!Numbers(seen)
  BY <1>1, NumberIsFree
<1>6. ASSUME editor' = editor
      PROVE  /\ Editors!E' = Editors!E
             /\ Editors!NumbersDistinct' <=>
                  ((editor # "matcher" /\ (Editors!E.by = "row" => ~typed'))
                     => Editors!Distinct(rows'))
  BY <1>6 DEF Editors!E, Editors!NumbersDistinct, Editors!Distinct
<1>7. Editors!NumbersDistinct <=>
         ((editor # "matcher" /\ (Editors!E.by = "row" => ~typed)) => Editors!Distinct(rows))
  BY DEF Editors!NumbersDistinct
<1>8. Editors!Lost = {r \in rows : r.body \notin Editors!Bodies(rows')}
  BY DEF Editors!Lost, Editors!Bodies
<1>9. Editors!E.by = "dialog" => Editors!Distinct(rows)
  BY <1>1, <1>3, <1>7
<1>10. ASSUME edits' = edits + 1
       PROVE  edits' \in Nat /\ \A r \in rows : r.body < edits'
  BY <1>1, <1>10 DEF Editors!Row
<1>11. ASSUME editor' = editor, rows' = rows, edits' = edits \/ edits' = edits + 1,
              typed' = typed \/ Editors!E.by = "dialog"
       PROVE  Sound /\ NoLoss /\ Stay
  <2>1. \A r \in rows' : r.body <= edits'
    BY <1>1, <1>11 DEF Editors!Row
  <2>2. Editors!NumbersDistinct'
    BY <1>1, <1>6, <1>7, <1>9, <1>11
  <2>3. Editors!Lost = {}
    BY <1>8, <1>11 DEF Editors!Bodies
  <2> QED
    BY <1>1, <1>11, <2>1, <2>2, <2>3
<1>12. ASSUME editor' = editor, rows' \in SUBSET rows, edits' = edits + 1, typed' = typed
       PROVE  /\ Sound /\ Stay
              /\ Editors!Lost = rows \ rows'
              /\ \A r \in rows : rows' = rows \ {r} => Cardinality(rows') = Cardinality(rows) - 1
  <2>1. /\ rows' \in SUBSET Editors!Row /\ IsFiniteSet(rows')
        /\ \A r, q \in rows' : r.body = q.body => r = q
        /\ \A r \in rows : r.body \notin Editors!Bodies(rows') <=> r \notin rows'
        /\ \A r \in rows, q \in rows' : r.body = q.body => r.nr = q.nr
        /\ Editors!Distinct(rows) => Editors!Distinct(rows')
        /\ \A r \in rows : rows' = rows \ {r} => Cardinality(rows') = Cardinality(rows) - 1
    BY <1>1, <1>12, FewerRows
  <2>2. \A r \in rows' : r.body <= edits'
    BY <1>1, <1>10, <1>12 DEF Editors!Row
  <2>3. Editors!NumbersDistinct'
    BY <1>1, <1>6, <1>7, <1>12, <2>1
  <2>4. Editors!Lost = rows \ rows'
    BY <1>8, <2>1
  <2> QED
    BY <2>1, <2>2, <2>3, <2>4
<1>13. ASSUME NEW n \in Nat, editor' = editor, edits' = edits + 1, typed' = typed,
              Editors!E.by = "dialog",
              rows' = Editors!Put(rows, [nr |-> n, body |-> edits'])
       PROVE  /\ Sound /\ Stay /\ Editors!Lost = {r \in rows : r.nr = n}
              /\ \E r \in rows' : r.body = edits'
              /\ \A r \in rows : r.nr = n => Cardinality(rows') = Cardinality(rows)
  <2>1. /\ rows' \in SUBSET Editors!Row /\ IsFiniteSet(rows')
        /\ \A r \in rows' : r.body <= edits'
        /\ \A r, q \in rows' : r.body = q.body => r = q
        /\ \A r \in rows : r.body \notin Editors!Bodies(rows') <=> r.nr = n
        /\ \A r \in rows, q \in rows' : r.body = q.body => r.nr = q.nr
        /\ \E r \in rows' : r.body = edits'
        /\ Editors!Distinct(rows) => Editors!Distinct(rows')
        /\ \A r \in rows : Editors!Distinct(rows) /\ r.nr = n => Cardinality(rows') = Cardinality(rows)
    <3>1. edits' \in Nat /\ \A r \in rows : r.body < edits'
      BY <1>10, <1>13
    <3> QED
      BY <1>1, <1>13, <3>1, PutRow
  <2>2. Editors!NumbersDistinct'
    BY <1>6, <1>9, <1>13, <2>1
  <2>3. Editors!Lost = {r \in rows : r.nr = n}
    BY <1>8, <2>1
  <2> QED
    BY <1>9, <1>13, <2>1, <2>2, <2>3
<1>14. ASSUME Editors!AddRow
       PROVE  Sound /\ Rest /\ NoLoss /\ Stay
  <2>1. /\ Editors!E.by = "row" /\ edits' = edits + 1 /\ editor' = editor
        /\ draft' = draft /\ typed' = typed /\ seen' = rows'
        /\ rows' = rows \cup {[nr |-> Editors!NextNumber(rows), body |-> edits']}
    BY <1>3, <1>14 DEF Editors!AddRow, Editors!Edit, Editors!Show
  <2>2. /\ rows' \in SUBSET Editors!Row /\ IsFiniteSet(rows')
        /\ \A r \in rows' : r.body <= edits'
        /\ \A r, q \in rows' : r.body = q.body => r = q
        /\ \A r \in rows : r.body \in Editors!Bodies(rows')
        /\ \A r \in rows, q \in rows' : r.body = q.body => r.nr = q.nr
        /\ (Editors!Distinct(rows) /\ Editors!NextNumber(rows) \notin Editors!Numbers(rows))
              => Editors!Distinct(rows')
    <3>1. edits' \in Nat /\ \A r \in rows : r.body < edits'
      BY <1>10, <2>1
    <3>2. rows' = WithRow(rows, Editors!NextNumber(rows), edits')
      BY <2>1 DEF WithRow
    <3> QED
      BY <1>1, <1>4, <3>1, <3>2, OneMoreRow
  <2>3. Editors!NumbersDistinct'
    BY <1>1, <1>5, <1>6, <1>7, <2>1, <2>2
  <2>4. Editors!Lost = {}
    BY <1>8, <2>2
  <2>5. draft' = None
    BY <1>1, <2>1 DEF Editors!Drafted
  <2>6. edits' \in Nat
    BY <1>10, <2>1
  <2>7. Sound /\ Stay
    BY <2>2, <2>3
  <2>8. NoLoss
    BY <2>4
  <2>9. Rest
    BY <2>1, <2>2, <2>5, <2>6
  <2> HIDE DEF Sound, Rest, NoLoss, Stay
  <2> QED
    BY <2>7, <2>8, <2>9
<1>15. ASSUME NEW r \in seen, Editors!RemoveRow(r)
       PROVE  Sound /\ Rest /\ NoLoss /\ Stay
  <2>1. /\ edits' = edits + 1 /\ editor' = editor /\ seen' = (IF Editors!E.remote THEN seen ELSE rows')
        /\ draft = None /\ draft' = draft /\ typed' = typed
        /\ rows' = IF Editors!E.by = "row" THEN rows \ {r} ELSE {q \in rows : q.nr # r.nr}
    BY <1>15 DEF Editors!RemoveRow, Editors!Edit, Editors!Show
  <2>2. rows' \in SUBSET rows
    BY <2>1
  <2>3. /\ Sound /\ Stay /\ Editors!Lost = rows \ rows'
        /\ \A q \in rows : rows' = rows \ {q} => Cardinality(rows') = Cardinality(rows) - 1
    BY <1>12, <2>1, <2>2
  <2>4. ASSUME NEW q \in rows \ rows' PROVE rows' = rows \ {q}
    <3>1. CASE Editors!E.by = "row"
      BY <2>1, <2>4, <3>1
    <3>2. CASE Editors!E.by = "dialog"
      <4>1. rows' = {p \in rows : p.nr # r.nr} /\ q.nr = r.nr
        BY <2>1, <2>4, <3>2
      <4> QED
        BY <1>9, <2>4, <3>2, <4>1 DEF Editors!Distinct
    <3> QED
      BY <1>3, <3>1, <3>2
  <2>5. ASSUME NEW q \in Editors!Lost
        PROVE  Editors!Lost = {q} /\ Cardinality(rows') = Cardinality(rows) - 1
    <3>1. q \in rows \ rows' /\ rows' = rows \ {q}
      BY <2>3, <2>4, <2>5
    <3>2. Editors!Lost = {q}
      BY <2>3, <3>1
    <3> QED
      BY <2>3, <3>1, <3>2
  <2>6. NoLoss
    BY <2>5
  <2>7. edits' \in Nat
    BY <1>10, <2>1
  <2>8. seen' \in SUBSET Editors!Row /\ IsFiniteSet(seen') /\ (Editors!E.remote \/ seen' = rows')
    BY <1>1, <2>1, <2>3
  <2>9. Rest
    BY <2>1, <2>7, <2>8
  <2> HIDE DEF Sound, Rest, NoLoss, Stay
  <2> QED
    BY <2>3, <2>6, <2>9
<1>16. ASSUME NEW r \in seen, NEW n \in Typed, Editors!RetypeRow(r, n)
       PROVE  Sound /\ Rest /\ NoLoss /\ Stay
  <2> DEFINE new == [r EXCEPT !.nr = n]
  <2>1. /\ Editors!E.by = "row" /\ edits' = edits + 1 /\ editor' = editor
        /\ draft' = draft /\ typed' = TRUE /\ seen' = rows' /\ r \in rows
        /\ rows' = (rows \ {r}) \cup {new}
    BY <1>1, <1>3, <1>16 DEF Editors!RetypeRow, Editors!Edit, Editors!Show
  <2>2. new \in Editors!Row /\ new.body = r.body
    BY <1>1, <1>2, <2>1 DEF Editors!Row
  <2> HIDE DEF new
  <2>3. edits' \in Nat /\ \A q \in rows : q.body < edits' /\ q.body \in Int
    BY <1>1, <1>10, <2>1 DEF Editors!Row
  <2>4. IsFiniteSet(rows')
    BY <1>1, <2>1, FS_AddElement, FS_RemoveElement
  <2>5. /\ rows' \in SUBSET Editors!Row
        /\ \A q \in rows' : \E p \in rows : q.body = p.body
    BY <1>1, <2>1, <2>2
  <2>6. \A q \in rows' : q.body <= edits'
    BY <2>3, <2>5
  <2>7. \A p, q \in rows' : p.body = q.body => p = q
    BY <1>1, <2>1, <2>2
  <2>8. Editors!NumbersDistinct'
    BY <1>6, <2>1
  <2>9. Editors!Lost = {}
    <3>1. \A q \in rows : \E p \in rows' : q.body = p.body
      BY <2>1, <2>2
    <3> QED
      BY <1>8, <3>1 DEF Editors!Bodies
  <2>10. draft' = None
    BY <1>1, <2>1 DEF Editors!Drafted
  <2>11. Sound
    BY <2>4, <2>5, <2>6, <2>7, <2>8
  <2>12. NoLoss
    BY <2>9
  <2>13. Stay
    BY <2>1
  <2>14. Rest
    BY <2>1, <2>3, <2>4, <2>5, <2>10
  <2> HIDE DEF Sound, Rest, NoLoss, Stay
  <2> QED
    BY <2>11, <2>12, <2>13, <2>14
<1>17. ASSUME Editors!OpenNew
       PROVE  Sound /\ Rest /\ NoLoss /\ Stay
  <2>1. /\ Editors!E.by = "dialog" /\ editor' = editor /\ rows' = rows /\ seen' = seen
        /\ typed' = typed /\ edits' = edits
        /\ draft' = Editors!Draft(Editors!NextNumber(seen), None)
    BY <1>17 DEF Editors!OpenNew
  <2>2. /\ draft'.nr = Editors!NextNumber(seen) /\ draft'.base = rows
        /\ draft'.blind <=> seen # rows
    BY <2>1 DEF Editors!Draft
  <2>3. draft' \in [nr : Nat, of : Nat \cup {None}, base : SUBSET Editors!Row,
                    blind : BOOLEAN, typed : BOOLEAN]
    BY <1>1, <1>4, <2>1 DEF Editors!Draft
  <2>4. ~draft'.blind => draft'.nr \notin Editors!Numbers(rows)
    BY <1>3, <1>5, <2>1, <2>2
  <2>5. Editors!Drafted'
    BY <1>1, <1>6, <2>1, <2>2, <2>3, <2>4 DEF Editors!Drafted, Editors!Numbers
  <2>6. Sound /\ NoLoss /\ Stay
    BY <1>11, <2>1
  <2>7. Rest
    BY <1>1, <2>1, <2>5
  <2> HIDE DEF Sound, Rest, NoLoss, Stay
  <2> QED
    BY <2>6, <2>7
<1>18. ASSUME NEW r \in seen, Editors!OpenRow(r)
       PROVE  Sound /\ Rest /\ NoLoss /\ Stay
  <2>1. /\ Editors!E.by = "dialog" /\ editor' = editor /\ rows' = rows /\ seen' = seen
        /\ typed' = typed /\ edits' = edits
        /\ draft' = Editors!Draft(r.nr, r.nr)
    BY <1>18 DEF Editors!OpenRow
  <2>2. draft'.nr = r.nr /\ draft'.of = r.nr /\ draft'.base = rows /\ r.nr \in Nat
    BY <1>1, <2>1 DEF Editors!Draft, Editors!Row
  <2>3. draft' \in [nr : Nat, of : Nat \cup {None}, base : SUBSET Editors!Row,
                    blind : BOOLEAN, typed : BOOLEAN]
    BY <1>1, <2>1, <2>2 DEF Editors!Draft
  <2>4. Editors!Drafted'
    BY <1>1, <1>6, <2>1, <2>2, <2>3 DEF Editors!Drafted
  <2>5. Sound /\ NoLoss /\ Stay
    BY <1>11, <2>1
  <2>6. Rest
    BY <1>1, <2>1, <2>4
  <2> HIDE DEF Sound, Rest, NoLoss, Stay
  <2> QED
    BY <2>5, <2>6
<1>19. ASSUME NEW n \in Typed, Editors!RetypeDraft(n)
       PROVE  Sound /\ Rest /\ NoLoss /\ Stay
  <2>1. /\ draft # None /\ editor' = editor /\ rows' = rows /\ seen' = seen
        /\ edits' = edits + 1
        /\ draft' = [draft EXCEPT !.nr = n, !.typed = TRUE]
    BY <1>19 DEF Editors!RetypeDraft, Editors!Edit
  <2>2. /\ Editors!E.by = "dialog" /\ \A q \in draft.base : q.body <= edits
        /\ draft \in [nr : Nat, of : Nat \cup {None}, base : SUBSET Editors!Row,
                      blind : BOOLEAN, typed : BOOLEAN]
    BY <1>1, <2>1 DEF Editors!Drafted
  <2>3. /\ draft' \in [nr : Nat, of : Nat \cup {None}, base : SUBSET Editors!Row,
                       blind : BOOLEAN, typed : BOOLEAN]
        /\ draft'.typed /\ draft'.base = draft.base
    BY <1>2, <2>1, <2>2
  <2>4. edits' \in Nat /\ \A q \in draft'.base : q.body <= edits'
    BY <1>1, <2>1, <2>2, <2>3 DEF Editors!Row
  <2>5. Editors!Drafted'
    BY <1>6, <2>1, <2>2, <2>3, <2>4 DEF Editors!Drafted
  <2>6. Sound /\ NoLoss /\ Stay
    BY <1>11, <2>1, <2>2
  <2>7. Rest
    BY <1>1, <2>1, <2>4, <2>5
  <2> HIDE DEF Sound, Rest, NoLoss, Stay
  <2> QED
    BY <2>6, <2>7
<1>20. ASSUME Editors!Close \/ Editors!Reload \/ UNCHANGED editorVars
       PROVE  Sound /\ Rest /\ NoLoss /\ Stay
  <2>1. /\ editor' = editor /\ rows' = rows /\ typed' = typed /\ edits' = edits
        /\ seen' \in {seen, rows} /\ draft' \in {draft, None}
    BY <1>20 DEF Editors!Close, Editors!Reload, editorVars
  <2>2. draft' = None \/ Editors!Drafted'
    BY <1>1, <1>6, <2>1 DEF Editors!Drafted, Editors!Numbers
  <2>3. Sound /\ NoLoss /\ Stay
    BY <1>11, <2>1
  <2>4. Rest
    BY <1>1, <2>1, <2>2
  <2> HIDE DEF Sound, Rest, NoLoss, Stay
  <2> QED
    BY <2>3, <2>4
<1>21. ASSUME Editors!Save
       PROVE  Sound /\ Rest /\ NoLoss /\ Stay
  <2>1. /\ draft # None /\ draft' = None /\ editor' = editor /\ typed' = typed
        /\ edits' = edits + 1 /\ seen' = (IF Editors!E.remote THEN seen ELSE rows')
        /\ rows' = Editors!Put(rows, [nr |-> draft.nr, body |-> edits'])
    BY <1>21 DEF Editors!Save, Editors!Edit, Editors!Show
  <2>2. /\ Editors!E.by = "dialog" /\ draft.nr \in Nat
        /\ (~draft.typed /\ ~draft.blind /\ draft.base = rows)
              => draft.nr = draft.of \/ draft.nr \notin Editors!Numbers(rows)
    BY <1>1, <2>1 DEF Editors!Drafted
  <2>3. Sound /\ Stay /\ Editors!Lost = {r \in rows : r.nr = draft.nr}
    BY <1>13, <2>1, <2>2
  <2>4. ASSUME NEW r \in Editors!Lost
        PROVE  draft.of = r.nr \/ draft.typed \/ draft.blind \/ draft.base # rows
    <3>1. r \in rows /\ r.nr = draft.nr /\ r.nr \in Editors!Numbers(rows)
      BY <2>3, <2>4 DEF Editors!Numbers
    <3> QED
      BY <2>2, <3>1
  <2>5. NoLoss
    BY <2>1, <2>4
  <2>6. edits' \in Nat
    BY <1>10, <2>1
  <2>7. seen' \in SUBSET Editors!Row /\ IsFiniteSet(seen') /\ (Editors!E.remote \/ seen' = rows')
    BY <1>1, <2>1, <2>3
  <2>8. Rest
    BY <2>1, <2>6, <2>7
  <2> HIDE DEF Sound, Rest, NoLoss, Stay
  <2> QED
    BY <2>3, <2>5, <2>8
<1>22. ASSUME NEW n \in Typed, Editors!Outside(n)
       PROVE  Sound /\ Rest /\ NoLoss /\ Stay
  <2>1. /\ Editors!E.remote /\ Editors!E.by = "dialog" /\ n \in Nat
        /\ editor' = editor /\ typed' = typed /\ seen' = seen /\ draft' = draft
        /\ edits' = edits + 1
        /\ rows' = Editors!Put(rows, [nr |-> n, body |-> edits'])
    BY <1>2, <1>3, <1>22 DEF Editors!Outside, Editors!Edit
  <2>2. /\ Sound /\ Stay /\ Editors!Lost = {r \in rows : r.nr = n}
        /\ \E r \in rows' : r.body = edits'
        /\ \A r \in rows : r.nr = n => Cardinality(rows') = Cardinality(rows)
    BY <1>13, <2>1
  <2>3. ASSUME NEW r \in Editors!Lost
        PROVE  Editors!Lost = {r} /\ Cardinality(rows') = Cardinality(rows)
    BY <1>9, <2>1, <2>2, <2>3 DEF Editors!Distinct
  <2>4. NoLoss
    BY <2>1, <2>3
  <2>5. edits' \in Nat
    BY <1>10, <2>1
  <2>6. ASSUME draft # None PROVE Editors!Drafted'
    <3>1. /\ draft \in [nr : Nat, of : Nat \cup {None}, base : SUBSET Editors!Row,
                        blind : BOOLEAN, typed : BOOLEAN]
          /\ \A q \in draft.base : q.body <= edits
      BY <1>1, <2>6 DEF Editors!Drafted
    <3>2. \A q \in draft.base : q.body < edits' /\ q.body <= edits'
      BY <1>1, <2>1, <3>1 DEF Editors!Row
    <3>3. draft.base # rows'
      BY <2>2, <2>5, <3>2
    <3> QED
      BY <1>6, <2>1, <3>1, <3>2, <3>3 DEF Editors!Drafted
  <2>7. Rest
    BY <1>1, <2>1, <2>5, <2>6
  <2> HIDE DEF Sound, Rest, NoLoss, Stay
  <2> QED
    BY <2>2, <2>4, <2>7
<1>23. Sound /\ Rest /\ NoLoss /\ Stay
  <2> HIDE DEF Sound, Rest, NoLoss, Stay
  <2>1. CASE \E r \in seen : Editors!RemoveRow(r) \/ Editors!OpenRow(r)
    BY <1>15, <1>18, <2>1
  <2>2. CASE \E r \in seen, n \in Typed : Editors!RetypeRow(r, n)
    BY <1>16, <2>2
  <2>3. CASE \E n \in Typed : Editors!RetypeDraft(n) \/ Editors!Outside(n)
    BY <1>19, <1>22, <2>3
  <2> QED
    BY <1>14, <1>17, <1>20, <1>21, <2>1, <2>2, <2>3 DEF Editors!Next
<1>24. Editors!IInv'
  <2>1. editor' \in DOMAIN Editors!EditorTable /\ (Editors!E.remote)' = Editors!E.remote
    BY <1>1, <1>6, <1>23
  <2> QED
    BY <1>23, <2>1, SameSizes DEF Editors!IInv
<1>25. \A r \in Editors!Lost : Editors!Spared(r)
  BY <1>23, SameSizes DEF Editors!Spared
<1> QED
  BY <1>23, <1>24, <1>25

(***************************************************************************)
(* No save of a row costs another row, rows never share a number but where *)
(* it was typed or is counted, and no row changes its number unasked       *)
(* (RuleSetEditor, NAT, QoS, Audit.tsx, TunnelListEditor).  The argument:  *)
(* no two rows share the edit that made them, and the number in a dialog   *)
(* nobody typed into is free, or its own row's, as long as the list is the *)
(* one the dialog was opened over.                                         *)
(***************************************************************************)
THEOREM KeepsRows == PartsSpec => RowsAreKept
<1> USE PartsAssumption
<1>1. PartsInit => Editors!IInv
  <2> SUFFICES ASSUME PartsInit PROVE Editors!IInv
    OBVIOUS
  <2>1. /\ editor \in DOMAIN Editors!EditorTable /\ edits = 0 /\ typed = FALSE
        /\ draft = None
        /\ seen = IF Editors!E.remote THEN {} ELSE rows
    BY DEF PartsInit, Editors!Init
  <2>2. PICK N \in SUBSET Given : rows = {[nr |-> n, body |-> -n] : n \in N}
    BY DEF PartsInit, Editors!Init
  <2>3. IsFiniteSet(N) /\ N \in SUBSET Nat
    BY <2>2, FS_Subset DEF PartsAssumption
  <2>4. /\ rows \in SUBSET Editors!Row /\ \A r \in rows : r.body <= 0
        /\ \A r, q \in rows : r.body = q.body => r = q
        /\ \A r, q \in rows : r.nr = q.nr => r = q
    BY <2>2, <2>3 DEF Editors!Row
  <2>5. IsFiniteSet(rows)
    <3> DEFINE f == [n \in N |-> [nr |-> n, body |-> -n]]
    <3>1. f \in Surjection(N, rows)
      BY <2>2 DEF Surjection
    <3> HIDE DEF f
    <3> QED
      BY <2>3, <3>1, FS_Surjection
  <2>6. Editors!NumbersDistinct
    BY <2>4 DEF Editors!NumbersDistinct, Editors!Distinct
  <2>7. seen \in SUBSET Editors!Row /\ IsFiniteSet(seen) /\ (Editors!E.remote \/ seen = rows)
    BY <2>1, <2>4, <2>5, FS_EmptySet
  <2> QED
    BY <2>1, <2>4, <2>5, <2>6, <2>7, SameSizes DEF Editors!IInv
<1>2. Editors!IInv /\ [PartsNext]_partsVars => Editors!IInv'
  BY PartsStep, EditorsStep
<1> DEFINE Kept == \A r \in Editors!Lost : Editors!Spared(r)
           Stay == \A r \in rows, q \in rows' : (r.body = q.body /\ ~typed') => r.nr = q.nr
           Apart == Editors!NumbersDistinct'
<1>3. Editors!IInv /\ [PartsNext]_partsVars => [Kept]_editorVars /\ [Stay]_editorVars
  BY PartsStep, EditorsStep
<1>4. Editors!IInv' => [Apart]_editorVars
  BY DEF Editors!IInv
<1>5. RowsAreKept <=> [][Apart]_editorVars /\ [][Kept]_editorVars /\ [][Stay]_editorVars
  BY PTL DEF RowsAreKept, Editors!RowsAreKept, Editors!NoRowIsLost, Editors!NumbersStay,
             editorVars, Editors!vars
<1> HIDE DEF Kept, Stay, Apart
<1> QED
  BY <1>1, <1>2, <1>3, <1>4, <1>5, PTL DEF PartsSpec

-----------------------------------------------------------------------------
(* Days and months of the usage accounting (UsagePeriods).                 *)
LEMMA BothStep ==
    ASSUME [BothNext]_bothVars
    PROVE  [Hours!Next]_hourVars /\ [Periods!Next]_periodVars
BY DEF BothNext, bothVars, OnHours, OnDays

(* Where the period of an hour begins.                                     *)
LEMMA PeriodBegins ==
    ASSUME NEW type \in Periods!Types
    PROVE  /\ Periods!Length(type) \in Nat \ {0}
           /\ \A h \in Nat : LET start == Periods!periodStart(h, type)
                             IN  start \in Int /\ start <= h /\ h < start + Periods!Length(type)
<1>1. HoursPerDay \in Nat \ {0} /\ DaysPerMonth \in Nat \ {0}
  BY ScaleAssumption DEF ScaleAssumption
<1>2. HoursPerDay * DaysPerMonth \in Nat \ {0}
  BY <1>1
<1>3. Periods!Length(type) \in Nat \ {0}
  BY <1>1, <1>2 DEF Periods!Length, Periods!Types
<1>4. ASSUME NEW h \in Nat
      PROVE  h % Periods!Length(type) \in 0..(Periods!Length(type) - 1)
  BY <1>3
<1> QED
  BY <1>3, <1>4 DEF Periods!periodStart

(* The hours read for the two periods that are written are all of theirs.  *)
LEMMA LooksBackFarEnough ==
    ASSUME NEW type \in Periods!Types, NEW from \in Nat, NEW h \in Nat,
           Periods!periodStart(h, type) >= Periods!Prior(from, type)
    PROVE  h >= Periods!LookbackStart(from, type)
<1>1. Periods!periodStart(h, type) \in Int /\ Periods!periodStart(h, type) <= h
  BY PeriodBegins
<1>2. Periods!periodStart(from, type) \in Int
      /\ from < Periods!periodStart(from, type) + Periods!Length(type)
      /\ Periods!Length(type) \in Nat
  BY PeriodBegins
<1>3. h >= Periods!Prior(from, type) /\ Periods!Prior(from, type) \in Int
      /\ Periods!Prior(from, type) > from - 2 * Periods!Length(type)
  BY <1>1, <1>2 DEF Periods!Prior
<1>4. CASE type = "day"
  <2>1. Periods!Length(type) = HoursPerDay /\ DayLookback \in Nat /\ DayLookback >= 2 * HoursPerDay
        /\ HoursPerDay \in Nat
    BY <1>4, ScaleAssumption, LookbackAssumption
    DEF Periods!Length, ScaleAssumption, LookbackAssumption
  <2>2. Periods!LookbackStart(from, type) = from - DayLookback
    BY <1>4 DEF Periods!LookbackStart
  <2> QED
    BY <1>3, <2>1, <2>2
<1>5. CASE type # "day"
  BY <1>3, <1>5 DEF Periods!LookbackStart
<1> QED
  BY <1>4, <1>5

(* Every total computed is that of the whole period, and every period from *)
(* the one before the current one on is computed.                          *)
LEMMA RollIsWhole ==
    ASSUME DOMAIN hourly \subseteq Nat, NEW type \in Periods!Types, NEW from \in Nat,
           NEW hours, hours = {h \in DOMAIN hourly : h >= Periods!LookbackStart(from, type)}
    PROVE  /\ \A r \in Periods!aggregateHourly(hours, type) :
                 /\ r.key = <<type, r.key[2]>>
                 /\ r.key[2] >= Periods!Prior(from, type)
                       => r.rx = Periods!TotalOf(type, r.key[2], DOMAIN hourly)
           /\ \A h \in DOMAIN hourly :
                 LET start == Periods!periodStart(h, type)
                 IN  start >= Periods!Prior(from, type)
                       => \E r \in Periods!aggregateHourly(hours, type) : r.key = <<type, start>>
<1>1. ASSUME NEW r \in Periods!aggregateHourly(hours, type)
      PROVE  /\ r.key = <<type, r.key[2]>>
             /\ r.key[2] >= Periods!Prior(from, type)
                   => r.rx = Periods!TotalOf(type, r.key[2], DOMAIN hourly)
  <2>1. PICK start : r = [key |-> <<type, start>>, rx |-> Periods!TotalOf(type, start, hours)]
    BY DEF Periods!aggregateHourly
  <2>2. r.key = <<type, start>> /\ r.key[2] = start /\ r.rx = Periods!TotalOf(type, start, hours)
    BY <2>1
  <2>3. ASSUME start >= Periods!Prior(from, type)
        PROVE  Periods!TotalOf(type, start, hours) = Periods!TotalOf(type, start, DOMAIN hourly)
    <3>1. {h \in hours : Periods!periodStart(h, type) = start}
             = {h \in DOMAIN hourly : Periods!periodStart(h, type) = start}
      BY <2>3, LooksBackFarEnough
    <3> QED
      BY <3>1 DEF Periods!TotalOf
  <2> QED
    BY <2>2, <2>3
<1>2. ASSUME NEW h \in DOMAIN hourly, Periods!periodStart(h, type) >= Periods!Prior(from, type)
      PROVE  \E r \in Periods!aggregateHourly(hours, type) :
                r.key = <<type, Periods!periodStart(h, type)>>
  <2> DEFINE start == Periods!periodStart(h, type)
             r == [key |-> <<type, start>>, rx |-> Periods!TotalOf(type, start, hours)]
  <2>1. h \in hours
    BY <1>2, LooksBackFarEnough
  <2>2. r \in Periods!aggregateHourly(hours, type)
    BY <2>1 DEF Periods!aggregateHourly
  <2>3. r.key = <<type, start>>
    OBVIOUS
  <2> HIDE DEF r
  <2> QED
    BY <2>2, <2>3
<1> QED
  BY <1>1, <1>2

LEMMA ClockStep == Periods!Clock /\ [Periods!Next]_periodVars => Periods!Clock'
<1> SUFFICES ASSUME Periods!Clock, [Periods!Next]_periodVars PROVE Periods!Clock'
  OBVIOUS
<1> USE DEF Periods!Clock
<1>1. CASE UNCHANGED periodVars
  BY <1>1 DEF periodVars
<1>2. CASE Periods!Tick \/ Periods!Restart \/ Periods!BeginIteration \/ Periods!SetUsage
  BY <1>2 DEF Periods!Tick, Periods!Restart, Periods!BeginIteration, Periods!SetUsage
<1>3. CASE Periods!WriteHour
  <2>1. PICK h \in Nat : DOMAIN hourly' = DOMAIN hourly \cup {h}
    BY <1>3 DEF Periods!WriteHour, Periods!Upsert
  <2> QED
    BY <1>3, <2>1 DEF Periods!WriteHour
<1>4. CASE Periods!runDailyMonthlyRollup
  BY <1>4 DEF Periods!runDailyMonthlyRollup, Periods!Roll
<1> QED
  BY <1>1, <1>2, <1>3, <1>4 DEF Periods!Next

(***************************************************************************)
(* However long days, months and the hours between iterations are, and     *)
(* whatever fails: a day or month is only ever computed from all of its    *)
(* hours (usage_aggregate.go:54).                                          *)
(***************************************************************************)
THEOREM ComputesWholePeriods == BothSpec => WholePeriods
<1> DEFINE A == \A r \in pending' \ pending :
                    r.rx = Periods!TotalOf(r.key[1], r.key[2], DOMAIN hourly)
<1>1. BothInit => Periods!Clock
  BY DEF BothInit, Periods!Init, Periods!Clock
<1>2. Periods!Clock /\ [BothNext]_bothVars => Periods!Clock'
  BY BothStep, ClockStep
<1>3. ASSUME Periods!Clock, [BothNext]_bothVars PROVE [A]_periodVars
  <2> SUFFICES ASSUME NEW r \in pending' \ pending
               PROVE  r.rx = Periods!TotalOf(r.key[1], r.key[2], DOMAIN hourly)
    OBVIOUS
  <2>1. Periods!runDailyMonthlyRollup
    BY <1>3, BothStep DEF periodVars, Periods!Next, Periods!Tick, Periods!Restart,
         Periods!BeginIteration, Periods!WriteHour, Periods!SetUsage
  <2>2. PICK type \in Periods!Types, from \in Nat :
          pending' = {q \in Periods!aggregateHourly(
                         {h \in DOMAIN hourly : h >= Periods!LookbackStart(from, type)}, type) :
                      q.key[2] >= Periods!Prior(from, type)}
    BY <1>3, <2>1 DEF Periods!runDailyMonthlyRollup, Periods!Roll, Periods!Clock, Periods!Types
  <2> QED
    BY <1>3, <2>2, RollIsWhole DEF Periods!Clock
<1>4. WholePeriods <=> [][A]_periodVars
  BY PTL DEF WholePeriods, Periods!WholePeriods, periodVars, Periods!vars
<1> HIDE DEF A
<1> QED
  BY <1>1, <1>2, <1>3, <1>4, PTL DEF BothSpec

(* UsagePeriods' invariant as a formula about any values, to speak of two  *)
(* states.                                                                 *)
TotalIn(table, type, start) ==
    SumOf(table, {h \in DOMAIN table : Periods!periodStart(h, type) = start})

AgreesIn(table, sums, type, start) ==
    /\ <<type, start>> \in DOMAIN sums
    /\ sums[<<type, start>>] = TotalIn(table, type, start)

UpToDateIn(table, sums, stage, begun, rest, clock, ended) ==
    /\ stage \in {"idle", "hour", "day", "month"}
    /\ ended => stage = "idle"
    /\ stage \in Periods!Types => begun = clock
    /\ stage \notin Periods!Types => rest = {}
    /\ \A r \in rest : r.key = <<stage, r.key[2]>> /\ r.rx = TotalIn(table, stage, r.key[2])
    /\ \A h \in DOMAIN table, type \in Periods!Types :
          LET start == Periods!periodStart(h, type)
          IN  /\ (start < Periods!Prior(clock, type) \/ ended \/ (type = "day" /\ stage = "month"))
                    => AgreesIn(table, sums, type, start)
              /\ type = stage => \/ AgreesIn(table, sums, type, start)
                                 \/ \E r \in rest : r.key = <<type, start>>

LEMMA TotalsRead ==
    \A type, start : Periods!TotalOf(type, start, DOMAIN hourly) = TotalIn(hourly, type, start)
BY DEF Periods!TotalOf, TotalIn, SumOf, MapThenSumSet, MapThenFoldSet,
   Periods!MapThenSumSet, Periods!MapThenFoldSet

LEMMA UpToDateReads ==
    /\ Periods!UpToDate <=> UpToDateIn(hourly, totals, pc, at, pending, hour, fresh)
    /\ Periods!UpToDate' <=> UpToDateIn(hourly', totals', pc', at', pending', hour', fresh')
<1>1. Periods!UpToDate <=> UpToDateIn(hourly, totals, pc, at, pending, hour, fresh)
  BY TotalsRead DEF Periods!UpToDate, UpToDateIn, AgreesIn, Periods!Agrees
<1>2. (Periods!UpToDate <=> UpToDateIn(hourly, totals, pc, at, pending, hour, fresh))'
  BY <1>1, PTL
<1> QED
  BY <1>1, <1>2

(* A total stays while the hours of its period do.                         *)
LEMMA TotalStays ==
    ASSUME NEW table, NEW other, NEW type, NEW start,
           {h \in DOMAIN other : Periods!periodStart(h, type) = start}
              = {h \in DOMAIN table : Periods!periodStart(h, type) = start},
           \A h \in DOMAIN table : Periods!periodStart(h, type) = start => other[h] = table[h]
    PROVE  TotalIn(other, type, start) = TotalIn(table, type, start)
<1> DEFINE S == {h \in DOMAIN table : Periods!periodStart(h, type) = start}
<1>1. \A h \in S : other[h] = table[h]
  OBVIOUS
<1>2. TotalIn(table, type, start) = SumOf(table, S) /\ TotalIn(other, type, start) = SumOf(other, S)
  BY DEF TotalIn
<1> HIDE DEF S
<1> QED
  BY <1>1, <1>2, SumOfSame

(* The two hours an iteration writes are of the two periods it computes.   *)
LEMMA WrittenIsRecent ==
    ASSUME NEW type \in Periods!Types, NEW from \in Nat, NEW h \in Nat, h = from \/ h = from - 1
    PROVE  Periods!periodStart(h, type) >= Periods!Prior(from, type)
<1> DEFINE L == Periods!Length(type)
<1>1. L \in Nat \ {0}
  BY PeriodBegins
<1>2. /\ Periods!periodStart(h, type) \in Int /\ h < Periods!periodStart(h, type) + L
      /\ Periods!periodStart(from, type) \in Int /\ Periods!periodStart(from, type) <= from
  BY PeriodBegins
<1>3. Periods!Prior(from, type) = Periods!periodStart(from, type) - L
  BY DEF Periods!Prior
<1> HIDE DEF L
<1> QED
  BY <1>1, <1>2, <1>3

LEMMA UpToDateStep ==
    ASSUME Periods!Clock, periodFaults = {}, Periods!UpToDate, [Periods!Next]_periodVars
    PROVE  Periods!UpToDate'
<1> SUFFICES UpToDateIn(hourly', totals', pc', at', pending', hour', fresh')
  BY UpToDateReads
<1>1. /\ pc \in {"idle", "hour", "day", "month"} /\ (fresh => pc = "idle")
      /\ pc \in Periods!Types => at = hour
      /\ pc \notin Periods!Types => pending = {}
      /\ \A r \in pending : r.key = <<pc, r.key[2]>> /\ r.rx = TotalIn(hourly, pc, r.key[2])
      /\ \A h \in DOMAIN hourly, type \in Periods!Types :
            LET start == Periods!periodStart(h, type)
            IN  /\ (start < Periods!Prior(hour, type) \/ fresh \/ (type = "day" /\ pc = "month"))
                      => AgreesIn(hourly, totals, type, start)
                /\ type = pc => \/ AgreesIn(hourly, totals, type, start)
                                \/ \E r \in pending : r.key = <<type, start>>
  BY UpToDateReads DEF UpToDateIn
<1>2. Periods!Types = {"day", "month"} /\ hour \in Nat
  BY DEF Periods!Types, Periods!Clock
<1>3. ASSUME NEW h \in DOMAIN hourly, NEW type \in Periods!Types,
             \/ Periods!periodStart(h, type) < Periods!Prior(hour, type) \/ fresh
             \/ type = "day" /\ pc = "month"
      PROVE  AgreesIn(hourly, totals, type, Periods!periodStart(h, type))
  BY <1>1, <1>3, Zenon
<1>4. ASSUME NEW h \in DOMAIN hourly, NEW type \in Periods!Types, type = pc
      PROVE  \/ AgreesIn(hourly, totals, type, Periods!periodStart(h, type))
             \/ \E r \in pending : r.key = <<type, Periods!periodStart(h, type)>>
  BY <1>1, <1>4, Zenon
<1>5. CASE UNCHANGED periodVars
  BY <1>5, UpToDateReads DEF periodVars
<1>6. CASE Periods!Tick
  <2>1. /\ fresh /\ ~fresh' /\ pc = "idle" /\ pc' = pc /\ pending = {} /\ pending' = {}
        /\ hourly' = hourly /\ totals' = totals
    BY <1>1, <1>2, <1>6 DEF Periods!Tick
  <2> QED
    BY <1>1, <1>2, <2>1 DEF UpToDateIn
<1>7. CASE Periods!BeginIteration \/ Periods!Restart
  <2>1. /\ ~fresh' \/ pc' = "idle"
        /\ fresh' => fresh
        /\ pc' \in {"idle", "hour"} /\ pending' = {}
        /\ hourly' = hourly /\ totals' = totals /\ hour' = hour
    BY <1>1, <1>2, <1>7 DEF Periods!BeginIteration, Periods!Restart
  <2> QED
    BY <1>1, <1>2, <2>1 DEF UpToDateIn
<1>8. CASE Periods!WriteHour
  <2>1. PICK h \in Nat, rx \in 0..MaxUsage :
          (h = hour \/ h = hour - 1) /\ hourly' = Periods!Upsert(hourly, h, rx)
    BY <1>8 DEF Periods!WriteHour
  <2>2. /\ DOMAIN hourly' = DOMAIN hourly \cup {h}
        /\ \A k \in DOMAIN hourly : k # h => hourly'[k] = hourly[k]
    BY <2>1 DEF Periods!Upsert
  <2>3. /\ pc = "hour" /\ pc' = pc /\ pending = {} /\ pending' = {} /\ ~fresh /\ ~fresh'
        /\ hour' = hour /\ totals' = totals
    BY <1>1, <1>2, <1>8 DEF Periods!WriteHour
  <2>4. ASSUME NEW k \in DOMAIN hourly', NEW type \in Periods!Types,
               Periods!periodStart(k, type) < Periods!Prior(hour, type)
        PROVE  AgreesIn(hourly', totals', type, Periods!periodStart(k, type))
    <3> DEFINE start == Periods!periodStart(k, type)
    <3>1. Periods!periodStart(h, type) >= Periods!Prior(hour, type)
      BY <1>2, <2>1, WrittenIsRecent
    <3>2. Periods!periodStart(h, type) \in Int /\ Periods!Prior(hour, type) \in Int
      BY <1>2, PeriodBegins DEF Periods!Prior
    <3>3. k # h /\ k \in DOMAIN hourly
      BY <2>2, <2>4, <3>1, <3>2
    <3>4. start \in Int /\ start # Periods!periodStart(h, type)
      BY <2>4, <3>1, <3>2, <3>3, PeriodBegins DEF Periods!Clock
    <3>5. TotalIn(hourly', type, start) = TotalIn(hourly, type, start)
      <4>1. {j \in DOMAIN hourly' : Periods!periodStart(j, type) = start}
               = {j \in DOMAIN hourly : Periods!periodStart(j, type) = start}
        BY <2>2, <3>4
      <4>2. \A j \in DOMAIN hourly : Periods!periodStart(j, type) = start => hourly'[j] = hourly[j]
        BY <2>2, <3>4
      <4> HIDE DEF start
      <4> QED
        BY <4>1, <4>2, TotalStays
    <3>6. AgreesIn(hourly, totals, type, start)
      BY <1>3, <2>4, <3>3
    <3> QED
      BY <2>3, <3>5, <3>6 DEF AgreesIn
  <2> QED
    BY <1>2, <2>3, <2>4 DEF UpToDateIn
<1>9. CASE Periods!runDailyMonthlyRollup
  <2>1. pending = {} /\ UNCHANGED <<hour, hourly, totals>>
    BY <1>9 DEF Periods!runDailyMonthlyRollup
  <2>2. ASSUME NEW type \in Periods!Types, Periods!Roll(type, hour)
        PROVE  /\ pc' = type /\ at' = hour
               /\ \A r \in pending' : r.key = <<type, r.key[2]>> /\ r.rx = TotalIn(hourly, type, r.key[2])
               /\ \A h \in DOMAIN hourly :
                     LET start == Periods!periodStart(h, type)
                     IN  start >= Periods!Prior(hour, type)
                           => \E r \in pending' : r.key = <<type, start>>
    <3> DEFINE hours    == {h \in DOMAIN hourly : h >= Periods!LookbackStart(hour, type)}
               computed == Periods!aggregateHourly(hours, type)
    <3>1. pending' = {r \in computed : r.key[2] >= Periods!Prior(hour, type)} /\ pc' = type /\ at' = hour
      BY <2>2 DEF Periods!Roll
    <3>2. \A start : Periods!TotalOf(type, start, DOMAIN hourly) = TotalIn(hourly, type, start)
      BY TotalsRead
    <3>3. /\ \A r \in computed :
                /\ r.key = <<type, r.key[2]>>
                /\ r.key[2] >= Periods!Prior(hour, type)
                      => r.rx = Periods!TotalOf(type, r.key[2], DOMAIN hourly)
          /\ \A h \in DOMAIN hourly :
                LET start == Periods!periodStart(h, type)
                IN  start >= Periods!Prior(hour, type) => \E r \in computed : r.key = <<type, start>>
      BY <1>2, RollIsWhole DEF Periods!Clock
    <3>4. ASSUME NEW h \in DOMAIN hourly,
                 Periods!periodStart(h, type) >= Periods!Prior(hour, type)
          PROVE  \E r \in pending' : r.key = <<type, Periods!periodStart(h, type)>>
      <4> HIDE DEF computed
      <4>1. PICK r \in computed : r.key = <<type, Periods!periodStart(h, type)>>
        BY <3>3, <3>4
      <4>2. r.key[2] >= Periods!Prior(hour, type)
        BY <3>4, <4>1
      <4> QED
        BY <3>1, <4>1, <4>2
    <3> HIDE DEF computed
    <3> QED
      BY <3>1, <3>2, <3>3, <3>4
  <2>3. \A h \in DOMAIN hourly, type \in Periods!Types :
           Periods!periodStart(h, type) \in Int /\ Periods!Prior(hour, type) \in Int
    BY <1>2, PeriodBegins DEF Periods!Clock, Periods!Prior
  <2>4. CASE pc = "hour" /\ Periods!Roll("day", hour) /\ UNCHANGED fresh
    <3>1. ~fresh' /\ pc' = "day" /\ at' = hour
      BY <1>1, <1>2, <2>2, <2>4
    <3>2. \A r \in pending' : r.key = <<"day", r.key[2]>> /\ r.rx = TotalIn(hourly, "day", r.key[2])
      BY <1>2, <2>2, <2>4
    <3>3. \A h \in DOMAIN hourly : LET start == Periods!periodStart(h, "day")
             IN  start >= Periods!Prior(hour, "day") => \E r \in pending' : r.key = <<"day", start>>
      BY <1>2, <2>2, <2>4
    <3>4. ASSUME NEW h \in DOMAIN hourly, NEW type \in Periods!Types,
                 \/ Periods!periodStart(h, type) < Periods!Prior(hour, type) \/ fresh'
                 \/ type = "day" /\ pc' = "month"
          PROVE  AgreesIn(hourly, totals, type, Periods!periodStart(h, type))
      BY <1>3, <2>1, <3>1, <3>4
    <3>5. ASSUME NEW h \in DOMAIN hourly, NEW type \in Periods!Types, type = pc'
          PROVE  \/ AgreesIn(hourly, totals, type, Periods!periodStart(h, type))
                 \/ \E r \in pending' : r.key = <<type, Periods!periodStart(h, type)>>
      BY <1>3, <2>3, <3>1, <3>3, <3>5
    <3> QED
      BY <1>2, <2>1, <3>1, <3>2, <3>4, <3>5 DEF UpToDateIn
  <2>5. CASE pc = "day" /\ Periods!Roll("month", at) /\ UNCHANGED fresh
    <3>1. ~fresh' /\ pc' = "month" /\ at' = hour /\ at = hour
      BY <1>1, <1>2, <2>2, <2>5
    <3>2. \A r \in pending' : r.key = <<"month", r.key[2]>> /\ r.rx = TotalIn(hourly, "month", r.key[2])
      BY <1>2, <2>2, <2>5, <3>1
    <3>3. \A h \in DOMAIN hourly : LET start == Periods!periodStart(h, "month")
             IN  start >= Periods!Prior(hour, "month") => \E r \in pending' : r.key = <<"month", start>>
      BY <1>2, <2>2, <2>5, <3>1
    <3>4. ASSUME NEW h \in DOMAIN hourly, NEW type \in Periods!Types,
                 \/ Periods!periodStart(h, type) < Periods!Prior(hour, type) \/ fresh'
                 \/ type = "day" /\ pc' = "month"
          PROVE  AgreesIn(hourly, totals, type, Periods!periodStart(h, type))
      BY <1>3, <1>4, <2>5, <2>1, <3>1, <3>4
    <3>5. ASSUME NEW h \in DOMAIN hourly, NEW type \in Periods!Types, type = pc'
          PROVE  \/ AgreesIn(hourly, totals, type, Periods!periodStart(h, type))
                 \/ \E r \in pending' : r.key = <<type, Periods!periodStart(h, type)>>
      BY <1>3, <2>3, <3>1, <3>3, <3>5
    <3> QED
      BY <1>2, <2>1, <3>1, <3>2, <3>4, <3>5 DEF UpToDateIn
  <2>6. CASE pc = "month" /\ pc' = "idle" /\ fresh' = TRUE /\ UNCHANGED <<at, pending>>
    BY <1>1, <1>2, <2>1, <2>6 DEF UpToDateIn
  <2> QED
    BY <1>9, <2>4, <2>5, <2>6 DEF Periods!runDailyMonthlyRollup
<1>10. CASE Periods!SetUsage
  <2>1. PICK r \in pending : pending' = pending \ {r} /\ totals' = Periods!Upsert(totals, r.key, r.rx)
    BY <1>10 DEF Periods!SetUsage
  <2>2. UNCHANGED <<hour, hourly, pc, at, fresh>>
    BY <1>10 DEF Periods!SetUsage
  <2>3. /\ DOMAIN totals' = DOMAIN totals \cup {r.key} /\ totals'[r.key] = r.rx
        /\ \A k \in DOMAIN totals : k # r.key => totals'[k] = totals[k]
    BY <2>1 DEF Periods!Upsert
  <2>4. r.key = <<pc, r.key[2]>> /\ r.rx = TotalIn(hourly, pc, r.key[2])
    BY <1>1
  <2>5. ASSUME NEW type, NEW start, AgreesIn(hourly, totals, type, start) \/ r.key = <<type, start>>
        PROVE  AgreesIn(hourly', totals', type, start)
    <3>1. CASE r.key = <<type, start>>
      <4>1. r.rx = TotalIn(hourly, type, start)
        BY <2>4, <3>1
      <4> QED
        BY <2>2, <2>3, <3>1, <4>1 DEF AgreesIn
    <3>2. CASE r.key # <<type, start>> /\ AgreesIn(hourly, totals, type, start)
      BY <2>2, <2>3, <3>2 DEF AgreesIn
    <3> QED
      BY <2>5, <3>1, <3>2
  <2>6. ASSUME NEW h \in DOMAIN hourly, NEW type \in Periods!Types, type = pc
        PROVE  \/ AgreesIn(hourly', totals', type, Periods!periodStart(h, type))
               \/ \E q \in pending' : q.key = <<type, Periods!periodStart(h, type)>>
    <3>1. \/ AgreesIn(hourly, totals, type, Periods!periodStart(h, type))
          \/ \E q \in pending : q.key = <<type, Periods!periodStart(h, type)>>
      BY <1>1, <2>6
    <3> QED
      BY <2>1, <2>5, <3>1
  <2> QED
    BY <1>1, <2>1, <2>2, <2>5, <2>6 DEF UpToDateIn
<1> QED
  BY <1>5, <1>6, <1>7, <1>8, <1>9, <1>10 DEF Periods!Next

(***************************************************************************)
(* With an iteration that ends in every hour, every day and month ever     *)
(* stored is the sum of its hours, for good (usage_aggregate.go:47).       *)
(***************************************************************************)
THEOREM TotalsAgree == BothSpec => []PeriodsAgree
<1>1. BothInit => Periods!IInv
  BY DEF BothInit, Periods!Init, Periods!IInv, Periods!Clock, Periods!UpToDate, Periods!Types
<1>2. Periods!IInv /\ [BothNext]_bothVars => Periods!IInv'
  <2>1. ASSUME [Periods!Next]_periodVars PROVE periodFaults' = periodFaults
    BY <2>1 DEF periodVars, Periods!Next, Periods!Tick, Periods!Restart, Periods!BeginIteration,
         Periods!WriteHour, Periods!runDailyMonthlyRollup, Periods!SetUsage
  <2> QED
    BY <2>1, BothStep, ClockStep, UpToDateStep DEF Periods!IInv
<1>3. Periods!IInv => PeriodsAgree
  <2> SUFFICES ASSUME Periods!IInv, periodFaults = {}, fresh,
                      NEW h \in DOMAIN hourly, NEW type \in Periods!Types
               PROVE  Periods!Agrees(type, Periods!periodStart(h, type))
    BY DEF PeriodsAgree, Periods!PeriodsAgree, Periods!Agrees
  <2> QED
    BY Zenon DEF Periods!IInv, Periods!UpToDate
<1> QED
  BY <1>1, <1>2, <1>3, PTL DEF BothSpec

-----------------------------------------------------------------------------
(***************************************************************************)
(* Hours of the usage accounting (UsageRollup).  A reading credits the     *)
(* bytes that passed since the reading stored before it was taken to its   *)
(* own slot, and two readings never differ by more than that, reset or no  *)
(* reset.  credit[<<i, t>>] is what slot t has been credited for i, l what *)
(* i has been credited in all, q what had passed when the reading in       *)
(* memory was taken.  None of the three is in the code.                   *)
(***************************************************************************)
Fits(a, before, b, after) ==
    before <= after /\ (b - a = after - before \/ b <= after - before)

Follows(readings, p, s) ==
    /\ p \in readings /\ s \in readings /\ p.ts < s.ts
    /\ ~\E x \in readings : p.ts < x.ts /\ x.ts < s.ts

InOrder(readings, clock) ==
    /\ \A s \in readings : s.ts \in Nat /\ s.rx \in Nat /\ s.ts <= clock
    /\ \A p, s \in readings : p.ts = s.ts => p = s

Account(i, credit, l, q, b, total, memory, readings, clock) ==
    /\ l \in Nat /\ q \in Nat /\ b \in Nat /\ total \in Nat /\ l <= total
    /\ \A C \in SUBSET ({i} \X Nat) : IsFiniteSet(C) => SumOf(credit, C) <= l
    /\ InOrder(readings, clock)
    /\ \A p, s : Follows(readings, p, s) => Hours!usageDelta(p.rx, s.rx).rx <= credit[<<i, s.ts>>]
    /\ \A s \in readings : (\A x \in readings : x.ts <= s.ts)
          => Fits(s.rx, l, b, total) /\ (i \in DOMAIN memory => Fits(s.rx, l, memory[i], q))
    /\ i \in DOMAIN memory => memory[i] \in Nat /\ l <= q /\ Fits(memory[i], q, b, total)

LEMMA FollowsLater ==
    ASSUME NEW readings, NEW clock, InOrder(readings, clock), NEW from \in Int,
           NEW p, NEW s, Follows({x \in readings : x.ts >= from}, p, s)
    PROVE  Follows(readings, p, s)
BY DEF Follows, InOrder

(* Bytes pass; the device reboots.                                         *)
LEMMA AccountPass ==
    ASSUME NEW i, NEW credit, NEW l, NEW q, NEW b, NEW total, NEW memory, NEW readings, NEW clock,
           Account(i, credit, l, q, b, total, memory, readings, clock)
    PROVE  /\ Account(i, credit, l, q, b + 1, total + 1, memory, readings, clock)
           /\ Account(i, credit, l, q, 0, total, memory, readings, clock)
<1> USE DEF Account
<1>1. \A s \in readings : s.rx \in Nat
  BY DEF InOrder
<1>2. \A x \in Nat, y \in Nat : Fits(x, y, b, total)
          => Fits(x, y, b + 1, total + 1) /\ Fits(x, y, 0, total)
  BY DEF Fits
<1> QED
  BY <1>1, <1>2

LEMMA AccountTick ==
    ASSUME NEW i, NEW credit, NEW l, NEW q, NEW b, NEW total, NEW memory, NEW readings,
           NEW clock \in Nat, Account(i, credit, l, q, b, total, memory, readings, clock)
    PROVE  Account(i, credit, l, q, b, total, memory, readings, clock + 1)
<1>1. InOrder(readings, clock + 1)
  BY DEF Account, InOrder
<1> QED
  BY <1>1 DEF Account

(* A reading is taken.                                                     *)
LEMMA AccountCollect ==
    ASSUME NEW i, NEW credit, NEW l, NEW q, NEW b, NEW total, NEW memory, NEW readings, NEW clock,
           Account(i, credit, l, q, b, total, memory, readings, clock),
           NEW new, i \in DOMAIN new => new[i] = b
    PROVE  Account(i, credit, l, total, b, total, new, readings, clock)
<1>1. i \in DOMAIN new => Fits(new[i], total, b, total)
  BY DEF Account, Fits
<1> QED
  BY <1>1 DEF Account

(* The oldest readings are left out, or deleted.                           *)
LEMMA AccountPrune ==
    ASSUME NEW i, NEW credit, NEW l, NEW q, NEW b, NEW total, NEW memory, NEW readings, NEW clock,
           Account(i, credit, l, q, b, total, memory, readings, clock), NEW from \in Int
    PROVE  Account(i, credit, l, q, b, total, memory, {s \in readings : s.ts >= from}, clock)
<1> DEFINE left == {s \in readings : s.ts >= from}
<1>1. InOrder(readings, clock) /\ InOrder(left, clock)
  BY DEF Account, InOrder
<1>2. ASSUME NEW p, NEW s, Follows(left, p, s) PROVE Follows(readings, p, s)
  BY <1>1, <1>2, FollowsLater
<1>3. ASSUME NEW s \in left, \A x \in left : x.ts <= s.ts PROVE \A x \in readings : x.ts <= s.ts
  BY <1>1, <1>3 DEF InOrder
<1>4. left \subseteq readings
  OBVIOUS
<1> HIDE DEF left
<1>5. Account(i, credit, l, q, b, total, memory, left, clock)
  BY <1>1, <1>2, <1>3, <1>4 DEF Account
<1> QED
  BY <1>5 DEF left

(* The slots of another interface, or another slot, are credited.          *)
LEMMA AccountOther ==
    ASSUME NEW i, NEW credit, NEW l, NEW q, NEW b, NEW total, NEW memory, NEW readings, NEW clock,
           Account(i, credit, l, q, b, total, memory, readings, clock),
           NEW credited, \A t \in Nat : credited[<<i, t>>] = credit[<<i, t>>]
    PROVE  Account(i, credited, l, q, b, total, memory, readings, clock)
<1>1. ASSUME NEW C \in SUBSET ({i} \X Nat), IsFiniteSet(C) PROVE SumOf(credited, C) <= l
  <2>1. \A c \in C : credited[c] = credit[c]
    OBVIOUS
  <2> QED
    BY <1>1, <2>1, SumOfSame DEF Account
<1>2. ASSUME NEW p, NEW s, Follows(readings, p, s)
      PROVE  Hours!usageDelta(p.rx, s.rx).rx <= credited[<<i, s.ts>>]
  BY <1>2 DEF Account, Follows, InOrder
<1> QED
  BY <1>1, <1>2 DEF Account

(* What is in memory is stored.                                            *)
LEMMA AccountStore ==
    ASSUME NEW i, NEW credit, NEW l, NEW q, NEW b, NEW total, NEW memory, NEW readings,
           NEW clock \in Nat, Account(i, credit, l, q, b, total, memory, readings, clock),
           i \in DOMAIN memory,
           \A s \in readings : s.ts # clock,
           \A t \in Nat : credit[<<i, t>>] \in Nat,
           NEW credited,
           \A t \in Nat : credited[<<i, t>>] = IF t = clock THEN credit[<<i, t>>] + q - l
                                                            ELSE credit[<<i, t>>]
    PROVE  Account(i, credited, q, q, b, total, memory,
                   readings \cup {[ts |-> clock, rx |-> memory[i]]}, clock)
<1> DEFINE r     == memory[i]
           new   == [ts |-> clock, rx |-> r]
           after == readings \cup {new}
           cell  == <<i, clock>>
<1>1. /\ l \in Nat /\ q \in Nat /\ b \in Nat /\ total \in Nat /\ r \in Nat /\ l <= q
      /\ Fits(r, q, b, total) /\ InOrder(readings, clock)
  BY DEF Account
<1>2. q <= total
  BY <1>1 DEF Fits
<1>3. ASSUME NEW C \in SUBSET ({i} \X Nat), IsFiniteSet(C) PROVE SumOf(credited, C) <= q
  <2>1. \A c \in C : credit[c] \in Nat /\ credited[c] \in Nat
    BY <1>1
  <2>2. SumOf(credit, C) <= l /\ SumOf(credit, C) \in Nat
    BY <1>3, <2>1, SumType DEF Account
  <2>3. CASE cell \in C
    <3> DEFINE D == C \ {cell}
    <3>1. IsFiniteSet(D)
      BY <1>3, FS_Subset
    <3>2. \A c \in D : credited[c] = credit[c]
      OBVIOUS
    <3>3. SumOf(credited, D) = SumOf(credit, D) /\ SumOf(credit, D) \in Nat
      BY <2>1, <3>1, <3>2, SumOfSame, SumType
    <3>4. /\ SumOf(credited, C) = credited[cell] + SumOf(credited, D)
          /\ SumOf(credit, C) = credit[cell] + SumOf(credit, D)
      BY <1>3, <2>1, <2>3, SumOfOne
    <3>5. credited[cell] = credit[cell] + q - l /\ credit[cell] \in Nat
      OBVIOUS
    <3> HIDE DEF D, cell
    <3> QED
      BY <1>1, <2>2, <3>3, <3>4, <3>5
  <2>4. CASE cell \notin C
    <3>1. \A c \in C : credited[c] = credit[c]
      BY <2>4
    <3>2. SumOf(credited, C) = SumOf(credit, C)
      BY <1>3, <3>1, SumOfSame
    <3> QED
      BY <1>1, <2>2, <3>2
  <2> QED
    BY <2>3, <2>4
<1>4. new.ts = clock /\ new.rx = r
  OBVIOUS
<1>5. InOrder(after, clock)
  BY <1>1, <1>4 DEF InOrder
<1>6. ASSUME NEW p, NEW s, Follows(after, p, s)
      PROVE  Hours!usageDelta(p.rx, s.rx).rx <= credited[<<i, s.ts>>]
  <2>1. p \in after /\ s \in after /\ p.ts < s.ts /\ p.ts \in Nat /\ s.ts \in Nat /\ s.ts <= clock
    BY <1>5, <1>6 DEF Follows, InOrder
  <2>2. p \in readings
    BY <1>4, <2>1
  <2>3. CASE s = new
    <3>1. \A x \in readings : x.ts <= p.ts
      BY <1>1, <1>4, <1>6, <2>2, <2>3 DEF Follows, InOrder
    <3>2. Fits(p.rx, l, r, q) /\ p.rx \in Nat
      BY <1>1, <2>2, <3>1 DEF Account, InOrder
    <3>3. Hours!usageDelta(p.rx, r).rx <= q - l
      BY <1>1, <3>2 DEF Fits, Hours!usageDelta
    <3>4. Hours!usageDelta(p.rx, r).rx \in Int
      BY <1>1, <3>2 DEF Hours!usageDelta
    <3>5. s.ts = clock /\ s.rx = r
      BY <1>4, <2>3
    <3>6. credited[<<i, clock>>] = credit[<<i, clock>>] + q - l /\ credit[<<i, clock>>] \in Nat
      OBVIOUS
    <3> QED
      BY <1>1, <3>3, <3>4, <3>5, <3>6
  <2>4. CASE s # new
    <3>1. s \in readings /\ Follows(readings, p, s)
      BY <1>6, <2>2, <2>4 DEF Follows
    <3>2. Hours!usageDelta(p.rx, s.rx).rx <= credit[<<i, s.ts>>] /\ s.ts # clock
      BY <3>1 DEF Account
    <3> QED
      BY <2>1, <3>2
  <2> QED
    BY <2>3, <2>4
<1>7. ASSUME NEW s \in after, \A x \in after : x.ts <= s.ts
      PROVE  Fits(s.rx, q, b, total) /\ Fits(s.rx, q, r, q)
  <2>1. s = new
    <3>1. new \in after /\ (s \in readings \/ s = new)
      OBVIOUS
    <3> HIDE DEF after, new
    <3>2. clock <= s.ts
      BY <1>4, <1>7, <3>1
    <3> QED
      BY <1>1, <3>1, <3>2 DEF InOrder
  <2> QED
    BY <1>1, <1>4, <2>1 DEF Fits
<1> HIDE DEF after, new
<1>8. Account(i, credited, q, q, b, total, memory, after, clock)
  BY <1>1, <1>2, <1>3, <1>5, <1>6, <1>7 DEF Account
<1> QED
  BY <1>8 DEF after, new

(* The slots whose bytes a scope's hour may count.                         *)
Cells(scope, h) ==
    {c \in Ifaces \X Nat : (scope = "device" \/ c[1] = scope) /\ Hours!HourOf(c[2]) = h}

CellsBefore(scope, h, clock) == {c \in Ifaces \X (0..clock) : c \in Cells(scope, h)}

Credited(credit, key, n) ==
    /\ key = <<key[1], key[2]>> /\ n \in Nat
    /\ \E C \in SUBSET Cells(key[1], key[2]) : IsFiniteSet(C) /\ n <= SumOf(credit, C)

LEMMA CreditGrows ==
    ASSUME NEW credit \in [Ifaces \X Nat -> Nat], NEW more \in [Ifaces \X Nat -> Nat],
           \A c \in Ifaces \X Nat : credit[c] <= more[c],
           NEW key, NEW n, Credited(credit, key, n)
    PROVE  Credited(more, key, n)
<1>1. PICK C \in SUBSET Cells(key[1], key[2]) : IsFiniteSet(C) /\ n <= SumOf(credit, C)
  BY DEF Credited
<1>2. \A c \in C : credit[c] \in Nat /\ more[c] \in Nat /\ credit[c] <= more[c]
  BY DEF Cells
<1>3. /\ SumOf(credit, C) \in Nat /\ SumOf(more, C) \in Nat
      /\ SumOf(credit, C) <= SumOf(more, C)
  BY <1>1, <1>2, SumType, SumOfLess
<1>4. n <= SumOf(more, C)
  BY <1>1, <1>3 DEF Credited
<1> QED
  BY <1>1, <1>4 DEF Credited

(* The sums of UsageRollup, as sums of functions.                          *)
LEMMA RowAdds ==
    ASSUME NEW deltas
    PROVE  Hours!MapThenSumSet(LAMBDA x : x.delta.rx, deltas)
              = SumOf([x \in deltas |-> x.delta.rx], deltas)
<1> DEFINE f == [x \in deltas |-> x.delta.rx]
           F(sum) == [s \in SUBSET deltas |-> IF s = {} THEN 0 ELSE
                         (CHOOSE x \in s : TRUE).delta.rx + sum[s \ {CHOOSE x \in s : TRUE}]]
           G(sum) == [s \in SUBSET deltas |-> IF s = {} THEN 0 ELSE
                         f[CHOOSE x \in s : TRUE] + sum[s \ {CHOOSE x \in s : TRUE}]]
<1>1. Hours!MapThenSumSet(LAMBDA x : x.delta.rx, deltas) = (CHOOSE sum : sum = F(sum))[deltas]
  BY DEF Hours!MapThenSumSet, Hours!MapThenFoldSet
<1>2. SumOf(f, deltas) = (CHOOSE sum : sum = G(sum))[deltas]
  BY DEF SumOf, MapThenSumSet, MapThenFoldSet
<1>3. ASSUME NEW sum PROVE F(sum) = G(sum)
  OBVIOUS
<1> HIDE DEF F, G
<1>4. (CHOOSE sum : sum = F(sum)) = (CHOOSE sum : sum = G(sum))
  BY <1>3, Zenon
<1> QED
  BY <1>1, <1>2, <1>4

LEMMA StoredAdds ==
    ASSUME NEW S
    PROVE  Hours!MapThenSumSet(LAMBDA k : usage[k].rx, S) = SumOf([k \in S |-> usage[k].rx], S)
<1> DEFINE f == [k \in S |-> usage[k].rx]
           F(sum) == [s \in SUBSET S |-> IF s = {} THEN 0 ELSE
                         usage[CHOOSE x \in s : TRUE].rx + sum[s \ {CHOOSE x \in s : TRUE}]]
           G(sum) == [s \in SUBSET S |-> IF s = {} THEN 0 ELSE
                         f[CHOOSE x \in s : TRUE] + sum[s \ {CHOOSE x \in s : TRUE}]]
<1>1. Hours!MapThenSumSet(LAMBDA k : usage[k].rx, S) = (CHOOSE sum : sum = F(sum))[S]
  BY DEF Hours!MapThenSumSet, Hours!MapThenFoldSet
<1>2. SumOf(f, S) = (CHOOSE sum : sum = G(sum))[S]
  BY DEF SumOf, MapThenSumSet, MapThenFoldSet
<1>3. ASSUME NEW sum PROVE F(sum) = G(sum)
  OBVIOUS
<1> HIDE DEF F, G
<1>4. (CHOOSE sum : sum = F(sum)) = (CHOOSE sum : sum = G(sum))
  BY <1>3, Zenon
<1> QED
  BY <1>1, <1>2, <1>4

LEMMA PassedAdds ==
    ASSUME NEW S
    PROVE  Hours!MapThenSumSet(LAMBDA j : passed[j], S) = SumOf(passed, S)
BY DEF SumOf, Hours!MapThenSumSet, Hours!MapThenFoldSet, MapThenSumSet, MapThenFoldSet

(* A pair that is read is of two readings in a row.                        *)
LEMMA PairsFollow ==
    ASSUME NEW i, NEW readings, NEW clock, InOrder(readings, clock),
           NEW pair \in Hours!PairsOf(i, readings)
    PROVE  \E p, s \in readings : pair = <<i, p, s>> /\ Follows(readings, p, s)
<1> DEFINE Is(p, s) == p.ts < s.ts /\ ~\E x \in readings : p.ts < x.ts /\ x.ts < s.ts
           Following(p) == CHOOSE s \in readings : Is(p, s)
<1>1. PICK p \in readings : pair = <<i, p, Following(p)>> /\ \E s \in readings : p.ts < s.ts
  BY DEF Hours!PairsOf
<1>2. \E s \in readings : Is(p, s)
  <2> DEFINE later == {t \in Nat : \E s \in readings : s.ts = t /\ p.ts < t}
  <2>1. later \in SUBSET Nat /\ later # {}
    BY <1>1 DEF InOrder
  <2>2. PICK t \in later : \A u \in later : t <= u
    <3> HIDE DEF later
    <3> QED
      BY <2>1, LeastNatural
  <2>3. PICK s \in readings : s.ts = t /\ p.ts < t
    OBVIOUS
  <2>4. ASSUME NEW x \in readings, p.ts < x.ts, x.ts < s.ts PROVE FALSE
    <3>1. x.ts \in later /\ x.ts \in Nat /\ t \in Nat
      BY <2>4 DEF InOrder
    <3> HIDE DEF later
    <3> QED
      BY <2>2, <2>3, <2>4, <3>1
  <2> QED
    BY <2>3, <2>4
<1>3. Following(p) \in readings /\ Is(p, Following(p))
  BY <1>2
<1> HIDE DEF Following
<1> QED
  BY <1>1, <1>3 DEF Follows

LEMMA FollowsPairs ==
    ASSUME NEW i, NEW readings, NEW clock, InOrder(readings, clock),
           NEW p, NEW s, Follows(readings, p, s)
    PROVE  <<i, p, s>> \in Hours!PairsOf(i, readings)
<1> DEFINE Is(t) == p.ts < t.ts /\ ~\E x \in readings : p.ts < x.ts /\ x.ts < t.ts
<1>1. s \in readings /\ Is(s) /\ p \in {r \in readings : \E t \in readings : r.ts < t.ts}
  BY DEF Follows
<1>2. ASSUME NEW t \in readings, Is(t) PROVE t = s
  <2>1. ~(t.ts < s.ts) /\ ~(s.ts < t.ts)
    BY <1>1, <1>2
  <2>2. t.ts = s.ts
    BY <1>1, <2>1 DEF InOrder
  <2> QED
    BY <1>1, <2>2 DEF InOrder
<1>3. (CHOOSE t \in readings : Is(t)) = s
  BY <1>1, <1>2
<1>4. <<i, p, CHOOSE t \in readings : Is(t)>> \in Hours!PairsOf(i, readings)
  BY <1>1 DEF Hours!PairsOf
<1> QED
  BY <1>3, <1>4

(* The differences an hour of a scope is made of.                          *)
DeltasOf(readings, scope, h) ==
    {x \in {[pair |-> pair, delta |-> Hours!usageDelta(pair[2].rx, pair[3].rx)] :
               pair \in Hours!Pairs(readings, scope)} :
     Hours!HourOf(x.pair[3].ts) = h}

CellOf(x) == <<x.pair[1], x.pair[3].ts>>

IsDelta(readings, scope, h, x, i, p, s) ==
    /\ i \in Ifaces /\ (scope = "device" \/ i = scope) /\ Follows(readings[i], p, s)
    /\ x = [pair |-> <<i, p, s>>, delta |-> Hours!usageDelta(p.rx, s.rx)]
    /\ Hours!HourOf(s.ts) = h

LEMMA DeltaReads ==
    ASSUME NEW readings, NEW clock, \A i \in Ifaces : InOrder(readings[i], clock),
           NEW scope \in Hours!Scopes, NEW h
    PROVE  \A x : x \in DeltasOf(readings, scope, h)
                     <=> \E i, p, s : IsDelta(readings, scope, h, x, i, p, s)
<1>1. ASSUME NEW x \in DeltasOf(readings, scope, h)
      PROVE  \E i, p, s : IsDelta(readings, scope, h, x, i, p, s)
  <2>1. PICK pair \in Hours!Pairs(readings, scope) :
          /\ x = [pair |-> pair, delta |-> Hours!usageDelta(pair[2].rx, pair[3].rx)]
          /\ Hours!HourOf(x.pair[3].ts) = h
    BY DEF DeltasOf
  <2>2. PICK i \in Ifaces : (scope = "device" \/ i = scope) /\ pair \in Hours!PairsOf(i, readings[i])
    BY DEF Hours!Pairs, Hours!Scopes
  <2>3. PICK p, s \in readings[i] : pair = <<i, p, s>> /\ Follows(readings[i], p, s)
    BY <2>2, PairsFollow
  <2>4. pair[2] = p /\ pair[3] = s /\ x.pair = pair
    BY <2>1, <2>3
  <2> QED
    BY <2>1, <2>2, <2>3, <2>4 DEF IsDelta
<1>2. ASSUME NEW x, NEW i, NEW p, NEW s, IsDelta(readings, scope, h, x, i, p, s)
      PROVE  x \in DeltasOf(readings, scope, h)
  <2> DEFINE pair == <<i, p, s>>
  <2>1. /\ i \in Ifaces /\ (scope = "device" \/ i = scope) /\ Follows(readings[i], p, s)
        /\ x = [pair |-> pair, delta |-> Hours!usageDelta(p.rx, s.rx)] /\ Hours!HourOf(s.ts) = h
    BY <1>2 DEF IsDelta
  <2>2. pair \in Hours!PairsOf(i, readings[i])
    BY <2>1, FollowsPairs
  <2>3. pair \in Hours!Pairs(readings, scope)
    BY <2>1, <2>2 DEF Hours!Pairs
  <2>4. pair[2] = p /\ pair[3] = s /\ x.pair = pair
    BY <2>1
  <2> HIDE DEF pair
  <2> QED
    BY <2>1, <2>3, <2>4 DEF DeltasOf
<1> QED
  BY <1>1, <1>2

(* A difference is known by its interface and its slot: they are finitely  *)
(* many.                                                                   *)
LEMMA DeltasApart ==
    ASSUME NEW readings, NEW clock \in Nat, \A i \in Ifaces : InOrder(readings[i], clock),
           NEW scope \in Hours!Scopes, NEW h, IsFiniteSet(Ifaces),
           NEW deltas, deltas = DeltasOf(readings, scope, h),
           NEW T, T = CellsBefore(scope, h, clock)
    PROVE  /\ IsFiniteSet(T) /\ T \in SUBSET Cells(scope, h) /\ IsFiniteSet(deltas)
           /\ \A x \in deltas : CellOf(x) \in T /\ x.delta.rx \in Nat
           /\ \A x, y \in deltas : CellOf(x) = CellOf(y) => x = y
<1>3. ASSUME NEW x \in deltas PROVE \E i, p, s : IsDelta(readings, scope, h, x, i, p, s)
  BY DeltaReads
<1>4. ASSUME NEW x \in deltas PROVE CellOf(x) \in T /\ x.delta.rx \in Nat
  <2>1. PICK i, p, s : IsDelta(readings, scope, h, x, i, p, s)
    BY <1>3
  <2>2. CellOf(x) = <<i, s.ts>> /\ x.delta = Hours!usageDelta(p.rx, s.rx)
    BY <2>1 DEF IsDelta, CellOf
  <2>3. s.ts \in Nat /\ s.ts <= clock /\ s.rx \in Nat /\ p.rx \in Nat
    BY <2>1 DEF IsDelta, Follows, InOrder
  <2>4. <<i, s.ts>> \in T
    BY <2>1, <2>3 DEF Cells, CellsBefore, IsDelta
  <2>5. Hours!usageDelta(p.rx, s.rx).rx \in Nat
    BY <2>3 DEF Hours!usageDelta
  <2> QED
    BY <2>2, <2>4, <2>5
<1>5. ASSUME NEW x \in deltas, NEW y \in deltas, CellOf(x) = CellOf(y) PROVE x = y
  <2>1. PICK i, p, s : IsDelta(readings, scope, h, x, i, p, s)
    BY <1>3
  <2>2. PICK j, p2, s2 : IsDelta(readings, scope, h, y, j, p2, s2)
    BY <1>3
  <2>3. CellOf(x) = <<i, s.ts>> /\ CellOf(y) = <<j, s2.ts>>
    BY <2>1, <2>2 DEF IsDelta, CellOf
  <2>4. i = j /\ s.ts = s2.ts
    <3>1. <<i, s.ts>> = <<j, s2.ts>>
      BY <1>5, <2>3
    <3> QED
      BY <3>1
  <2>5. /\ Follows(readings[i], p, s) /\ Follows(readings[i], p2, s2) /\ InOrder(readings[i], clock)
    BY <2>1, <2>2, <2>4 DEF IsDelta
  <2>6. s = s2
    BY <2>4, <2>5 DEF Follows, InOrder
  <2>7. p.ts \in Nat /\ p2.ts \in Nat /\ ~(p.ts < p2.ts) /\ ~(p2.ts < p.ts)
    BY <2>5, <2>6 DEF Follows, InOrder
  <2>8. p.ts = p2.ts
    BY <2>7
  <2>9. p = p2
    BY <2>5, <2>8 DEF Follows, InOrder
  <2> QED
    BY <2>1, <2>2, <2>4, <2>6, <2>9 DEF IsDelta
<1>6. IsFiniteSet(T) /\ T \in SUBSET Cells(scope, h)
  <2>1. IsFiniteSet(0..clock)
    BY FS_Interval
  <2>2. IsFiniteSet(Ifaces \X (0..clock))
    BY <2>1, FS_Product
  <2>3. T \in SUBSET (Ifaces \X (0..clock)) /\ T \in SUBSET Cells(scope, h)
    BY DEF CellsBefore
  <2> QED
    BY <2>2, <2>3, FS_Subset
<1>7. IsFiniteSet(deltas)
  <2> DEFINE f == [x \in deltas |-> CellOf(x)]
  <2>1. f \in [deltas -> T]
    BY <1>4
  <2>2. f \in Injection(deltas, T)
    BY <1>5, <2>1 DEF Injection, IsInjective
  <2> HIDE DEF f
  <2> QED
    BY <1>6, <2>2, FS_Injection
<1> QED
  BY <1>4, <1>5, <1>6, <1>7

LEMMA RowReads ==
    ASSUME NEW readings, NEW row \in Hours!accumulate(readings)
    PROVE  \E scope, h, x :
              /\ scope \in Hours!Scopes /\ x \in DeltasOf(readings, scope, h)
              /\ row = Hours!Row(scope, h, DeltasOf(readings, scope, h))
<1> DEFINE all(scope) == {[pair |-> pair, delta |-> Hours!usageDelta(pair[2].rx, pair[3].rx)] :
                             pair \in Hours!Pairs(readings, scope)}
           some(scope, h) == {x \in all(scope) : Hours!HourOf(x.pair[3].ts) = h}
<1>1. PICK scope \in Hours!Scopes :
        row \in {Hours!Row(scope, h, some(scope, h)) : h \in {Hours!HourOf(x.pair[3].ts) : x \in all(scope)}}
  BY DEF Hours!accumulate
<1>2. PICK h \in {Hours!HourOf(x.pair[3].ts) : x \in all(scope)} : row = Hours!Row(scope, h, some(scope, h))
  BY <1>1
<1>3. PICK x \in all(scope) : Hours!HourOf(x.pair[3].ts) = h
  BY <1>2
<1>4. x \in some(scope, h) /\ some(scope, h) = DeltasOf(readings, scope, h)
  BY <1>3 DEF DeltasOf
<1> HIDE DEF some
<1> QED
  BY <1>2, <1>4

(* What a row counts has been credited.                                    *)
LEMMA RowIsCredited ==
    ASSUME NEW credit \in [Ifaces \X Nat -> Nat], NEW readings, NEW clock \in Nat,
           \A i \in Ifaces :
              /\ InOrder(readings[i], clock)
              /\ \A p, s : Follows(readings[i], p, s)
                              => Hours!usageDelta(p.rx, s.rx).rx <= credit[<<i, s.ts>>],
           NEW row \in Hours!accumulate(readings), IsFiniteSet(Ifaces)
    PROVE  Credited(credit, row.key, row.total.rx)
<1>1. PICK scope, h : scope \in Hours!Scopes /\ row = Hours!Row(scope, h, DeltasOf(readings, scope, h))
  BY RowReads
<1>2. PICK deltas, T : /\ deltas = DeltasOf(readings, scope, h)
                       /\ T = CellsBefore(scope, h, clock)
  OBVIOUS
<1> DEFINE a == [x \in deltas |-> x.delta.rx]
<1>3. row.key = <<scope, h>> /\ row.key[1] = scope /\ row.key[2] = h
  BY <1>1 DEF Hours!Row
<1>4. row.total.rx = SumOf(a, deltas)
  BY <1>1, <1>2, RowAdds DEF Hours!Row
<1>5. /\ IsFiniteSet(T) /\ T \in SUBSET Cells(scope, h) /\ IsFiniteSet(deltas)
      /\ \A x \in deltas : CellOf(x) \in T /\ x.delta.rx \in Nat
      /\ \A x, y \in deltas : CellOf(x) = CellOf(y) => x = y
  <2>1. \A i \in Ifaces : InOrder(readings[i], clock)
    OBVIOUS
  <2> QED
    BY <1>1, <1>2, <2>1, DeltasApart
<1>6. ASSUME NEW x \in deltas PROVE x.delta.rx <= credit[CellOf(x)]
  <2>1. PICK i, p, s : IsDelta(readings, scope, h, x, i, p, s)
    BY <1>1, <1>2, DeltaReads
  <2>2. CellOf(x) = <<i, s.ts>> /\ x.delta = Hours!usageDelta(p.rx, s.rx)
    BY <2>1 DEF IsDelta, CellOf
  <2> QED
    BY <2>1, <2>2 DEF IsDelta
<1>7. \A c \in T : credit[c] \in Nat
  BY <1>2 DEF CellsBefore
<1>8. SumOf(a, deltas) <= SumOf(credit, T)
  <2> DEFINE C == [x \in deltas |-> {CellOf(x)}]
  <2>1. C \in [deltas -> SUBSET T] /\ \A x, y \in deltas : x # y => C[x] \cap C[y] = {}
    BY <1>5
  <2>2. \A x \in deltas : a[x] \in Nat
    BY <1>5
  <2>3. \A x \in deltas : a[x] <= SumOf(credit, C[x])
    BY <1>5, <1>6, <1>7, SumOfSingle
  <2> HIDE DEF C, a
  <2> QED
    BY <1>5, <1>7, <2>1, <2>2, <2>3, SumOfGroups
<1>9. SumOf(a, deltas) \in Nat
  <2>1. \A x \in deltas : a[x] \in Nat
    BY <1>5
  <2> HIDE DEF a
  <2> QED
    BY <1>5, <2>1, SumType
<1> HIDE DEF a
<1> QED
  BY <1>3, <1>4, <1>5, <1>8, <1>9 DEF Credited

Ledger(credit, counted, upTo, bytes, total, memory, stored, table, rest, clock) ==
    /\ credit \in [Ifaces \X Nat -> Nat] /\ clock \in Nat
    /\ DOMAIN bytes = Ifaces /\ DOMAIN total = Ifaces
    /\ \A i \in Ifaces : Account(i, credit, counted[i], upTo[i], bytes[i], total[i],
                                 memory, stored[i], clock)
    /\ IsFiniteSet(DOMAIN table) /\ \A k \in DOMAIN table : Credited(credit, k, table[k].rx)
    /\ \A row \in rest : Credited(credit, row.key, row.total.rx)

Ledgered ==
    /\ faults \in FaultSets
    /\ \E credit, counted, upTo :
          Ledger(credit, counted, upTo, counter, passed, raw, snaps, usage, job, now)

LEMMA LedgerBegins == ASSUME Hours!Init PROVE Ledgered
<1> DEFINE credit == [c \in Ifaces \X Nat |-> 0]
           none   == [i \in Ifaces |-> 0]
<1>1. ASSUME NEW C \in SUBSET (Ifaces \X Nat), IsFiniteSet(C) PROVE SumOf(credit, C) = 0
  <2> DEFINE Bad == {s \in SUBSET C : SumOf(credit, s) # 0}
  <2> SUFFICES ASSUME Bad # {} PROVE FALSE
    OBVIOUS
  <2>1. \A s \in Bad : IsFiniteSet(s)
    BY <1>1, FS_Subset
  <2>2. PICK s \in Bad : \A t \in Bad : ~(t \subseteq s /\ t # s)
    <3> HIDE DEF Bad
    <3> QED
      BY <2>1, SmallestSet
  <2>3. s # {}
    BY SumOfNone
  <2>4. PICK x \in s : TRUE
    BY <2>3
  <2>5. SumOf(credit, s) = credit[x] + SumOf(credit, s \ {x})
    <3>1. \A y \in s : credit[y] \in Nat
      OBVIOUS
    <3> HIDE DEF credit
    <3> QED
      BY <2>1, <3>1, SumOfOne
  <2>6. SumOf(credit, s \ {x}) = 0 /\ credit[x] = 0
    BY <2>2
  <2> HIDE DEF credit
  <2> QED
    BY <2>5, <2>6
<1>2. credit \in [Ifaces \X Nat -> Nat]
  OBVIOUS
<1>3. /\ DOMAIN counter = Ifaces /\ DOMAIN passed = Ifaces /\ now = 0
      /\ \A i \in Ifaces : counter[i] \in Nat /\ passed[i] = 0 /\ snaps[i] = {}
      /\ DOMAIN raw = {} /\ DOMAIN usage = {} /\ job = {}
  BY DEF Hours!Init
<1>4. ASSUME NEW i \in Ifaces
      PROVE  Account(i, credit, none[i], none[i], counter[i], passed[i], raw, snaps[i], now)
  <2>1. \A C \in SUBSET ({i} \X Nat) : C \in SUBSET (Ifaces \X Nat)
    OBVIOUS
  <2>2. none[i] = 0
    OBVIOUS
  <2> HIDE DEF credit, none
  <2>3. \A C \in SUBSET ({i} \X Nat) : IsFiniteSet(C) => SumOf(credit, C) <= none[i]
    BY <1>1, <2>1, <2>2
  <2>4. /\ none[i] \in Nat /\ counter[i] \in Nat /\ passed[i] \in Nat /\ none[i] <= passed[i]
        /\ snaps[i] = {} /\ i \notin DOMAIN raw
    BY <1>3, <2>2
  <2> QED
    BY <2>3, <2>4 DEF Account, InOrder, Follows
<1>5. IsFiniteSet({})
  BY FS_EmptySet
<1> HIDE DEF credit, none
<1>6. Ledger(credit, none, none, counter, passed, raw, snaps, usage, job, now)
  BY <1>2, <1>3, <1>4, <1>5 DEF Ledger
<1>7. faults \in FaultSets
  BY DEF Hours!Init
<1> QED
  BY <1>6, <1>7 DEF Ledgered

LEMMA LedgerStep ==
    ASSUME NEW credit, NEW counted, NEW upTo,
           Ledger(credit, counted, upTo, counter, passed, raw, snaps, usage, job, now),
           "no_counters" \notin faults, IsFiniteSet(Ifaces), Lookback \in Nat, Retention \in Nat,
           [Hours!Next]_hourVars
    PROVE  \E c, l, q : Ledger(c, l, q, counter', passed', raw', snaps', usage', job', now')
<1>1. /\ credit \in [Ifaces \X Nat -> Nat] /\ now \in Nat
      /\ DOMAIN counter = Ifaces /\ DOMAIN passed = Ifaces
      /\ \A i \in Ifaces : Account(i, credit, counted[i], upTo[i], counter[i], passed[i],
                                   raw, snaps[i], now)
      /\ IsFiniteSet(DOMAIN usage) /\ \A k \in DOMAIN usage : Credited(credit, k, usage[k].rx)
      /\ \A row \in job : Credited(credit, row.key, row.total.rx)
  BY DEF Ledger
<1>2. CASE UNCHANGED hourVars
  BY <1>2 DEF hourVars
<1>3. ASSUME NEW i \in Ifaces, Hours!Pass(i)
      PROVE  Ledger(credit, counted, upTo, counter', passed', raw', snaps', usage', job', now')
  <2>1. /\ counter' = [counter EXCEPT ![i] = @ + 1] /\ passed' = [passed EXCEPT ![i] = @ + 1]
        /\ UNCHANGED <<now, raw, snaps, usage, job>>
    BY <1>3 DEF Hours!Pass
  <2>2. ASSUME NEW j \in Ifaces
        PROVE  Account(j, credit, counted[j], upTo[j], counter'[j], passed'[j], raw, snaps[j], now)
    <3>1. CASE j = i
      <4>1. counter'[j] = counter[j] + 1 /\ passed'[j] = passed[j] + 1
        BY <1>1, <2>1, <3>1
      <4> QED
        BY <1>1, <4>1, AccountPass
    <3>2. CASE j # i
      <4>1. counter'[j] = counter[j] /\ passed'[j] = passed[j]
        BY <1>1, <2>1, <3>2
      <4> QED
        BY <1>1, <4>1
    <3> QED
      BY <3>1, <3>2
  <2>3. DOMAIN counter' = Ifaces /\ DOMAIN passed' = Ifaces
    BY <1>1, <2>1
  <2> QED
    BY <1>1, <2>1, <2>2, <2>3 DEF Ledger
<1>4. CASE Hours!Reboot
  <2>1. counter' = [i \in Ifaces |-> 0] /\ UNCHANGED <<passed, now, raw, snaps, usage, job>>
    BY <1>4 DEF Hours!Reboot
  <2>2. ASSUME NEW j \in Ifaces
        PROVE  Account(j, credit, counted[j], upTo[j], counter'[j], passed[j], raw, snaps[j], now)
    <3>1. counter'[j] = 0
      BY <2>1
    <3> QED
      BY <1>1, <3>1, AccountPass
  <2>3. DOMAIN counter' = Ifaces
    BY <2>1
  <2>4. Ledger(credit, counted, upTo, counter', passed', raw', snaps', usage', job', now')
    BY <1>1, <2>1, <2>2, <2>3 DEF Ledger
  <2> QED
    BY <2>4
<1>5. CASE Hours!Tick
  <2>1. now' = now + 1 /\ UNCHANGED <<counter, passed, raw, snaps, usage, job>>
    BY <1>5 DEF Hours!Tick
  <2>2. \A j \in Ifaces : Account(j, credit, counted[j], upTo[j], counter[j], passed[j],
                                  raw, snaps[j], now + 1)
    BY <1>1, AccountTick
  <2>3. Ledger(credit, counted, upTo, counter', passed', raw', snaps', usage', job', now')
    BY <1>1, <2>1, <2>2 DEF Ledger
  <2> QED
    BY <2>3
<1>6. CASE Hours!Collect \/ Hours!Restart
  <2>1. /\ UNCHANGED <<now, counter, passed, snaps, usage>> /\ job' \in SUBSET job
        /\ \A i \in Ifaces : i \in DOMAIN raw' => raw'[i] = counter[i]
    <3>1. CASE Hours!Collect
      <4>1. raw' \in Hours!Readings
        BY <3>1 DEF Hours!Collect
      <4>2. PICK answer :
              raw' \in {r \in [answer -> {counter[i] : i \in Ifaces} \cup {0}] :
                          \A i \in answer : \/ r[i] = counter[i]
                                            \/ "no_counters" \in faults /\ r[i] = 0}
        BY <4>1 DEF Hours!Readings
      <4> QED
        BY <3>1, <4>2 DEF Hours!Collect, Hours!device
    <3>2. CASE Hours!Restart
      BY <3>2 DEF Hours!Restart, Hours!device
    <3> QED
      BY <1>6, <3>1, <3>2
  <2>2. \A j \in Ifaces : Account(j, credit, counted[j], passed[j], counter[j], passed[j],
                                  raw', snaps[j], now)
    BY <1>1, <2>1, AccountCollect
  <2>3. Ledger(credit, counted, passed, counter', passed', raw', snaps', usage', job', now')
    BY <1>1, <2>1, <2>2 DEF Ledger
  <2> QED
    BY <2>3
<1>7. CASE Hours!persistCounterSnapshots
  <2>1. PICK some \in SUBSET DOMAIN raw :
          snaps' = [i \in Ifaces |->
              IF i \in some /\ \A s \in snaps[i] : s.ts # now
                THEN snaps[i] \cup {[ts |-> now, rx |-> raw[i]]}
                ELSE snaps[i]]
    BY <1>7 DEF Hours!persistCounterSnapshots
  <2>2. UNCHANGED <<now, counter, passed, raw, usage, job>>
    BY <1>7 DEF Hours!persistCounterSnapshots, Hours!device
  <2> DEFINE stored == {i \in Ifaces : i \in some /\ \A s \in snaps[i] : s.ts # now}
  <2>3. PICK c, l, q :
          /\ c = [x \in Ifaces \X Nat |-> IF x[1] \in stored /\ x[2] = now
                                            THEN credit[x] + upTo[x[1]] - counted[x[1]]
                                            ELSE credit[x]]
          /\ l = [i \in Ifaces |-> IF i \in stored THEN upTo[i] ELSE counted[i]]
          /\ q = upTo
    OBVIOUS
  <2>4. ASSUME NEW i \in stored PROVE upTo[i] \in Nat /\ counted[i] \in Nat /\ counted[i] <= upTo[i]
    BY <1>1, <2>1 DEF Account
  <2>5. /\ c \in [Ifaces \X Nat -> Nat]
        /\ \A x \in Ifaces \X Nat : credit[x] <= c[x]
    <3>1. ASSUME NEW x \in Ifaces \X Nat PROVE c[x] \in Nat /\ credit[x] <= c[x] /\ credit[x] \in Nat
      <4>1. credit[x] \in Nat
        BY <1>1
      <4>2. CASE x[1] \in stored /\ x[2] = now
        BY <2>3, <2>4, <4>1, <4>2
      <4>3. CASE ~(x[1] \in stored /\ x[2] = now)
        BY <2>3, <4>1, <4>3
      <4> QED
        BY <4>1, <4>2, <4>3
    <3> QED
      BY <2>3, <3>1
  <2>6. ASSUME NEW j \in Ifaces
        PROVE  Account(j, c, l[j], q[j], counter[j], passed[j], raw, snaps'[j], now)
    <3>1. \A t \in Nat : <<j, t>> \in Ifaces \X Nat
      OBVIOUS
    <3>2. CASE j \in stored
      <4>1. j \in DOMAIN raw /\ (\A s \in snaps[j] : s.ts # now)
            /\ snaps'[j] = snaps[j] \cup {[ts |-> now, rx |-> raw[j]]}
        BY <2>1, <3>2
      <4>2. l[j] = upTo[j] /\ q[j] = upTo[j]
        BY <2>3, <3>2
      <4>3. \A t \in Nat : c[<<j, t>>] = IF t = now THEN credit[<<j, t>>] + upTo[j] - counted[j]
                                                   ELSE credit[<<j, t>>]
        BY <2>3, <3>1, <3>2
      <4>4. \A t \in Nat : credit[<<j, t>>] \in Nat
        BY <1>1, <3>1
      <4> HIDE DEF stored
      <4>5. Account(j, c, upTo[j], upTo[j], counter[j], passed[j], raw,
                    snaps[j] \cup {[ts |-> now, rx |-> raw[j]]}, now)
        BY <1>1, <4>1, <4>3, <4>4, AccountStore
      <4> QED
        BY <4>1, <4>2, <4>5
    <3>3. CASE j \notin stored
      <4>1. snaps'[j] = snaps[j]
        BY <2>1, <3>3
      <4>2. l[j] = counted[j] /\ q[j] = upTo[j]
        BY <2>3, <3>3
      <4>3. \A t \in Nat : c[<<j, t>>] = credit[<<j, t>>]
        BY <2>3, <3>1, <3>3
      <4> HIDE DEF stored
      <4> QED
        BY <1>1, <4>1, <4>2, <4>3, AccountOther
    <3> QED
      BY <3>2, <3>3
  <2> HIDE DEF stored
  <2>7. /\ \A k \in DOMAIN usage : Credited(c, k, usage[k].rx)
        /\ \A row \in job : Credited(c, row.key, row.total.rx)
    BY <1>1, <2>5, CreditGrows
  <2>8. Ledger(c, l, q, counter', passed', raw', snaps', usage', job', now')
    BY <1>1, <2>2, <2>5, <2>6, <2>7 DEF Ledger
  <2> QED
    BY <2>8
<1>8. CASE Hours!Prune
  <2>1. /\ snaps' = [i \in Ifaces |-> {s \in snaps[i] : s.ts >= now - Retention}]
        /\ UNCHANGED <<now, counter, passed, raw, usage, job>>
    BY <1>8 DEF Hours!Prune, Hours!device
  <2>2. now - Retention \in Int
    BY <1>1
  <2>3. ASSUME NEW j \in Ifaces
        PROVE  Account(j, credit, counted[j], upTo[j], counter[j], passed[j], raw, snaps'[j], now)
    <3>1. snaps'[j] = {s \in snaps[j] : s.ts >= now - Retention}
      BY <2>1
    <3> QED
      BY <1>1, <2>2, <3>1, AccountPrune
  <2>4. Ledger(credit, counted, upTo, counter', passed', raw', snaps', usage', job', now')
    BY <1>1, <2>1, <2>3 DEF Ledger
  <2> QED
    BY <2>4
<1>9. CASE Hours!runUsageRollup
  <2>1. /\ job' \in SUBSET Hours!accumulate(Hours!Window(Lookback))
        /\ UNCHANGED <<now, counter, passed, raw, snaps, usage>>
    BY <1>9 DEF Hours!runUsageRollup, Hours!Rollup, Hours!device
  <2>2. PICK read : read = Hours!Window(Lookback)
    OBVIOUS
  <2>3. now - Lookback \in Int
    BY <1>1
  <2>4. ASSUME NEW j \in Ifaces
        PROVE  Account(j, credit, counted[j], upTo[j], counter[j], passed[j], raw, read[j], now)
    <3>1. read[j] = {s \in snaps[j] : s.ts >= now - Lookback}
      BY <2>2 DEF Hours!Window
    <3> QED
      BY <1>1, <2>3, <3>1, AccountPrune
  <2>5. \A row \in job' : Credited(credit, row.key, row.total.rx)
    <3>1. \A i \in Ifaces :
             /\ InOrder(read[i], now)
             /\ \A p, s : Follows(read[i], p, s)
                             => Hours!usageDelta(p.rx, s.rx).rx <= credit[<<i, s.ts>>]
      BY <2>4 DEF Account
    <3>2. \A row \in Hours!accumulate(read) : Credited(credit, row.key, row.total.rx)
      BY <1>1, <3>1, RowIsCredited
    <3> QED
      BY <2>1, <2>2, <3>2
  <2>6. Ledger(credit, counted, upTo, counter', passed', raw', snaps', usage', job', now')
    BY <1>1, <2>1, <2>5 DEF Ledger
  <2> QED
    BY <2>6
<1>10. CASE Hours!Write
  <2>1. PICK row \in job : /\ job' = job \ {row}
                           /\ usage' = Hours!Upsert(usage, row.key, row.total) \/ usage' = usage
    BY <1>10 DEF Hours!Write, Hours!SetUsage
  <2>2. UNCHANGED <<now, counter, passed, raw, snaps>>
    BY <1>10 DEF Hours!Write, Hours!device
  <2>3. IsFiniteSet(DOMAIN usage') /\ \A k \in DOMAIN usage' : Credited(credit, k, usage'[k].rx)
    <3>1. CASE usage' = usage
      BY <1>1, <3>1
    <3>2. CASE usage' = Hours!Upsert(usage, row.key, row.total)
      <4>1. /\ DOMAIN usage' = DOMAIN usage \cup {row.key}
            /\ \A k \in DOMAIN usage' : usage'[k] = IF k = row.key THEN row.total ELSE usage[k]
        BY <3>2 DEF Hours!Upsert
      <4>2. IsFiniteSet(DOMAIN usage')
        BY <1>1, <4>1, FS_AddElement
      <4> QED
        BY <1>1, <4>1, <4>2
    <3> QED
      BY <2>1, <3>1, <3>2
  <2>4. Ledger(credit, counted, upTo, counter', passed', raw', snaps', usage', job', now')
    BY <1>1, <2>1, <2>2, <2>3 DEF Ledger
  <2> QED
    BY <2>4
<1> QED
  BY <1>2, <1>3, <1>4, <1>5, <1>6, <1>7, <1>8, <1>9, <1>10 DEF Hours!Next

LEMMA LedgerBounds ==
    ASSUME Ledgered, IsFiniteSet(Ifaces), NEW scope \in Hours!Scopes
    PROVE  Hours!MapThenSumSet(LAMBDA k : usage[k].rx, Hours!Stored(scope)) <= Hours!PassedOf(scope)
<1>1. PICK credit, counted, upTo :
        Ledger(credit, counted, upTo, counter, passed, raw, snaps, usage, job, now)
  BY DEF Ledgered
<1>2. /\ credit \in [Ifaces \X Nat -> Nat]
      /\ \A i \in Ifaces : Account(i, credit, counted[i], upTo[i], counter[i], passed[i],
                                   raw, snaps[i], now)
      /\ IsFiniteSet(DOMAIN usage) /\ \A k \in DOMAIN usage : Credited(credit, k, usage[k].rx)
  BY <1>1 DEF Ledger
<1> DEFINE S == Hours!Stored(scope)
           J == IF scope = "device" THEN Ifaces ELSE {scope}
           a == [k \in S |-> usage[k].rx]
           Backs(k, C) == /\ C \in SUBSET Cells(scope, k[2]) /\ IsFiniteSet(C)
                          /\ usage[k].rx <= SumOf(credit, C)
           D == [k \in S |-> CHOOSE C : Backs(k, C)]
           T == UNION {D[k] : k \in S}
<1>3. J \in SUBSET Ifaces /\ IsFiniteSet(J)
  <2>1. J \in SUBSET Ifaces
    BY DEF Hours!Scopes
  <2> HIDE DEF J
  <2> QED
    BY <2>1, FS_Subset
<1>4. S \in SUBSET DOMAIN usage /\ IsFiniteSet(S) /\ \A k \in S : k = <<scope, k[2]>> /\ usage[k].rx \in Nat
  <2>1. S \in SUBSET DOMAIN usage /\ \A k \in S : k[1] = scope
    BY DEF Hours!Stored
  <2> HIDE DEF S
  <2>2. IsFiniteSet(S)
    BY <1>2, <2>1, FS_Subset
  <2> QED
    BY <1>2, <2>1, <2>2 DEF Credited
<1> HIDE DEF S
<1>5. ASSUME NEW k \in S PROVE Backs(k, D[k])
  <2>1. \E C : Backs(k, C)
    BY <1>2, <1>4 DEF Credited
  <2> HIDE DEF Backs
  <2> QED
    BY <2>1
<1> HIDE DEF D
<1>6. ASSUME NEW k \in S
      PROVE  /\ \A c \in D[k] : c \in Ifaces \X Nat /\ c[1] \in J /\ Hours!HourOf(c[2]) = k[2]
             /\ IsFiniteSet(D[k]) /\ usage[k].rx <= SumOf(credit, D[k])
  BY <1>5 DEF Cells
<1>7. IsFiniteSet(T) /\ T \in SUBSET (Ifaces \X Nat) /\ \A c \in T : c[1] \in J
  <2> DEFINE all == {D[k] : k \in S}
             f   == [k \in S |-> D[k]]
  <2>1. f \in Surjection(S, all)
    BY DEF Surjection
  <2>2. \A C \in all : IsFiniteSet(C)
    BY <1>6
  <2>3. T \in SUBSET (Ifaces \X Nat) /\ \A c \in T : c[1] \in J
    BY <1>6
  <2> HIDE DEF f, all
  <2>4. IsFiniteSet(all)
    BY <1>4, <2>1, FS_Surjection
  <2>5. IsFiniteSet(UNION all)
    BY <2>2, <2>4, FS_UNION
  <2> QED
    BY <2>3, <2>5 DEF all
<1>8. \A c \in T : credit[c] \in Nat
  BY <1>2, <1>7
<1>9. SumOf(a, S) <= SumOf(credit, T) /\ SumOf(a, S) \in Nat
  <2>1. PICK C : C = [k \in S |-> D[k]]
    OBVIOUS
  <2>2. C \in [S -> SUBSET T]
    BY <2>1
  <2>3. \A k, l \in S : k # l => C[k] \cap C[l] = {}
    BY <1>4, <1>6, <2>1
  <2>4. \A k \in S : a[k] \in Nat /\ a[k] <= SumOf(credit, C[k])
    BY <1>4, <1>6, <2>1
  <2> HIDE DEF a, T
  <2> QED
    BY <1>4, <1>7, <1>8, <2>2, <2>3, <2>4, SumOfGroups, SumType
<1>10. SumOf(credit, T) <= SumOf(passed, J) /\ SumOf(credit, T) \in Nat /\ SumOf(passed, J) \in Nat
  <2> HIDE DEF T, J
  <2>1. PICK C : C = [i \in J |-> {c \in T : c[1] = i}]
    OBVIOUS
  <2>2. C \in [J -> SUBSET T] /\ \A c \in T : \E i \in J : c \in C[i]
    BY <1>7, <2>1
  <2>3. ASSUME NEW i \in J PROVE SumOf(credit, C[i]) <= passed[i] /\ passed[i] \in Nat
    <3>1. C[i] \in SUBSET T /\ C[i] \in SUBSET ({i} \X Nat)
      BY <1>7, <2>1
    <3>2. IsFiniteSet(C[i]) /\ \A c \in C[i] : credit[c] \in Nat
      BY <1>7, <1>8, <3>1, FS_Subset
    <3>3. SumOf(credit, C[i]) \in Nat
      BY <3>2, SumType
    <3>4. SumOf(credit, C[i]) <= counted[i] /\ counted[i] \in Nat /\ counted[i] <= passed[i]
          /\ passed[i] \in Nat
      BY <1>2, <1>3, <3>1, <3>2 DEF Account
    <3> QED
      BY <3>3, <3>4
  <2> QED
    BY <1>3, <1>7, <1>8, <2>2, <2>3, SumOfCover, SumType
<1>11. Hours!MapThenSumSet(LAMBDA k : usage[k].rx, Hours!Stored(scope)) = SumOf(a, S)
  BY StoredAdds DEF S
<1>12. Hours!PassedOf(scope) = SumOf(passed, J)
  <2>1. Hours!PassedOf(scope) = Hours!MapThenSumSet(LAMBDA j : passed[j], J)
    BY DEF Hours!PassedOf
  <2> HIDE DEF J
  <2> QED
    BY <2>1, PassedAdds
<1> HIDE DEF a, T, J
<1> QED
  BY <1>9, <1>10, <1>11, <1>12

(***************************************************************************)
(* With any number of interfaces, any look-back and retention, readings    *)
(* and rows that are lost, interfaces that do not answer, restarts of the  *)
(* backend and reboots of the device: no hours add up to more than the     *)
(* bytes that passed (usage_rollup.go:21).  That an answer always has its  *)
(* counters in it is a hypothesis: without one the parser returns zero.    *)
(***************************************************************************)
THEOREM CountsNoMore ==
    ASSUME \A f \in FaultSets : "no_counters" \notin f
    PROVE  BothSpec => []NeverOverCounts
<1>1. IsFiniteSet(Ifaces) /\ Lookback \in Nat /\ Retention \in Nat
  BY ScaleAssumption, LookbackAssumption DEF ScaleAssumption, LookbackAssumption
<1>2. BothInit => Ledgered
  BY LedgerBegins DEF BothInit
<1>3. Ledgered /\ [BothNext]_bothVars => Ledgered'
  <2> SUFFICES ASSUME Ledgered, [BothNext]_bothVars PROVE Ledgered'
    OBVIOUS
  <2>1. [Hours!Next]_hourVars
    BY BothStep
  <2>2. faults \in FaultSets /\ "no_counters" \notin faults
    BY DEF Ledgered
  <2>3. faults' = faults
    BY <2>1 DEF hourVars, Hours!Next, Hours!Pass, Hours!Reboot, Hours!Tick, Hours!Collect,
         Hours!persistCounterSnapshots, Hours!Prune, Hours!runUsageRollup, Hours!Rollup, Hours!Write, Hours!Restart
  <2>4. PICK credit, counted, upTo :
          Ledger(credit, counted, upTo, counter, passed, raw, snaps, usage, job, now)
    BY DEF Ledgered
  <2>5. \E c, l, q : Ledger(c, l, q, counter', passed', raw', snaps', usage', job', now')
    BY <1>1, <2>1, <2>2, <2>4, LedgerStep
  <2> QED
    BY <2>2, <2>3, <2>5 DEF Ledgered
<1>4. Ledgered => NeverOverCounts
  BY <1>1, LedgerBounds DEF NeverOverCounts, Hours!NeverOverCounts
<1> QED
  BY <1>2, <1>3, <1>4, PTL DEF BothSpec

(***************************************************************************)
(* Without failures: what an hour that may still be written counts is part *)
(* of what the stored readings say of it, and a job whose look-back has    *)
(* reached the baseline of the prior hour takes nothing back.              *)
(***************************************************************************)
Covered(total, deltas) ==
    /\ total.rx <= SumOf([x \in deltas |-> x.delta.rx], deltas)
    /\ total.reset => \E x \in deltas : x.delta.reset

Filled(stored, from, clock) ==
    \A i \in Ifaces, t \in Nat : from <= t /\ t + ReadingGap <= clock =>
        \E s \in stored[i] : t <= s.ts /\ s.ts < t + ReadingGap

Recent(stored, key, total, clock) ==
    /\ key[1] \in Hours!Scopes /\ key[2] \in Nat
    /\ key[2] >= Hours!HourOf(clock) - 1 => Covered(total, DeltasOf(stored, key[1], key[2]))

Recorded(stored, table, rest, clock, sees) ==
    /\ Filled(stored, clock - Retention, clock)
    /\ \A k \in DOMAIN table : Recent(stored, k, table[k], clock)
    /\ \A row \in rest : Recent(stored, row.key, row.total, clock)
    /\ sees => \A row \in rest : row.key \in DOMAIN table
          => /\ row.total.rx >= table[row.key].rx
             /\ table[row.key].reset => row.total.reset
    /\ \A row, other \in rest : row.key = other.key => row = other

Later(stored, from) == [i \in Ifaces |-> {s \in stored[i] : s.ts >= from}]

LEMMA HourBounds ==
    ASSUME NEW t \in Nat
    PROVE  /\ Hours!HourOf(t) \in Nat /\ SlotsPerHour \in Nat \ {0}
           /\ Hours!HourOf(t) * SlotsPerHour \in Nat
           /\ Hours!HourOf(t) * SlotsPerHour <= t
           /\ t < Hours!HourOf(t) * SlotsPerHour + SlotsPerHour
<1>1. SlotsPerHour \in Nat \ {0}
  BY ScaleAssumption DEF ScaleAssumption
<1>2. t \div SlotsPerHour \in Nat
  BY <1>1
<1>3. /\ SlotsPerHour * (t \div SlotsPerHour) <= t
      /\ t < SlotsPerHour * (t \div SlotsPerHour) + SlotsPerHour
  BY <1>1
<1>4. SlotsPerHour * (t \div SlotsPerHour) = (t \div SlotsPerHour) * SlotsPerHour
      /\ (t \div SlotsPerHour) * SlotsPerHour \in Nat
  BY <1>1, <1>2
<1> QED
  BY <1>1, <1>2, <1>3, <1>4 DEF Hours!HourOf

LEMMA HoursPass ==
    ASSUME NEW t \in Nat PROVE Hours!HourOf(t) <= Hours!HourOf(t + 1)
<1> DEFINE a == Hours!HourOf(t)
           b == Hours!HourOf(t + 1)
<1>1. /\ a \in Nat /\ b \in Nat /\ SlotsPerHour \in Nat \ {0}
      /\ a * SlotsPerHour <= t /\ t + 1 < b * SlotsPerHour + SlotsPerHour
      /\ a * SlotsPerHour \in Nat /\ b * SlotsPerHour \in Nat
  <2>1. t + 1 \in Nat
    OBVIOUS
  <2> QED
    BY <2>1, HourBounds
<1> HIDE DEF a, b
<1>2. a * SlotsPerHour < (b + 1) * SlotsPerHour
  BY <1>1
<1>3. ASSUME b + 1 <= a PROVE FALSE
  <2>1. (b + 1) * SlotsPerHour <= a * SlotsPerHour
    BY <1>1, <1>3
  <2> QED
    BY <1>1, <1>2, <2>1
<1>4. a <= b
  BY <1>1, <1>3
<1> QED
  BY <1>4 DEF a, b

(* Where a look-back has to start to reach the baseline of the prior hour. *)
Reaches(from, clock) == from + ReadingGap <= (Hours!HourOf(clock) - 1) * SlotsPerHour

(* A slot of the current hour or the one before is no older than that hour.*)
LEMMA RecentSlots ==
    ASSUME NEW t \in Nat, NEW clock \in Nat, Hours!HourOf(t) >= Hours!HourOf(clock) - 1,
           NEW from \in Int, Reaches(from, clock)
    PROVE  t - ReadingGap >= from
<1> DEFINE a == Hours!HourOf(t)
           b == Hours!HourOf(clock)
<1>1. /\ a \in Nat /\ b \in Nat /\ SlotsPerHour \in Nat \ {0} /\ ReadingGap \in Nat
      /\ a * SlotsPerHour <= t
      /\ a * SlotsPerHour \in Nat /\ (b - 1) * SlotsPerHour \in Int
  BY HourBounds, ScaleAssumption DEF ScaleAssumption
<1>2. b - 1 <= a
  BY <1>1
<1>3. from + ReadingGap <= (b - 1) * SlotsPerHour
  BY DEF Reaches
<1> HIDE DEF a, b
<1>4. (b - 1) * SlotsPerHour <= a * SlotsPerHour
  BY <1>1, <1>2
<1> QED
  BY <1>1, <1>3, <1>4

(* What is two hours and a reading older than now reaches it at any time,  *)
(* what is two hours older does with enough of the hour left.              *)
LEMMA TwoHoursReach ==
    ASSUME NEW clock \in Nat, NEW from \in Int,
           \/ from + ReadingGap <= clock - 2 * SlotsPerHour
           \/ /\ from <= clock - 2 * SlotsPerHour
              /\ clock + ReadingGap <= SlotsPerHour * (Hours!HourOf(clock) + 1)
    PROVE  Reaches(from, clock)
<1> DEFINE b == Hours!HourOf(clock)
<1>1. /\ b \in Nat /\ SlotsPerHour \in Nat \ {0} /\ ReadingGap \in Nat
      /\ clock < b * SlotsPerHour + SlotsPerHour /\ b * SlotsPerHour \in Nat
  BY HourBounds, ScaleAssumption DEF ScaleAssumption
<1>2. clock + ReadingGap <= SlotsPerHour * (b + 1) \/ from + ReadingGap <= clock - 2 * SlotsPerHour
  OBVIOUS
<1> HIDE DEF b
<1>3. /\ SlotsPerHour * (b + 1) = b * SlotsPerHour + SlotsPerHour
      /\ (b - 1) * SlotsPerHour = b * SlotsPerHour - SlotsPerHour
  BY <1>1
<1>4. from + ReadingGap <= (b - 1) * SlotsPerHour
  <2>1. CASE from + ReadingGap <= clock - 2 * SlotsPerHour
    BY <1>1, <1>3, <2>1
  <2>2. CASE /\ from <= clock - 2 * SlotsPerHour
             /\ clock + ReadingGap <= SlotsPerHour * (b + 1)
    BY <1>1, <1>3, <2>2
  <2> QED
    BY <1>2, <2>1, <2>2 DEF b
<1> QED
  BY <1>4 DEF Reaches, b

LEMMA CoveredMore ==
    ASSUME NEW deltas, NEW more, IsFiniteSet(more), \A x \in more : x.delta.rx \in Nat,
           deltas \subseteq more, NEW total, total.rx \in Nat, Covered(total, deltas)
    PROVE  Covered(total, more)
<1> DEFINE a == [x \in deltas |-> x.delta.rx]
           b == [x \in more |-> x.delta.rx]
<1>1. IsFiniteSet(deltas) /\ \A x \in more : b[x] \in Nat
  BY FS_Subset
<1>2. \A x \in deltas : a[x] = b[x] /\ a[x] \in Nat
  OBVIOUS
<1> HIDE DEF a, b
<1>3. SumOf(a, deltas) = SumOf(b, deltas) /\ SumOf(b, deltas) <= SumOf(b, more)
  BY <1>1, <1>2, SumOfSame, SumOfFewer
<1>4. SumOf(b, deltas) \in Nat /\ SumOf(b, more) \in Nat
  <2>1. \A x \in deltas : b[x] \in Nat
    BY <1>1
  <2> QED
    BY <1>1, <2>1, SumType
<1>5. total.rx <= SumOf(a, deltas) /\ (total.reset => \E x \in deltas : x.delta.reset)
  BY DEF Covered, a
<1>6. total.rx <= SumOf(b, more)
  BY <1>3, <1>4, <1>5
<1> QED
  BY <1>5, <1>6 DEF Covered, b

(* More readings, more differences.                                        *)
LEMMA MoreDeltas ==
    ASSUME NEW readings, NEW fuller, NEW clock,
           \A i \in Ifaces : InOrder(readings[i], clock) /\ InOrder(fuller[i], clock),
           NEW scope \in Hours!Scopes, NEW h,
           \A i \in Ifaces : \A p, s : Follows(readings[i], p, s) /\ Hours!HourOf(s.ts) = h
                                         => Follows(fuller[i], p, s)
    PROVE  DeltasOf(readings, scope, h) \subseteq DeltasOf(fuller, scope, h)
<1> SUFFICES ASSUME NEW x \in DeltasOf(readings, scope, h) PROVE x \in DeltasOf(fuller, scope, h)
  OBVIOUS
<1>1. /\ \A i \in Ifaces : InOrder(readings[i], clock)
      /\ \A i \in Ifaces : InOrder(fuller[i], clock)
  OBVIOUS
<1>2. PICK i, p, s : IsDelta(readings, scope, h, x, i, p, s)
  BY <1>1, DeltaReads
<1>3. IsDelta(fuller, scope, h, x, i, p, s)
  BY <1>2 DEF IsDelta
<1> QED
  BY <1>1, <1>3, DeltaReads

(* Of the two hours that are written nothing is lost by leaving out the    *)
(* readings before: the one before an hour's first is among the rest.      *)
LEMMA KeepsRecent ==
    ASSUME NEW stored, NEW clock \in Nat, \A i \in Ifaces : InOrder(stored[i], clock),
           NEW from \in Int, Reaches(from, clock), Filled(stored, from, clock),
           NEW scope \in Hours!Scopes, NEW h \in Nat, h >= Hours!HourOf(clock) - 1
    PROVE  DeltasOf(Later(stored, from), scope, h) = DeltasOf(stored, scope, h)
<1> DEFINE later == Later(stored, from)
<1>0. \A i \in Ifaces : later[i] = {s \in stored[i] : s.ts >= from}
  BY DEF Later
<1> HIDE DEF later
<1>1. \A i \in Ifaces : InOrder(later[i], clock)
  BY <1>0 DEF InOrder
<1>2. ASSUME NEW i \in Ifaces, NEW p, NEW s, Follows(later[i], p, s)
      PROVE  Follows(stored[i], p, s)
  BY <1>0, <1>2, FollowsLater
<1>3. ASSUME NEW i \in Ifaces, NEW p, NEW s, Follows(stored[i], p, s), Hours!HourOf(s.ts) = h
      PROVE  Follows(later[i], p, s)
  <2>1. /\ p \in stored[i] /\ s \in stored[i] /\ p.ts < s.ts /\ p.ts \in Nat /\ s.ts \in Nat
        /\ s.ts <= clock
    BY <1>3 DEF Follows, InOrder
  <2>2. s.ts - ReadingGap >= from /\ ReadingGap \in Nat
    BY <1>3, <2>1, RecentSlots, ScaleAssumption DEF ScaleAssumption
  <2>3. CASE s.ts < ReadingGap
    <3>1. p.ts >= from
      BY <2>1, <2>2, <2>3
    <3> QED
      BY <1>0, <1>3, <2>1, <3>1 DEF Follows
  <2>4. CASE s.ts >= ReadingGap
    <3>1. /\ s.ts - ReadingGap \in Nat /\ (s.ts - ReadingGap) + ReadingGap = s.ts
      BY <2>1, <2>2, <2>4
    <3>2. PICK x \in stored[i] : s.ts - ReadingGap <= x.ts /\ x.ts < s.ts
      BY <2>1, <2>2, <3>1 DEF Filled
    <3>3. x.ts \in Nat /\ ~(p.ts < x.ts)
      BY <1>3, <3>2 DEF Follows, InOrder
    <3>4. p.ts >= from
      BY <2>1, <2>2, <3>2, <3>3
    <3> QED
      BY <1>0, <1>3, <2>1, <3>4 DEF Follows
  <2> QED
    BY <2>1, <2>2, <2>3, <2>4
<1>4. /\ DeltasOf(later, scope, h) \subseteq DeltasOf(stored, scope, h)
      /\ DeltasOf(stored, scope, h) \subseteq DeltasOf(later, scope, h)
  BY <1>1, <1>2, <1>3, MoreDeltas
<1> QED
  BY <1>4 DEF later

(* A row of the job says what the readings it has read say of its hour.    *)
LEMMA RowIsCovered ==
    ASSUME NEW readings, NEW clock, \A i \in Ifaces : InOrder(readings[i], clock),
           NEW row \in Hours!accumulate(readings)
    PROVE  \E scope, h :
              /\ scope \in Hours!Scopes /\ h \in Nat /\ row.key = <<scope, h>>
              /\ row = Hours!Row(scope, h, DeltasOf(readings, scope, h))
              /\ LET deltas == DeltasOf(readings, scope, h)
                 IN  /\ row.total.rx = SumOf([x \in deltas |-> x.delta.rx], deltas)
                     /\ row.total.reset <=> \E x \in deltas : x.delta.reset
<1>1. PICK scope, h, x :
        /\ scope \in Hours!Scopes /\ x \in DeltasOf(readings, scope, h)
        /\ row = Hours!Row(scope, h, DeltasOf(readings, scope, h))
  BY RowReads
<1>2. PICK i, p, s : IsDelta(readings, scope, h, x, i, p, s)
  BY <1>1, DeltaReads
<1>3. h \in Nat
  <2>1. s.ts \in Nat /\ Hours!HourOf(s.ts) = h
    BY <1>2 DEF IsDelta, Follows, InOrder
  <2> QED
    BY <2>1, HourBounds
<1>4. PICK deltas : deltas = DeltasOf(readings, scope, h)
  OBVIOUS
<1>5. /\ row.key = <<scope, h>>
      /\ row.total.rx = SumOf([y \in deltas |-> y.delta.rx], deltas)
      /\ row.total.reset <=> \E y \in deltas : y.delta.reset
  BY <1>1, <1>4, RowAdds DEF Hours!Row
<1> QED
  BY <1>1, <1>3, <1>4, <1>5

LEMMA RecordedStep ==
    ASSUME faults = {}, Lookback >= 2 * SlotsPerHour, IsFiniteSet(Ifaces), ReadingGap \in Nat,
           Lookback \in Nat, Retention \in Nat, Retention >= Lookback + ReadingGap, now \in Nat, now' \in Nat,
           \A i \in Ifaces : InOrder(snaps[i], now) /\ InOrder(snaps'[i], now'),
           \A k \in DOMAIN usage : usage[k].rx \in Nat,
           \A row \in job : row.total.rx \in Nat,
           \A row \in job' : row.total.rx \in Nat,
           Recorded(snaps, usage, job, now, Hours!SeesBaseline), [Hours!Next]_hourVars
    PROVE  Recorded(snaps', usage', job', now', Hours!SeesBaseline')
<1>1. /\ \A i \in Ifaces, t \in Nat :
            now - Retention <= t /\ t + ReadingGap <= now =>
                \E s \in snaps[i] : t <= s.ts /\ s.ts < t + ReadingGap
      /\ \A k \in DOMAIN usage : Recent(snaps, k, usage[k], now)
      /\ \A row \in job : Recent(snaps, row.key, row.total, now)
      /\ Hours!SeesBaseline => \A row \in job : row.key \in DOMAIN usage
            => /\ row.total.rx >= usage[row.key].rx
               /\ usage[row.key].reset => row.total.reset
      /\ \A row, other \in job : row.key = other.key => row = other
  BY DEF Recorded, Filled
<1>2. /\ SlotsPerHour \in Nat /\ 2 * SlotsPerHour \in Nat
      /\ \A i \in Ifaces : InOrder(snaps[i], now)
      /\ \A i \in Ifaces : InOrder(snaps'[i], now')
  BY ScaleAssumption DEF ScaleAssumption
<1>a. readAt' = readAt => (Hours!SeesBaseline' <=> Hours!SeesBaseline)
  BY DEF Hours!SeesBaseline
<1>3. CASE UNCHANGED hourVars \/ Hours!Reboot \/ Hours!Collect \/ \E i \in Ifaces : Hours!Pass(i)
  <2>1. UNCHANGED <<snaps, usage, job, now, readAt>>
    BY <1>3 DEF hourVars, Hours!Reboot, Hours!Collect, Hours!Pass, Hours!device
  <2> QED
    BY <1>1, <1>a, <2>1 DEF Recorded, Filled
<1>4. CASE Hours!Restart
  <2>1. UNCHANGED <<snaps, usage, now>> /\ job' = {}
    BY <1>4 DEF Hours!Restart, Hours!device
  <2> QED
    BY <1>1, <2>1 DEF Recorded, Filled
<1>5. CASE Hours!Tick
  <2>1. /\ now' = now + 1 /\ UNCHANGED <<snaps, usage, job, readAt>>
        /\ \A i \in Ifaces : \E s \in snaps[i] : s.ts > now - ReadingGap
    BY <1>5 DEF Hours!Tick
  <2>2. ASSUME NEW i \in Ifaces, NEW t \in Nat, now' - Retention <= t, t + ReadingGap <= now'
        PROVE  \E s \in snaps[i] : t <= s.ts /\ s.ts < t + ReadingGap
    <3>1. CASE t + ReadingGap = now + 1
      <4>1. PICK s \in snaps[i] : s.ts > now - ReadingGap
        BY <2>1
      <4>2. s.ts \in Nat /\ s.ts <= now
        BY <1>2, <4>1 DEF InOrder
      <4> QED
        BY <3>1, <4>1, <4>2
    <3>2. CASE t + ReadingGap # now + 1
      <4>1. now - Retention <= t /\ t + ReadingGap <= now
        BY <2>1, <2>2, <3>2
      <4> QED
        BY <1>1, <4>1
    <3> QED
      BY <3>1, <3>2
  <2>3. Hours!HourOf(now) <= Hours!HourOf(now') /\ Hours!HourOf(now) \in Nat /\ Hours!HourOf(now') \in Nat
    BY <2>1, HoursPass, HourBounds
  <2>4. ASSUME NEW key, NEW total, Recent(snaps, key, total, now)
        PROVE  Recent(snaps, key, total, now')
    BY <2>3, <2>4 DEF Recent
  <2> QED
    BY <1>1, <1>a, <2>1, <2>2, <2>4 DEF Recorded, Filled
<1>6. CASE Hours!persistCounterSnapshots
  <2>1. \A i \in Ifaces : \/ snaps'[i] = snaps[i]
                          \/ snaps'[i] = snaps[i] \cup {[ts |-> now, rx |-> raw[i]]}
    BY <1>6 DEF Hours!persistCounterSnapshots
  <2>2. UNCHANGED <<usage, job, now, readAt>>
    BY <1>6 DEF Hours!persistCounterSnapshots, Hours!device
  <2>3. \A i \in Ifaces, t \in Nat :
            now - Retention <= t /\ t + ReadingGap <= now =>
                \E s \in snaps'[i] : t <= s.ts /\ s.ts < t + ReadingGap
    BY <1>1, <2>1
  <2>4. ASSUME NEW i \in Ifaces, NEW p, NEW s, Follows(snaps[i], p, s)
        PROVE  Follows(snaps'[i], p, s)
    <3>1. p \in snaps'[i] /\ s \in snaps'[i] /\ s.ts \in Nat /\ s.ts <= now
      BY <1>2, <2>1, <2>4 DEF Follows, InOrder
    <3>2. ASSUME NEW x \in snaps'[i], p.ts < x.ts, x.ts < s.ts PROVE FALSE
      <4>1. x \in snaps[i] \/ x.ts = now
        BY <2>1
      <4> QED
        BY <2>4, <3>1, <3>2, <4>1 DEF Follows
    <3> QED
      BY <2>4, <3>1, <3>2 DEF Follows
  <2>5. ASSUME NEW key, NEW total, total.rx \in Nat, Recent(snaps, key, total, now)
        PROVE  Recent(snaps', key, total, now)
    <3>1. CASE key[2] >= Hours!HourOf(now) - 1
      <4>1. /\ key[1] \in Hours!Scopes /\ key[2] \in Nat
            /\ Covered(total, DeltasOf(snaps, key[1], key[2]))
        BY <2>5, <3>1 DEF Recent
      <4>2. DeltasOf(snaps, key[1], key[2]) \subseteq DeltasOf(snaps', key[1], key[2])
        BY <1>2, <2>2, <2>4, <4>1, MoreDeltas
      <4>3. PICK more : more = DeltasOf(snaps', key[1], key[2])
        OBVIOUS
      <4>4. IsFiniteSet(more) /\ \A x \in more : x.delta.rx \in Nat
        BY <1>2, <4>1, <4>3, DeltasApart
      <4>5. Covered(total, more)
        BY <2>5, <4>1, <4>2, <4>3, <4>4, CoveredMore
      <4> QED
        BY <4>1, <4>3, <4>5 DEF Recent
    <3>2. CASE ~(key[2] >= Hours!HourOf(now) - 1)
      BY <2>5, <3>2 DEF Recent
    <3> QED
      BY <3>1, <3>2
  <2>6. /\ \A k \in DOMAIN usage : Recent(snaps', k, usage[k], now)
        /\ \A row \in job : Recent(snaps', row.key, row.total, now)
    BY <1>1, <2>5
  <2> QED
    BY <1>1, <1>a, <2>2, <2>3, <2>6 DEF Recorded, Filled
<1>7. CASE Hours!Prune
  <2>1. /\ \A i \in Ifaces : snaps'[i] = {s \in snaps[i] : s.ts >= now - Retention}
        /\ UNCHANGED <<usage, job, now, readAt>>
    BY <1>7 DEF Hours!Prune, Hours!device
  <2>2. \A i \in Ifaces, t \in Nat :
            now - Retention <= t /\ t + ReadingGap <= now =>
                \E s \in snaps'[i] : t <= s.ts /\ s.ts < t + ReadingGap
    <3>1. ASSUME NEW i \in Ifaces, NEW t \in Nat, now - Retention <= t, t + ReadingGap <= now
          PROVE  \E s \in snaps'[i] : t <= s.ts /\ s.ts < t + ReadingGap
      <4>1. PICK s \in snaps[i] : t <= s.ts /\ s.ts < t + ReadingGap
        BY <1>1, <3>1
      <4>2. s.ts \in Nat /\ s.ts >= now - Retention
        BY <1>2, <3>1, <4>1 DEF InOrder
      <4> QED
        BY <2>1, <4>1, <4>2
    <3> QED
      BY <3>1
  <2>3. PICK from \in Int : from = now - Retention /\ Reaches(from, now)
    <3>1. now - Retention \in Int /\ (now - Retention) + ReadingGap <= now - 2 * SlotsPerHour
      BY <1>2
    <3> QED
      BY <3>1, TwoHoursReach
  <2>4. ASSUME NEW scope \in Hours!Scopes, NEW h \in Nat, h >= Hours!HourOf(now) - 1
        PROVE  DeltasOf(snaps', scope, h) = DeltasOf(snaps, scope, h)
    <3>1. snaps' = Later(snaps, from) /\ Filled(snaps, from, now)
      BY <1>1, <1>7, <2>3 DEF Hours!Prune, Later, Filled
    <3>2. DeltasOf(Later(snaps, from), scope, h) = DeltasOf(snaps, scope, h)
      BY <1>2, <2>3, <2>4, <3>1, KeepsRecent
    <3> QED
      BY <3>1, <3>2
  <2>5. ASSUME NEW key, NEW total, Recent(snaps, key, total, now)
        PROVE  Recent(snaps', key, total, now)
    BY <2>4, <2>5 DEF Recent
  <2> QED
    BY <1>1, <1>a, <2>1, <2>2, <2>5 DEF Recorded, Filled
<1>8. CASE Hours!runUsageRollup
  <2>1. PICK read : read = Hours!Window(Lookback)
    OBVIOUS
  <2>2. /\ job' = {r \in Hours!accumulate(read) : r.key[2] >= Hours!HourOf(now) - 1}
        /\ UNCHANGED <<snaps, usage, now>>
        /\ job' # {} => readAt' = now
    BY <1>8, <2>1 DEF Hours!runUsageRollup, Hours!Rollup, Hours!ReadAt, Hours!device
  <2>3. \A i \in Ifaces : read[i] = {s \in snaps[i] : s.ts >= now - Lookback}
    BY <2>1 DEF Hours!Window
  <2>4. \A i \in Ifaces : InOrder(read[i], now)
    BY <1>2, <2>3 DEF InOrder
  <2>5. now - Lookback \in Int /\ read = Later(snaps, now - Lookback)
    BY <2>1 DEF Hours!Window, Later
  <2>6. ASSUME NEW scope \in Hours!Scopes, NEW h \in Nat
        PROVE  DeltasOf(read, scope, h) \subseteq DeltasOf(snaps, scope, h)
    <3>1. ASSUME NEW i \in Ifaces, NEW p, NEW s, Follows(read[i], p, s)
          PROVE  Follows(snaps[i], p, s)
      BY <1>2, <2>3, <2>5, <3>1, FollowsLater
    <3> QED
      BY <1>2, <2>4, <3>1, MoreDeltas
  <2>7. ASSUME job' # {}, Hours!SeesBaseline',
               NEW scope \in Hours!Scopes, NEW h \in Nat, h >= Hours!HourOf(now) - 1
        PROVE  DeltasOf(read, scope, h) = DeltasOf(snaps, scope, h)
    <3>1. readAt' = now /\ now + ReadingGap <= SlotsPerHour * (Hours!HourOf(now) + 1)
      BY <2>2, <2>7 DEF Hours!SeesBaseline, Hours!HourOf
    <3>2. now - Lookback <= now - 2 * SlotsPerHour
      BY <1>2
    <3>3. Reaches(now - Lookback, now)
      BY <2>5, <3>1, <3>2, TwoHoursReach
    <3>4. ASSUME NEW i \in Ifaces, NEW t \in Nat, now - Lookback <= t, t + ReadingGap <= now
          PROVE  \E s \in snaps[i] : t <= s.ts /\ s.ts < t + ReadingGap
      <4>1. now - Retention <= t
        BY <3>4
      <4> QED
        BY <1>1, <3>4, <4>1
    <3>5. Filled(snaps, now - Lookback, now)
      BY <3>4 DEF Filled
    <3> QED
      BY <1>2, <2>5, <2>7, <3>3, <3>5, KeepsRecent
  <2> DEFINE Says(row, scope, h, deltas) ==
                /\ scope \in Hours!Scopes /\ h \in Nat /\ row.key = <<scope, h>>
                /\ h >= Hours!HourOf(now) - 1
                /\ deltas = DeltasOf(read, scope, h)
                /\ row = Hours!Row(scope, h, deltas)
                /\ row.total.rx = SumOf([x \in deltas |-> x.delta.rx], deltas)
                /\ row.total.reset <=> \E x \in deltas : x.delta.reset
  <2>8. ASSUME NEW row \in job'
        PROVE  \E scope, h, deltas : Says(row, scope, h, deltas)
    <3>1. row \in Hours!accumulate(read) /\ row.key[2] >= Hours!HourOf(now) - 1
      BY <2>2
    <3>2. PICK scope, h :
            /\ scope \in Hours!Scopes /\ h \in Nat /\ row.key = <<scope, h>>
            /\ row = Hours!Row(scope, h, DeltasOf(read, scope, h))
            /\ LET deltas == DeltasOf(read, scope, h)
               IN  /\ row.total.rx = SumOf([x \in deltas |-> x.delta.rx], deltas)
                   /\ row.total.reset <=> \E x \in deltas : x.delta.reset
      BY <2>4, <3>1, RowIsCovered
    <3>3. h >= Hours!HourOf(now) - 1
      BY <3>1, <3>2
    <3>4. PICK deltas : deltas = DeltasOf(read, scope, h)
      OBVIOUS
    <3>5. Says(row, scope, h, deltas)
      BY <3>2, <3>3, <3>4
    <3> QED
      BY <3>5
  <2>9. ASSUME NEW row \in job' PROVE Recent(snaps, row.key, row.total, now)
    <3>1. PICK scope, h, deltas : Says(row, scope, h, deltas)
      BY <2>8
    <3>2. row.total.rx \in Nat /\ Covered(row.total, deltas)
      <4>1. row.total.rx \in Nat
        OBVIOUS
      <4> QED
        BY <3>1, <4>1 DEF Covered
    <3>3. PICK more : more = DeltasOf(snaps, scope, h)
      OBVIOUS
    <3>4. /\ IsFiniteSet(more) /\ \A x \in more : x.delta.rx \in Nat
          /\ deltas \subseteq more
      BY <1>2, <2>6, <3>1, <3>3, DeltasApart
    <3>5. Covered(row.total, more)
      BY <3>2, <3>4, CoveredMore
    <3>6. row.key[1] = scope /\ row.key[2] = h
      BY <3>1
    <3> QED
      BY <3>1, <3>3, <3>5, <3>6 DEF Recent
  <2>10. ASSUME Hours!SeesBaseline', NEW row \in job', row.key \in DOMAIN usage
         PROVE  /\ row.total.rx >= usage[row.key].rx
                /\ usage[row.key].reset => row.total.reset
    <3>1. PICK scope, h, deltas : Says(row, scope, h, deltas)
      BY <2>8
    <3>2. row.key[1] = scope /\ row.key[2] = h
      BY <3>1
    <3>3. deltas = DeltasOf(snaps, scope, h)
      BY <2>7, <2>10, <3>1
    <3>4. Covered(usage[row.key], deltas)
      BY <1>1, <2>10, <3>1, <3>2, <3>3 DEF Recent
    <3>5. row.total.rx \in Nat /\ usage[row.key].rx \in Nat
      BY <2>10
    <3> QED
      BY <3>1, <3>4, <3>5 DEF Covered
  <2>11. ASSUME NEW row \in job', NEW other \in job', row.key = other.key PROVE row = other
    <3>1. PICK scope, h, deltas : Says(row, scope, h, deltas)
      BY <2>8
    <3>2. PICK scope2, h2, deltas2 : Says(other, scope2, h2, deltas2)
      BY <2>8
    <3>3. <<scope, h>> = <<scope2, h2>>
      BY <2>11, <3>1, <3>2
    <3>4. scope = scope2 /\ h = h2
      BY <3>3
    <3> QED
      BY <3>1, <3>2, <3>4
  <2> QED
    BY <1>1, <2>2, <2>9, <2>10, <2>11 DEF Recorded, Filled
<1>9. CASE Hours!Write
  <2>1. PICK row \in job : job' = job \ {row} /\ usage' = Hours!Upsert(usage, row.key, row.total)
    BY <1>9 DEF Hours!Write, Hours!SetUsage
  <2>2. UNCHANGED <<snaps, now>> /\ (job' # {} => readAt' = readAt)
    BY <1>9 DEF Hours!Write, Hours!ReadAt, Hours!device
  <2>3. /\ DOMAIN usage' = DOMAIN usage \cup {row.key}
        /\ \A k \in DOMAIN usage' : usage'[k] = IF k = row.key THEN row.total ELSE usage[k]
    BY <2>1 DEF Hours!Upsert
  <2>4. \A k \in DOMAIN usage' : Recent(snaps, k, usage'[k], now)
    BY <1>1, <2>3
  <2>5. ASSUME Hours!SeesBaseline', NEW other \in job', other.key \in DOMAIN usage'
        PROVE  /\ other.total.rx >= usage'[other.key].rx
               /\ usage'[other.key].reset => other.total.reset
    <3>1. other \in job /\ other.key # row.key
      BY <1>1, <2>1
    <3>2. other.key \in DOMAIN usage /\ usage'[other.key] = usage[other.key]
      BY <2>3, <2>5, <3>1
    <3>3. Hours!SeesBaseline
      BY <1>a, <2>2, <2>5
    <3> QED
      BY <1>1, <3>1, <3>2, <3>3
  <2>6. \A r, other \in job' : r.key = other.key => r = other
    BY <1>1, <2>1
  <2>7. \A r \in job' : Recent(snaps, r.key, r.total, now)
    BY <1>1, <2>1
  <2> QED
    BY <1>1, <2>2, <2>4, <2>5, <2>6, <2>7 DEF Recorded, Filled
<1> QED
  BY <1>3, <1>4, <1>5, <1>6, <1>7, <1>8, <1>9 DEF Hours!Next

(***************************************************************************)
(* With a look-back of two hours and nothing that fails: only a pass in    *)
(* the last reading interval of an hour takes back anything that a stored  *)
(* hour has counted, or the mark of a reset in it, through restarts of the *)
(* backend and reboots of the device (usage_rollup.go:113, 129-132).       *)
(***************************************************************************)
THEOREM TakesNothingBack ==
    ASSUME Lookback >= 2 * SlotsPerHour
    PROVE  BothSpec => HoursKept
<1> DEFINE A == faults = {} /\ Hours!SeesBaseline => Hours!NothingTakenBack
           L == \E c, l, q : Ledger(c, l, q, counter, passed, raw, snaps, usage, job, now)
           Inv == faults = {} => L /\ Recorded(snaps, usage, job, now, Hours!SeesBaseline)
<1>1. /\ IsFiniteSet(Ifaces) /\ {Lookback, Retention, ReadingGap} \subseteq Nat
      /\ Retention >= Lookback + ReadingGap
  BY ScaleAssumption, LookbackAssumption DEF ScaleAssumption, LookbackAssumption
<1>2. BothInit => Inv
  <2> SUFFICES ASSUME BothInit PROVE Inv
    OBVIOUS
  <2>1. Hours!Init
    BY DEF BothInit
  <2>2. L
    BY <2>1, LedgerBegins DEF Ledgered
  <2>3. Recorded(snaps, usage, job, now, Hours!SeesBaseline)
    <3>1. now = 0 /\ usage = <<>> /\ job = {}
      BY <2>1 DEF Hours!Init
    <3>2. ReadingGap \in Nat \ {0}
      BY ScaleAssumption DEF ScaleAssumption
    <3>3. \A t \in Nat : ~(t + ReadingGap <= 0)
      BY <3>2
    <3> QED
      BY <3>1, <3>3 DEF Recorded, Filled
  <2> QED
    BY <2>2, <2>3
<1>3. ASSUME Inv, [BothNext]_bothVars PROVE Inv'
  <2>1. [Hours!Next]_hourVars
    BY <1>3, BothStep
  <2>2. faults' = faults
    BY <2>1 DEF hourVars, Hours!Next, Hours!Pass, Hours!Reboot, Hours!Tick, Hours!Collect,
         Hours!persistCounterSnapshots, Hours!Prune, Hours!runUsageRollup, Hours!Rollup, Hours!Write, Hours!Restart
  <2> SUFFICES ASSUME faults = {} PROVE L' /\ Recorded(snaps, usage, job, now, Hours!SeesBaseline)'
    BY <2>2
  <2>3. PICK credit, counted, upTo :
          Ledger(credit, counted, upTo, counter, passed, raw, snaps, usage, job, now)
    BY <1>3
  <2>4. PICK c, l, q : Ledger(c, l, q, counter', passed', raw', snaps', usage', job', now')
    BY <1>1, <2>1, <2>3, LedgerStep
  <2>5. /\ \A i \in Ifaces : InOrder(snaps[i], now) /\ InOrder(snaps'[i], now')
        /\ now \in Nat /\ now' \in Nat
    BY <2>3, <2>4 DEF Ledger, Account
  <2>6. /\ \A k \in DOMAIN usage : usage[k].rx \in Nat
        /\ \A row \in job : row.total.rx \in Nat
        /\ \A row \in job' : row.total.rx \in Nat
    BY <2>3, <2>4 DEF Ledger, Credited
  <2>7. Recorded(snaps', usage', job', now', Hours!SeesBaseline')
    BY <1>1, <1>3, <2>1, <2>5, <2>6, RecordedStep
  <2> QED
    BY <2>4, <2>7
<1>4. ASSUME Inv, [BothNext]_bothVars PROVE [A]_(Hours!vars)
  <2> SUFFICES ASSUME faults = {}, Hours!SeesBaseline, NEW k \in DOMAIN usage
               PROVE  /\ usage'[k].rx >= usage[k].rx
                      /\ usage[k].reset => usage'[k].reset
    BY DEF Hours!NothingTakenBack
  <2>1. [Hours!Next]_hourVars
    BY <1>4, BothStep
  <2>2. usage[k].rx \in Nat /\ Recorded(snaps, usage, job, now, Hours!SeesBaseline)
    BY <1>4 DEF Ledger, Credited
  <2>3. CASE usage' = usage
    BY <2>2, <2>3
  <2>4. CASE Hours!Write
    <3>1. PICK row \in job : usage' = Hours!Upsert(usage, row.key, row.total)
      BY <2>4 DEF Hours!Write, Hours!SetUsage
    <3>2. usage'[k] = IF k = row.key THEN row.total ELSE usage[k]
      BY <3>1 DEF Hours!Upsert
    <3> QED
      BY <2>2, <3>1, <3>2 DEF Recorded
  <2> QED
    BY <2>1, <2>3, <2>4 DEF hourVars, Hours!Next, Hours!Pass, Hours!Reboot, Hours!Tick,
         Hours!Collect, Hours!persistCounterSnapshots, Hours!Prune, Hours!runUsageRollup, Hours!Rollup, Hours!Restart
<1>5. HoursKept <=> [][A]_(Hours!vars)
  BY DEF HoursKept, Hours!HoursKept
<1> HIDE DEF A, Inv
<1> QED
  BY <1>2, <1>3, <1>4, <1>5, PTL DEF BothSpec

=============================================================================
