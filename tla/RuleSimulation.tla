--------------------------- MODULE RuleSimulation ---------------------------
(***************************************************************************)
(* The simulation of a packet against one firewall rule set and the search *)
(* for rules that can never match.  A specification of addresses or ports  *)
(* is the set of those it admits, a rule's number is its place in the set, *)
(* a state specification with no flag in it is the empty set.              *)
(*                                                                         *)
(* Two meanings of "a rule matches a packet" occur: the simulation's       *)
(* (matchRule) and the device's (Applies), for which groups, source ports  *)
(* and every list of countries count as well.                              *)
(***************************************************************************)
EXTENDS Naturals, Sequences

CONSTANTS
    Protos, Addrs, Ports, Countries, States,
    MgmtPorts, \* 22, 23, 3389 and 5900
    AnyProto, \* the protocol "", "any" or "all"
    NoState,  \* a simulated packet without a connection state
    RuleSets, \* the rule sets to consider
    Packets   \* the packets to consider

Actions == {"accept", "drop", "reject", "jump"}

(* in is what the text lists; "" and, of addresses, 0.0.0.0/0 list any.    *)
Listed(values) == [any: BOOLEAN, not: BOOLEAN, in: SUBSET values]

Rule ==
    [action: Actions, disable: BOOLEAN, proto: Protos \cup {AnyProto},
     src: Listed(Addrs), dst: Listed(Addrs), sport: Listed(Ports), dport: Listed(Ports),
     srcScoped: BOOLEAN, \* a group of addresses or a MAC as its source
     dstScoped: BOOLEAN, \* the same of its destination
     portGroup: BOOLEAN, \* a group of destination ports
     srcGeo: SUBSET Countries, dstGeo: SUBSET Countries,
     states: SUBSET States]

Packet ==
    [proto: Protos, src: Addrs, dst: Addrs, sport: Ports, dport: Ports,
     member: BOOLEAN, portMember: BOOLEAN, \* is in the groups that rules name
     country: Countries, state: States \cup {NoState}]

ASSUME KnownRules   == RuleSets \subseteq Seq(Rule)
ASSUME KnownPackets == Packets \subseteq Packet
ASSUME ApartAny     == AnyProto \notin Protos /\ NoState \notin States

VARIABLES
    rules,   \* Engine.Rules
    pkt,     \* the packet
    trace,   \* the status of each rule evaluated so far
    matched  \* the place of MatchedRule, 0 if there is none yet

vars == <<rules, pkt, trace, matched>>

Status == {"match", "no_match", "not_evaluated"}

Init ==
    /\ rules \in RuleSets
    /\ pkt \in Packets
    /\ trace = << >>
    /\ matched = 0

Within(spec, x) == spec.any \/ (x \in spec.in) # spec.not

---------------------------------------------------------------------------
(* RunSimulation.  A list of countries restricts only a rule that drops.   *)

matchRule(r, p) ==
    /\ r.proto \in {AnyProto, p.proto}
    /\ Within(r.dport, p.dport)
    /\ Within(r.src, p.src)
    /\ Within(r.dst, p.dst)
    /\ \A geo \in {r.srcGeo, r.dstGeo} :
           geo # {} /\ r.action = "drop" => p.country \in geo
    /\ r.states # {} /\ p.state # NoState => p.state \in r.states

(* Mutant: the rules after the match are evaluated too.                    *)
EvaluateAll(r) ==
    IF ~r.disable /\ matchRule(r, pkt) THEN "match" ELSE "no_match"

(* Mutant: disabled rules are evaluated.                                   *)
EvaluateDisabled(r) ==
    IF matched # 0 THEN "not_evaluated"
    ELSE IF matchRule(r, pkt) THEN "match" ELSE "no_match"

Evaluate(r) ==
    IF r.disable THEN "no_match"
    ELSE IF matched # 0 THEN "not_evaluated"
    ELSE IF matchRule(r, pkt) THEN "match" ELSE "no_match"

(* One round of the loop over e.Rules.                                     *)
RunSimulation ==
    /\ Len(trace) < Len(rules)
    /\ LET next == Len(trace) + 1
           status == Evaluate(rules[next])
       IN  /\ trace' = Append(trace, status)
           /\ matched' = IF status = "match" THEN next ELSE matched
    /\ UNCHANGED <<rules, pkt>>

Next == RunSimulation

Spec == Init /\ [][Next]_vars

---------------------------------------------------------------------------
(* The analysis of a rule set.                                             *)

(* Mutant: one state in common is enough.                                  *)
AnyCommonState(a, b) == b.states = {} \/ a.states \cap b.states # {}

(* a permits every state b permits; no states are all states.              *)
stateCovers(a, b) == b.states # {} /\ b.states \subseteq a.states

(* Mutant: groups are no restriction.                                      *)
ShadowsDespiteGroups(a, b) ==
    /\ a.proto \in {AnyProto, b.proto}
    /\ a.dport.any
    /\ a.src.any /\ a.dst.any
    /\ a.srcGeo = {} /\ a.dstGeo = {}
    /\ a.states # {} => stateCovers(a, b)

shadows(a, b) ==
    /\ a.proto \in {AnyProto, b.proto}
    /\ a.dport.any /\ ~a.portGroup
    /\ a.src.any /\ a.dst.any /\ ~a.srcScoped /\ ~a.dstScoped
    /\ a.srcGeo = {} /\ a.dstGeo = {}
    /\ a.states # {} => stateCovers(a, b)

(* <<candidate, prior>> for each rule that is found unreachable, with the  *)
(* first rule that makes it so.                                            *)
Shadowing(i, j) ==
    /\ i < j /\ ~rules[i].disable /\ ~rules[j].disable
    /\ shadows(rules[i], rules[j])

detectShadows ==
    {f \in (DOMAIN rules) \X (DOMAIN rules) :
        Shadowing(f[2], f[1]) /\ \A i \in 1..(f[2] - 1) : ~Shadowing(i, f[1])}

(* Mutant: only a rule for any protocol can be wide open.                  *)
AllowAnyProto(r) ==
    /\ r.action = "accept" /\ r.proto = AnyProto
    /\ r.src.any /\ ~r.srcScoped /\ r.dst.any /\ ~r.dstScoped
    /\ r.dport.any /\ ~r.portGroup

AllowAny(r) ==
    /\ r.action = "accept"
    /\ r.src.any /\ ~r.srcScoped /\ r.dst.any /\ ~r.dstScoped
    /\ r.dport.any /\ ~r.portGroup

ExposedMgmt(r, port) ==
    /\ r.action = "accept"
    /\ r.src.any /\ ~r.srcScoped
    /\ ~r.dport.any /\ Within(r.dport, port)

BroadGeo(r) ==
    /\ r.srcGeo # {} \/ r.dstGeo # {}
    /\ r.proto = AnyProto /\ r.dport.any /\ ~r.portGroup

(* Each finding is a code and the rule it is about.  "broad_src", which    *)
(* tells 0.0.0.0/0 from no address, is left out.                           *)
detectRiskyRules ==
    LET enabled == {i \in DOMAIN rules : ~rules[i].disable}
    IN  {<<"allow_any", i>> : i \in {j \in enabled : AllowAny(rules[j])}}
        \cup {<<"exposed_mgmt", i>> : i \in
               {j \in enabled : \E port \in MgmtPorts : ExposedMgmt(rules[j], port)}}
        \cup {<<"broad_geo", i>> : i \in {j \in enabled : BroadGeo(rules[j])}}

---------------------------------------------------------------------------
(* The device: everything a rule says restricts it; after a jump the rules *)
(* that follow may still be reached.                                       *)

Applies(r, p) ==
    /\ ~r.disable
    /\ r.proto \in {AnyProto, p.proto}
    /\ Within(r.src, p.src) /\ Within(r.dst, p.dst)
    /\ Within(r.sport, p.sport) /\ Within(r.dport, p.dport)
    /\ r.srcScoped \/ r.dstScoped => p.member
    /\ r.portGroup => p.portMember
    /\ \A geo \in {r.srcGeo, r.dstGeo} : geo # {} => p.country \in geo
    /\ r.states # {} => p.state \in r.states

Ends(r, p) == Applies(r, p) /\ r.action # "jump"

Reached(i, p) == Applies(rules[i], p) /\ \A k \in 1..(i - 1) : ~Ends(rules[k], p)

---------------------------------------------------------------------------
Matches(i) == ~rules[i].disable /\ matchRule(rules[i], pkt)

(* What has been evaluated so far says which rule matched first, and why   *)
(* each other one did not (inductive; engine.go:72-101).                   *)
IInv ==
    /\ rules \in Seq(Rule) /\ pkt \in Packet
    /\ trace \in Seq(Status) /\ Len(trace) <= Len(rules)
    /\ matched \in 0..Len(trace)
    /\ \A i \in 1..Len(trace) : trace[i] = "match" <=> i = matched
    /\ matched # 0 => Matches(matched)
    /\ \A i \in 1..Len(trace) : matched = 0 \/ i < matched => ~Matches(i)

(* "evaluates pkt against every rule in order and returns a full trace plus*)
(* the first matching rule" (engine.go:70-71): the rule reported is the    *)
(* first one that matches, none is reported only if none does, and the     *)
(* trace has one entry per rule, of which at most one is a match.          *)
FirstMatch ==
    Len(trace) = Len(rules) =>
        /\ matched = 0 <=> \A i \in DOMAIN rules : ~Matches(i)
        /\ \A i \in DOMAIN rules :
               /\ trace[i] = "match" <=> i = matched
               /\ i = matched <=> Matches(i) /\ \A k \in 1..(i - 1) : ~Matches(k)

(* "finds rules unreachable because an earlier rule handles all their      *)
(* traffic" (engine.go:197-198): no packet is ever simulated to match a    *)
(* rule the analysis reports.                                              *)
ReportedNeverMatches == \A f \in detectShadows : matched # f[1]

(* "Rule %d will never match" (engine.go:217): nor does the device reach   *)
(* it with any packet, whatever groups, countries, ports and states the    *)
(* two rules name, unless the earlier rule jumps or has a source port.     *)
ReportedIsDead ==
    \A f \in detectShadows :
        rules[f[2]].action # "jump" /\ rules[f[2]].sport.any /\ pkt.state # NoState
            => ~Reached(f[1], pkt)

(* A rule through which the device lets every packet of some protocol to a *)
(* management port is reported as one or the other hole, whether or not it *)
(* names that port (engine.go:295-322).                                    *)
LetsAll(r, proto, port) ==
    /\ r.action = "accept"
    /\ \A p \in Packets : p.proto = proto /\ p.dport = port /\ p.state # NoState
                            => Applies(r, p)

HolesAreReported ==
    \A i \in DOMAIN rules, proto \in Protos, port \in MgmtPorts :
        LetsAll(rules[i], proto, port) =>
            <<"allow_any", i>> \in detectRiskyRules \/ <<"exposed_mgmt", i>> \in detectRiskyRules

(* What this takes of the rules and the packets considered.  An address    *)
(* that is not any leaves some address out: a range over all of them is    *)
(* any to the device and not to the analysis (engine.go:413-415).          *)
Restricting ==
    \A set \in RuleSets : \A i \in DOMAIN set : \A spec \in {set[i].src, set[i].dst} :
        ~spec.any => \E a \in Addrs : ~Within(spec, a)

(* To and from each address there are packets that are in no group.        *)
Varied ==
    /\ Addrs # {}
    /\ \A proto \in Protos, port \in Ports, a \in Addrs :
           LET Stray == {p \in Packets : /\ p.proto = proto /\ p.dport = port
                                        /\ p.state # NoState /\ ~p.member /\ ~p.portMember}
           IN  (\E p \in Stray : p.src = a) /\ (\E p \in Stray : p.dst = a)

=============================================================================
