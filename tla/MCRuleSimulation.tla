-------------------------- MODULE MCRuleSimulation --------------------------
(* Instances of RuleSimulation for TLC: rule sets of two and three rules,  *)
(* each rule unrestricted but for at most two of its fields.               *)
EXTENDS RuleSimulation

All     == [any |-> TRUE, not |-> FALSE, in |-> {}]
Only(x) == [any |-> FALSE, not |-> FALSE, in |-> {x}]
Not(x)  == [any |-> FALSE, not |-> TRUE, in |-> {x}]

Plain ==
    [action |-> "accept", disable |-> FALSE, proto |-> AnyProto, src |-> All, dst |-> All,
     sport |-> All, dport |-> All, srcScoped |-> FALSE, dstScoped |-> FALSE, portGroup |-> FALSE,
     srcGeo |-> {}, dstGeo |-> {}, states |-> {}]

Narrow(r) ==
    {[r EXCEPT !.action = a] : a \in Actions}
    \cup {[r EXCEPT !.disable = TRUE], [r EXCEPT !.proto = "tcp"],
          [r EXCEPT !.src = Only(1)], [r EXCEPT !.src = Not(1)], [r EXCEPT !.dst = Only(1)],
          [r EXCEPT !.sport = Only(22)], [r EXCEPT !.dport = Only(22)],
          [r EXCEPT !.srcScoped = TRUE], [r EXCEPT !.dstScoped = TRUE], [r EXCEPT !.portGroup = TRUE],
          [r EXCEPT !.srcGeo = {"CN"}], [r EXCEPT !.dstGeo = {"CN"}],
          [r EXCEPT !.states = {"new"}], [r EXCEPT !.states = {"new", "established"}]}

OneField  == Narrow(Plain)
TwoFields == UNION {Narrow(r) : r \in OneField}

Few == {Plain, [Plain EXCEPT !.action = "jump"], [Plain EXCEPT !.disable = TRUE],
        [Plain EXCEPT !.states = {"new"}], [Plain EXCEPT !.dport = Only(22)]}

MCRuleSets ==
    {<<a, b>> : a \in OneField, b \in TwoFields}
    \cup {<<a, b, c>> : a \in Few, b \in Few, c \in Few}

MCPackets ==
    {p \in Packet : /\ p.dst = p.src /\ p.sport = p.dport
                    /\ p.member = p.portMember /\ p.member = (p.country = "CN")}

ASSUME Satisfied == MgmtPorts \subseteq Ports /\ Restricting /\ Varied

=============================================================================
