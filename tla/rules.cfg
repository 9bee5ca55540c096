CONSTANTS
    Protos = {"tcp", "udp"}
    Addrs = {1, 2}
    Ports = {22, 80}
    MgmtPorts = {22}
    Countries = {"CN", "RU"}
    States = {"new", "established"}
    AnyProto = "any"
    NoState = "none"
    RuleSets <- MCRuleSets
    Packets <- MCPackets
SPECIFICATION Spec
INVARIANTS IInv FirstMatch ReportedNeverMatches ReportedIsDead HolesAreReported
CHECK_DEADLOCK FALSE
