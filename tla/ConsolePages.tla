---------------------------- MODULE ConsolePages ----------------------------
(***************************************************************************)
(* The pages of the console: which queries a page mounts and polls, and    *)
(* which operations it offers.  An operation is one api call with what its *)
(* success handler does.  The tables are the control of src/frontend/src/  *)
(* pages; layout and wording are left out.  A key stands for the query key *)
(* without the device id: one browser tab looks at one device at a time.   *)
(***************************************************************************)
EXTENDS Naturals

LOCAL NoDialog == "none"

(***************************************************************************)
(* An operation: the dialog it is submitted from, what keeps its button    *)
(* disabled (a call of the same mutation still pending on the page, one of *)
(* this opening of the dialog, or nothing), the server data it changes,    *)
(* the keys its success invalidates, the dialogs its success closes.       *)
(***************************************************************************)
Op(name, from, waits, changes, refreshes, closes) ==
  [name |-> name, from |-> from, waits |-> waits, changes |-> changes,
   refreshes |-> refreshes, closes |-> closes]

Page(reads, polls, ops) == [reads |-> reads, polls |-> polls, ops |-> ops]

(***************************************************************************)
(* Every page below the shell: the crumbs read the device list; a device   *)
(* page carries the header with the polled device.                         *)
(***************************************************************************)
ShellReads == {"devices"}
HeaderPolls == {"device"}

DevicePage(reads, polls, ops) ==
  Page(ShellReads \cup HeaderPolls \cup reads \cup polls,
       HeaderPolls \cup polls, ops)

(***************************************************************************)
(* A write to the device also appends to the audit log, which three pages  *)
(* read under keys of their own.                                           *)
(***************************************************************************)
AuditKeys == {"audit", "log", "recent"}

DeviceOp(name, from, waits, changes, refreshes, closes) ==
  Op(name, from, waits, changes \cup AuditKeys, refreshes, closes)

LoginPage == Page({}, {}, {})

DashboardPage ==
  Page({"devices", "recent", "health"}, {"devices", "health"}, {})

\* Users and devices: rows of the application's own database.
CreateUser == Op("create user", "add user", "page", {"users"}, {"users"}, {"add user"})
SaveUser   == Op("save user", "edit user", "page", {"users"}, {"users"}, {"edit user"})
DeleteUser == Op("delete user", NoDialog, "nothing", {"users"}, {"users"}, {})
UsersPage ==
  Page(ShellReads \cup {"me", "users"}, {}, {CreateUser, SaveUser, DeleteUser})

AddDevice ==
  Op("add device", "add device", "opening", {"devices", "recent"}, {"devices"},
     {"add device"})
SaveDevice ==
  Op("save device", "edit device", "page", {"devices", "device", "recent"},
     {"devices"}, {"edit device"})
ToggleProduction ==
  Op("toggle production", NoDialog, "nothing", {"devices", "device"}, {"devices"}, {})
DeleteDevice == Op("delete device", NoDialog, "nothing", {"devices"}, {"devices"}, {})
DevicesPage ==
  Page({"devices"}, {"devices"},
       {AddDevice, SaveDevice, ToggleProduction, DeleteDevice})

Reboot == DeviceOp("reboot", "reboot", "opening", {}, {}, {"reboot"})
OverviewPage ==
  DevicePage({"interfaces", "ipsec"}, {"overview", "audit", "sas", "metrics"}, {Reboot})

\* Firewall: rule-sets, their rules, groups, zones and their policies, NAT.
DeleteRuleSet ==
  DeviceOp("delete rule-set", NoDialog, "page", {"rulesets", "ruleset"}, {"rulesets"}, {})
RuleSetsPage == DevicePage({"rulesets"}, {}, {DeleteRuleSet})

SaveRule ==
  DeviceOp("save rule", "rule", "page", {"ruleset", "rulesets"}, {"ruleset"}, {"rule"})
DeleteRule ==
  DeviceOp("delete rule", NoDialog, "nothing", {"ruleset", "rulesets"}, {"ruleset"}, {})
RuleSetPage == DevicePage({"ruleset", "groups"}, {}, {SaveRule, DeleteRule})

SaveGroup == DeviceOp("save group", "group", "page", {"groups"}, {"groups"}, {"group"})
DeleteGroup == DeviceOp("delete group", NoDialog, "nothing", {"groups"}, {"groups"}, {})
GroupsPage == DevicePage({"groups", "rulesets"}, {}, {SaveGroup, DeleteGroup})

SaveZone == DeviceOp("save zone", "zone", "page", {"zones"}, {"zones"}, {"zone"})
SavePolicy == DeviceOp("save policy", "policy", "page", {"zones"}, {"zones"}, {"policy"})
ZonesPage == DevicePage({"zones", "rulesets"}, {}, {SaveZone, SavePolicy})

SaveTranslation ==
  DeviceOp("save translation", "translation", "page", {"nat source", "nat destination"},
           {"nat source", "nat destination"}, {"translation"})
NATPage ==
  DevicePage({"nat source", "nat destination", "interfaces"}, {}, {SaveTranslation})

SaveInterface ==
  DeviceOp("save interface", "interface", "page", {"interfaces"}, {"interfaces"},
           {"interface"})
InterfacesPage == DevicePage({}, {"interfaces"}, {SaveInterface})

\* Traffic policies and their bindings; a binding may add an IFB interface.
SavePolicyMap ==
  DeviceOp("save policy map", "policy map", "page", {"qos"}, {"qos"}, {"policy map"})
DeletePolicyMap ==
  DeviceOp("delete policy map", NoDialog, "nothing", {"qos", "bindings", "interfaces"},
           {"qos"}, {})
Bind ==
  DeviceOp("bind", "binding", "page", {"qos", "bindings", "interfaces"},
           {"qos", "bindings"}, {"binding"})
Unbind ==
  DeviceOp("unbind", NoDialog, "page", {"bindings", "interfaces"}, {"bindings"}, {})
CleanUp ==
  DeviceOp("clean up", NoDialog, "page", {"bindings", "interfaces"},
           {"bindings", "interfaces"}, {})
QoSPage ==
  DevicePage({"qos", "interfaces"}, {"bindings", "traffic", "usage", "flows"},
             {SavePolicyMap, DeletePolicyMap, Bind, Unbind, CleanUp})

\* SNMP: every save and every delete of an item is one mutation, and its
\* success closes whatever dialog of the page is open.
SaveSNMP ==
  DeviceOp("save snmp", "snmp item", "page", {"snmp"}, {"snmp"}, {"snmp item", "delete all"})
DropSNMPItem ==
  DeviceOp("drop snmp item", NoDialog, "nothing", {"snmp"}, {"snmp"},
           {"snmp item", "delete all"})
DeleteSNMP == DeviceOp("delete snmp", "delete all", "page", {"snmp"}, {"snmp"}, {})
SNMPPage == DevicePage({"snmp"}, {}, {SaveSNMP, DropSNMPItem, DeleteSNMP})

\* IPsec: the wizard stays open after its success, the editors lock.
CreateTunnel ==
  DeviceOp("create tunnel", "wizard", "opening", {"ipsec", "profiles", "peers"}, {"ipsec"}, {})
SavePeer ==
  DeviceOp("save peer", "peer", "opening", {"ipsec", "peers"}, {"ipsec"}, {"peer"})
SaveIKEGroup ==
  DeviceOp("save ike group", "ike group", "opening", {"ipsec", "profiles"}, {"ipsec"},
           {"ike group"})
SaveESPGroup ==
  DeviceOp("save esp group", "esp group", "opening", {"ipsec", "profiles"}, {"ipsec"},
           {"esp group"})
DeletePeerOrGroup ==
  DeviceOp("delete peer or group", NoDialog, "nothing", {"ipsec", "profiles", "peers"},
           {"ipsec"}, {})
IPsecPage ==
  DevicePage({"ipsec", "audit"}, {"sas"},
             {CreateTunnel, SavePeer, SaveIKEGroup, SaveESPGroup, DeletePeerOrGroup})

SaveProfile ==
  DeviceOp("save profile", "profile", "opening", {"profiles", "ipsec"}, {"profiles"},
           {"profile"})
DeleteProfile ==
  DeviceOp("delete profile", NoDialog, "page", {"profiles", "ipsec"}, {"profiles"}, {})
ProfilesPage == Page({"devices", "profiles"}, {"profiles"}, {SaveProfile, DeleteProfile})

DeleteVPNPeer ==
  DeviceOp("delete vpn peer", NoDialog, "page", {"peers", "ipsec"}, {"peers"}, {})
PeersPage == Page({"devices", "peers"}, {"peers"}, {DeleteVPNPeer})

LiveConfigPage == DevicePage({}, {}, {})

AuditPage == Page(ShellReads \cup {"log"}, {}, {})

SaveTemplate ==
  Op("save template", "template", "opening", {"templates"}, {"templates"}, {"template"})
DeleteTemplate == Op("delete template", NoDialog, "page", {"templates"}, {"templates"}, {})
PushTemplate == DeviceOp("push template", "push", "page", {"rulesets", "ruleset"}, {}, {})
TemplatesPage ==
  Page({"devices", "templates"}, {}, {SaveTemplate, DeleteTemplate, PushTemplate})

(***************************************************************************)
(* The routes of the shell.                                                *)
(***************************************************************************)
PageTable ==
  [login |-> LoginPage, dashboard |-> DashboardPage, devices |-> DevicesPage,
   overview |-> OverviewPage, rulesets |-> RuleSetsPage, ruleset |-> RuleSetPage,
   groups |-> GroupsPage, zones |-> ZonesPage, nat |-> NATPage,
   interfaces |-> InterfacesPage, qos |-> QoSPage, snmp |-> SNMPPage,
   ipsec |-> IPsecPage, profiles |-> ProfilesPage, peers |-> PeersPage,
   liveconfig |-> LiveConfigPage, users |-> UsersPage, audit |-> AuditPage,
   templates |-> TemplatesPage]

(***************************************************************************)
(* The queries a hover over a tab of the device header fetches ahead.      *)
(***************************************************************************)
PrefetchTable(page) ==
  CASE page = "rulesets"   -> {"rulesets"}
    [] page = "groups"     -> {"groups"}
    [] page = "zones"      -> {"zones"}
    [] page = "nat"        -> {"nat source", "interfaces"}
    [] page = "interfaces" -> {"interfaces"}
    [] page = "qos"        -> {"qos"}
    [] page = "snmp"       -> {"snmp"}
    [] page = "ipsec"      -> {"ipsec"}
    [] OTHER               -> {}

(***************************************************************************)
(* The dialogs that cannot be dismissed while their own save is in flight: *)
(* those that hand their busy flag to Modal or Drawer.                     *)
(***************************************************************************)
LockTable == {"peer", "ike group", "esp group", "profile"}

(***************************************************************************)
(* The operations after which the page itself goes on showing what it read *)
(* before: the success handler forgets a key the page has mounted.         *)
(***************************************************************************)
ForgottenTable(op, page) ==
  CASE op = DeletePolicyMap              -> {"bindings", "interfaces"}
    [] op \in {Bind, Unbind}             -> {"interfaces"}
    [] page \in {"ipsec", "overview"}    -> {"audit"}
    [] OTHER                             -> {}

(***************************************************************************)
(* Which is all they forget.                                               *)
(***************************************************************************)
ASSUME TablesAssumption ==
  \A page \in DOMAIN PageTable : \A op \in PageTable[page].ops :
    (op.changes \cap PageTable[page].reads) \ ForgottenTable(op, page) \subseteq op.refreshes
=============================================================================
