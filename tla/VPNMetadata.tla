---------------------------- MODULE VPNMetadata ----------------------------
(***************************************************************************)
(* The VPN profiles of one device: what exists is on the device, what is   *)
(* said about it (description, tags, owner) is a row of vpn_profiles.      *)
(* Every request reads the two one after the other and deletes the rows    *)
(* whose profile it did not see (the orphans); create, update and delete   *)
(* write the device first and the row second.  Peers work the same way.    *)
(* No lock or transaction covers a read or a write.                        *)
(***************************************************************************)
EXTENDS Naturals, FiniteSets

CONSTANTS
    Names,    \* profiles, a pair of type and name
    Requests, \* requests under way
    FaultSets \* the sets of faults to consider, each a subset of AllFaults

(* "store": statements fail; "device": calls fail; "lost_answer": a device *)
(* write succeeds and is reported failed; "readd": a profile that has a    *)
(* row is added outside; "overlap": requests run at the same time.         *)
AllFaults == {"store", "device", "lost_answer", "readd", "overlap"}

ASSUME FaultsKnown == FaultSets \subseteq SUBSET AllFaults

VARIABLES
    faults,  \* what may happen in this behaviour; never changes
    device,  \* profiles on the device
    used,    \* profiles that a peer on the device references
    rows,    \* profiles with a row in vpn_profiles
    pc,      \* where each request stands
    req,     \* req[r]: [kind, name]
    seen,    \* seen[r]: the device and its references as r read them
    orphans  \* orphans[r]: rows r found no profile for and has yet to delete

vars == <<faults, device, used, rows, pc, req, seen, orphans>>

Kinds == {"list", "create", "update", "delete"}

TypeOK ==
    /\ faults \in FaultSets
    /\ device \subseteq Names
    /\ used \subseteq device
    /\ rows \subseteq Names
    /\ pc \in [Requests -> {"idle", "config", "meta", "gc", "configure", "store"}]
    /\ req \in [Requests -> [kind: Kinds, name: Names]]
    /\ seen \in [Requests -> [names: SUBSET Names, used: SUBSET Names]]
    /\ orphans \in [Requests -> SUBSET Names]

Init ==
    /\ faults \in FaultSets
    /\ device = {}
    /\ used = {}
    /\ rows = {}
    /\ pc = [r \in Requests |-> "idle"]
    /\ req \in [Requests -> [kind: {"list"}, name: Names]]
    /\ seen = [r \in Requests |-> [names |-> {}, used |-> {}]]
    /\ orphans = [r \in Requests |-> {}]

Goto(r, next) == pc' = [pc EXCEPT ![r] = next]

---------------------------------------------------------------------------
(* A create starts at the device, everything else with a read.             *)
Begin(r, kind, n) ==
    /\ pc[r] = "idle"
    /\ "overlap" \in faults \/ \A q \in Requests : pc[q] = "idle"
    /\ req' = [req EXCEPT ![r] = [kind |-> kind, name |-> n]]
    /\ Goto(r, IF kind = "create" THEN "configure" ELSE "config")
    /\ UNCHANGED <<faults, device, used, rows, seen, orphans>>

(* Mutant: a device that cannot be reached has an empty configuration.     *)
ReadEmpty(r) ==
    /\ pc[r] = "config"
    /\ \/ seen' = [seen EXCEPT ![r] = [names |-> device, used |-> used]]
       \/ "device" \in faults /\ seen' = [seen EXCEPT ![r] = [names |-> {}, used |-> {}]]
    /\ Goto(r, "meta")
    /\ UNCHANGED <<faults, device, used, rows, req, orphans>>

(* GetIPsecConfig; an error ends the request before anything is deleted.   *)
ReadConfig(r) ==
    /\ pc[r] = "config"
    /\ \/ /\ seen' = [seen EXCEPT ![r] = [names |-> device, used |-> used]]
          /\ Goto(r, "meta")
       \/ /\ "device" \in faults
          /\ Goto(r, "idle")
          /\ UNCHANGED seen
    /\ UNCHANGED <<faults, device, used, rows, req, orphans>>

(* ListVPNProfilesByDevice.                                                *)
ReadRows(r) ==
    /\ pc[r] = "meta"
    /\ \/ /\ orphans' = [orphans EXCEPT ![r] = rows \ seen[r].names]
          /\ Goto(r, "gc")
       \/ /\ "store" \in faults
          /\ Goto(r, "idle")
          /\ UNCHANGED orphans
    /\ UNCHANGED <<faults, device, used, rows, req, seen>>

(* Mutant: an orphan is only reported.                                     *)
SkipOrphan(r, n) ==
    /\ pc[r] = "gc" /\ n \in orphans[r]
    /\ orphans' = [orphans EXCEPT ![r] = @ \ {n}]
    /\ UNCHANGED <<faults, device, used, rows, pc, req, seen>>

(* One orphan; an error is logged.                                         *)
CollectOrphan(r, n) ==
    /\ pc[r] = "gc" /\ n \in orphans[r]
    /\ orphans' = [orphans EXCEPT ![r] = @ \ {n}]
    /\ \/ rows' = rows \ {n}
       \/ "store" \in faults /\ UNCHANGED rows
    /\ UNCHANGED <<faults, device, used, pc, req, seen>>

(* Update and delete go on if the profile was seen, delete only if no peer *)
(* was seen to use it.                                                     *)
MayConfigure(r) ==
    /\ req[r].kind \in {"update", "delete"}
    /\ req[r].name \in seen[r].names
    /\ req[r].kind = "delete" => req[r].name \notin seen[r].used

AfterRead(r) ==
    /\ pc[r] = "gc" /\ orphans[r] = {}
    /\ Goto(r, IF MayConfigure(r) THEN "configure" ELSE "idle")
    /\ UNCHANGED <<faults, device, used, rows, req, seen, orphans>>

(* runConfigure with the operations of the request.  A commit that would   *)
(* leave a peer without its profile is refused by the device.              *)
Configure(r) ==
    /\ pc[r] = "configure"
    /\ LET n == req[r].name IN
       \/ /\ IF req[r].kind = "delete"
               THEN n \notin used /\ device' = device \ {n}
               ELSE device' = device \cup {n}
          /\ \/ Goto(r, "store")
             \/ "lost_answer" \in faults /\ Goto(r, "idle")
       \/ /\ "device" \in faults \/ (req[r].kind = "delete" /\ n \in used)
          /\ Goto(r, "idle")
          /\ UNCHANGED device
    /\ UNCHANGED <<faults, used, rows, req, seen, orphans>>

(* The upsert or delete of the row; an error is logged.  A create or       *)
(* update ends with a read of the profile.                                 *)
StoreRow(r) ==
    /\ pc[r] = "store"
    /\ LET n == req[r].name IN
       \/ rows' = IF req[r].kind = "delete" THEN rows \ {n} ELSE rows \cup {n}
       \/ "store" \in faults /\ UNCHANGED rows
    /\ Goto(r, IF req[r].kind = "delete" THEN "idle" ELSE "config")
    /\ req' = [req EXCEPT ![r].kind = "list"]
    /\ UNCHANGED <<faults, device, used, seen, orphans>>

---------------------------------------------------------------------------
(* Changes made outside the VPN section: the CLI, the per-device IPsec page.*)

AddOutside(n) ==
    /\ n \in Names \ device
    /\ n \in rows => "readd" \in faults
    /\ device' = device \cup {n}
    /\ UNCHANGED <<faults, used, rows, pc, req, seen, orphans>>

RemoveOutside(n) ==
    /\ n \in device \ used
    /\ device' = device \ {n}
    /\ UNCHANGED <<faults, used, rows, pc, req, seen, orphans>>

ChangePeer(n) ==
    /\ n \in device
    /\ used' = IF n \in used THEN used \ {n} ELSE used \cup {n}
    /\ UNCHANGED <<faults, device, rows, pc, req, seen, orphans>>

Outside == \E n \in Names : AddOutside(n) \/ RemoveOutside(n) \/ ChangePeer(n)

Progress(r) ==
    \/ ReadConfig(r) \/ ReadRows(r) \/ AfterRead(r) \/ Configure(r) \/ StoreRow(r)
    \/ \E n \in Names : CollectOrphan(r, n)

Start(r) == \E kind \in Kinds, n \in Names : Begin(r, kind, n)

Next ==
    \/ Outside
    \/ \E r \in Requests : Start(r) \/ Progress(r)

Spec == Init /\ [][Next]_vars

(* A request's goroutine goes on until it returns; the VPN page lists the  *)
(* profiles every 30 seconds (VPNProfilesPage.tsx:27).                     *)
List(r) == \E n \in Names : Begin(r, "list", n)
FairSpec ==
    Spec /\ \A r \in Requests : WF_vars(Progress(r)) /\ SF_vars(List(r))

---------------------------------------------------------------------------
OneAtATime ==
    "overlap" \notin faults =>
        \A q, r \in Requests : pc[q] # "idle" /\ pc[r] # "idle" => q = r

(* What a request knows of the device covers every profile with a row, and *)
(* what it is about to delete is an orphan: the two reads are as good as   *)
(* one as long as nothing else stores a row in between (inductive).        *)
Calm == {"overlap", "readd"} \cap faults = {}

ReadsAgree ==
    /\ \A r \in Requests : pc[r] # "gc" => orphans[r] = {}
    /\ Calm => \A r \in Requests :
           /\ pc[r] = "meta" => device \cap rows \subseteq seen[r].names
           /\ orphans[r] \subseteq rows \ device

IInv == TypeOK /\ OneAtATime /\ ReadsAgree

(* Orphan collection takes no row of a profile that exists: "any metadata  *)
(* row that no longer corresponds to a VyOS-side profile is deleted"       *)
(* (vpn_profiles.go:56-57), if requests do not overlap and no profile      *)
(* comes back outside.                                                     *)
CollectsOnlyOrphans ==
    [][\A r \in Requests, n \in Names :
           Calm /\ CollectOrphan(r, n) /\ rows' # rows => n \notin device]_vars

(* "Orphan Postgres rows (VyOS object deleted out-of-band) are garbage-    *)
(* collected on the next fleet read." (vpn_profiles.go:17-18), also when   *)
(* requests overlap, as long as device and database do not fail for ever.  *)
Works == {"store", "device"} \cap faults = {}

OrphansGo ==
    \A n \in Names :
        (Works /\ n \in rows /\ n \notin device) ~> (n \notin rows \/ n \in device)

=============================================================================
