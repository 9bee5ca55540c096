------------------------------ MODULE Console ------------------------------
(***************************************************************************)
(* One browser tab: the page it shows, the query cache below all pages,    *)
(* the write calls in flight and the dialog that is open.                  *)
(*                                                                         *)
(* The cache is TanStack Query as main.tsx configures it.  The data of a   *)
(* key are abstracted to a version: server[k] counts the changes of what k *)
(* reads, data[k] is the version the cache holds.  A GET in flight carries *)
(* the version the server had when it was sent; it may be answered with    *)
(* any version from then on.                                               *)
(***************************************************************************)
EXTENDS Naturals

CONSTANTS Key,           \* the query keys
          Route,         \* the routes of this instance
          Target,        \* bound: the routes a navigation leads to
          Pages,         \* route -> page: reads, polls and ops (ConsolePages)
          LockedDialogs, \* the dialogs that stay open while they save
          Forgotten(_, _), \* op, route: changed, mounted and not invalidated
          Prefetched(_), \* route: the keys fetched ahead on a hover
          None,          \* no data, no GET
          MaxMounts,     \* bound: navigations
          MaxActs        \* bound: openings, write calls, navigations, hovers,
                         \* failures, changes by others

NoDialog == "none"

ASSUME RouteAssumption == Target \subseteq Route /\ Route \subseteq DOMAIN Pages
(***************************************************************************)
(* What the tables of the pages say of every operation: success refreshes  *)
(* what it changed of the page, but for the keys listed as forgotten; and  *)
(* a dialog that stays open while it saves has one save at a time and is   *)
(* closed by its own save only.                                            *)
(***************************************************************************)
ASSUME RefreshAssumption ==
  \A r \in Route : \A op \in Pages[r].ops :
    (op.changes \cap Pages[r].reads) \ Forgotten(op, r) \subseteq op.refreshes
ASSUME LockAssumption ==
  /\ NoDialog \notin LockedDialogs
  /\ \A r \in Route : \A op \in Pages[r].ops :
       /\ op.closes \cap LockedDialogs \subseteq {op.from}
       /\ op.from \in LockedDialogs => op.waits = "opening"
ASSUME NoneAssumption == None \notin Nat
ASSUME BoundsAssumption == MaxMounts \in Nat /\ MaxActs \in Nat

VARIABLES
  page,     \* the route shown
  mount,    \* which mount of a page this is
  server,   \* [Key -> Nat]: the version the server has
  data,     \* [Key -> Nat \cup {None}]: the version in the cache
  marked,   \* the keys invalidated and not fetched since
  fetch,    \* [Key -> Nat \cup {None}]: the GET in flight, if any
  writes,   \* the write calls in flight
  dialog,   \* the open dialog and which opening it is, or Closed
  floor,    \* [Key -> Nat]: the newest own change the page must show
  acts      \* openings, calls, navigations... so far: MaxActs at most

vars == <<page, mount, server, data, marked, fetch, writes, dialog, floor, acts>>

Closed == [name |-> NoDialog, nr |-> 0]

Reads(p) == Pages[p].reads \cap Key
Polls(p) == Pages[p].polls \cap Key

Act == acts < MaxActs /\ acts' = acts + 1

(***************************************************************************)
(* Mounting a page fetches the queries that have no data, that were        *)
(* invalidated or that are older than their staleTime (which of them are   *)
(* is open: aged).  A GET that is in flight already is joined.             *)
(***************************************************************************)
MountFetch(p, aged) ==
  [k \in Key |-> IF /\ k \in Reads(p) /\ fetch[k] = None
                    /\ data[k] = None \/ k \in marked \cup aged
                 THEN server[k] ELSE fetch[k]]

Init ==
  /\ page \in Route /\ mount = 0
  /\ server = [k \in Key |-> 0]
  /\ \/ /\ data = [k \in Key |-> None]           \* a new tab
        /\ fetch = [k \in Key |-> IF k \in Reads(page) THEN 0 ELSE None]
     \/ /\ data = [k \in Key |-> 0]              \* every page seen before
        /\ fetch = [k \in Key |-> None]
  /\ marked = {} /\ writes = {} /\ dialog = Closed
  /\ floor = [k \in Key |-> 0]
  /\ acts = 0

(***************************************************************************)
(* Navigation unmounts the page with its dialog and mounts the next one.   *)
(* The cache and every request in flight survive it.  Sign-out keeps them  *)
(* too: it drops the token and the user and shows the login page.          *)
(***************************************************************************)
Go(p) ==
  /\ p # page /\ mount < MaxMounts /\ Act
  /\ \E aged \in {{}, Reads(p)} : fetch' = MountFetch(p, aged)
  /\ page' = p /\ mount' = mount + 1 /\ dialog' = Closed
  /\ UNCHANGED <<server, data, marked, writes, floor>>

Navigate == page # "login" /\ \E p \in Target \ {"login"} : Go(p)
SignIn   == page = "login" /\ \E p \in Target : Go(p)
SignOut  == "login" \in Route /\ Go("login")

(***************************************************************************)
(* The pointer over a tab of the device header: the queries of that tab    *)
(* are fetched ahead unless they are fresh.                                *)
(***************************************************************************)
Hover ==
  /\ Act
  /\ \E p \in Target : \E k \in Prefetched(p) \cap Key :
       /\ "device" \in Pages[page].reads
       /\ fetch[k] = None
       /\ data[k] = None \/ k \in marked
       /\ fetch' = [fetch EXCEPT ![k] = server[k]]
       /\ UNCHANGED <<page, mount, server, data, marked, writes, dialog, floor>>

(***************************************************************************)
(* The refetch interval of a mounted query is over; a GET in flight is not *)
(* doubled.                                                                *)
(***************************************************************************)
Poll(k) ==
  /\ k \in Polls(page) /\ fetch[k] = None
  /\ fetch' = [fetch EXCEPT ![k] = server[k]]
  /\ UNCHANGED <<page, mount, server, data, marked, writes, dialog, floor, acts>>

Answer(k) ==
  /\ fetch[k] # None
  /\ \E v \in fetch[k]..server[k] : data' = [data EXCEPT ![k] = v]
  /\ fetch' = [fetch EXCEPT ![k] = None]
  /\ marked' = marked \ {k}
  /\ UNCHANGED <<page, mount, server, writes, dialog, floor, acts>>

\* The GET and its retries fail: what was shown stays, an invalidation too.
FailFetch(k) ==
  /\ fetch[k] # None /\ Act
  /\ fetch' = [fetch EXCEPT ![k] = None]
  /\ UNCHANGED <<page, mount, server, data, marked, writes, dialog, floor>>

\* Somebody else changes what the page reads.
Outside(k) ==
  /\ Act /\ k \in Reads(page)
  /\ server' = [server EXCEPT ![k] = @ + 1]
  /\ UNCHANGED <<page, mount, data, marked, fetch, writes, dialog, floor>>

OpenDialog ==
  /\ dialog = Closed /\ Act
  /\ \E op \in Pages[page].ops :
       /\ op.from # NoDialog
       /\ dialog' = [name |-> op.from, nr |-> acts']
  /\ UNCHANGED <<page, mount, server, data, marked, fetch, writes, floor>>

InFlight(nr) == \E w \in writes : w.nr = nr

(* Mutant: a dialog that saves can be left.                                *)
CloseAnyDialog ==
  /\ dialog # Closed
  /\ dialog' = Closed
  /\ UNCHANGED <<page, mount, server, data, marked, fetch, writes, floor, acts>>

(***************************************************************************)
(* The user leaves the dialog by its cross, its Cancel, Escape or, where   *)
(* there is one, the backdrop.  A dialog that is told it is busy refuses.  *)
(***************************************************************************)
CloseDialog ==
  /\ dialog # Closed
  /\ dialog.name \in LockedDialogs => ~InFlight(dialog.nr)
  /\ dialog' = Closed
  /\ UNCHANGED <<page, mount, server, data, marked, fetch, writes, floor, acts>>

Ready(op) ==
  /\ op.from = dialog.name
  /\ op.waits = "page"    => \A w \in writes : w.at = mount => w.op # op
  /\ op.waits = "opening" => ~InFlight(dialog.nr)

\* nr names the opening of the dialog; id tells two calls apart.
Submit(op) ==
  /\ Act /\ Ready(op)
  /\ writes' = writes \cup {[id |-> acts', op |-> op, nr |-> dialog.nr,
                             at |-> mount, done |-> FALSE]}
  /\ UNCHANGED <<page, mount, server, data, marked, fetch, dialog, floor>>

\* The server carries the call out.
Apply(w) ==
  /\ ~w.done
  /\ server' = [k \in Key |-> IF k \in w.op.changes THEN server[k] + 1 ELSE server[k]]
  /\ writes' = (writes \ {w}) \cup {[w EXCEPT !.done = TRUE]}
  /\ UNCHANGED <<page, mount, data, marked, fetch, dialog, floor, acts>>

(* Mutant: a GET in flight is joined, also one of older data.              *)
JoinEveryFetch(keys) ==
  [k \in Key |-> IF k \in keys \cap Reads(page) /\ fetch[k] = None
                 THEN server[k] ELSE fetch[k]]

(***************************************************************************)
(* invalidateQueries: the keys are marked; those mounted are fetched anew, *)
(* and a GET in flight is given up, unless it is the first of its key: that*)
(* one is joined.  A GET of a key that is not mounted goes on.             *)
(***************************************************************************)
Joined(k) == fetch[k] # None /\ data[k] = None
InvalidateFetch(keys) ==
  [k \in Key |-> IF k \in keys \cap Reads(page) /\ ~Joined(k) THEN server[k] ELSE fetch[k]]

(***************************************************************************)
(* What the success of op promises to show on page p: what it changed,     *)
(* less what the handler forgets and less the keys whose GET goes on.      *)
(***************************************************************************)
Promised(op, p) ==
  {k \in (op.changes \cap Reads(p)) \ Forgotten(op, p) : ~Joined(k)}

(***************************************************************************)
(* The success of a call: the handler of the mutation runs, also when the  *)
(* page or the dialog that made the call is gone.  State of a page that is *)
(* gone is not touched.                                                    *)
(***************************************************************************)
Succeed(w) ==
  /\ w.done
  /\ writes' = writes \ {w}
  /\ fetch' = InvalidateFetch(w.op.refreshes)
  /\ marked' = marked \cup (w.op.refreshes \cap Key)
  /\ dialog' = IF w.at = mount /\ dialog.name \in w.op.closes THEN Closed ELSE dialog
  /\ floor' = IF w.at = mount
              THEN [k \in Key |-> IF k \in Promised(w.op, page) THEN server[k]
                                  ELSE floor[k]]
              ELSE floor
  /\ UNCHANGED <<page, mount, server, data, acts>>

\* The call fails, carried out or not: nothing is invalidated, nothing closed.
Refuse(w) ==
  /\ Act
  /\ writes' = writes \ {w}
  /\ UNCHANGED <<page, mount, server, data, marked, fetch, dialog, floor>>

Next ==
  \/ Navigate \/ SignIn \/ SignOut \/ Hover
  \/ \E k \in Key : Poll(k) \/ Answer(k) \/ FailFetch(k) \/ Outside(k)
  \/ OpenDialog \/ CloseDialog
  \/ \E op \in Pages[page].ops : Submit(op)
  \/ \E w \in writes : Apply(w) \/ Succeed(w) \/ Refuse(w)

Spec == Init /\ [][Next]_vars

-----------------------------------------------------------------------------
(***************************************************************************)
(* Types.                                                                  *)
(***************************************************************************)
TypeOK ==
  /\ page \in Route /\ mount \in Nat /\ acts \in Nat
  /\ server \in [Key -> Nat] /\ floor \in [Key -> Nat]
  /\ data \in [Key -> Nat \cup {None}] /\ fetch \in [Key -> Nat \cup {None}]
  /\ marked \subseteq Key
  /\ \A w \in writes : w.at \in Nat /\ w.at <= mount

(***************************************************************************)
(* After a success the page never comes to rest on what was there before:  *)
(* a GET that was under way when the call went through is given up, so a   *)
(* key that is neither marked nor being fetched shows the page's own       *)
(* changes, whatever the order of answers.                                 *)
(***************************************************************************)
ShowsOwnChanges ==
  \A k \in Reads(page) :
    (fetch[k] = None /\ k \notin marked /\ data[k] # None) => data[k] >= floor[k]

(***************************************************************************)
(* Why that is so, and why a dialog that stays open is the one its save    *)
(* closes: versions only grow, a GET in flight is at least as new as the   *)
(* page's own changes, and there is one call of a locked dialog at most.   *)
(***************************************************************************)
NoOlderThanServer ==
  \A k \in Key : /\ floor[k] <= server[k]
                 /\ fetch[k] # None => floor[k] <= fetch[k] /\ fetch[k] <= server[k]
                 /\ (k \notin marked /\ data[k] # None) => floor[k] <= data[k]
Here(w) == w \in writes /\ w.at = mount
OpsOfThePage == \A w \in writes : Here(w) => w.op \in Pages[page].ops
OneLockedSave ==
  \A w \in writes : (Here(w) /\ w.op.from \in LockedDialogs) =>
    /\ dialog.name = w.op.from /\ dialog.nr = w.nr
    /\ \A v \in writes : (Here(v) /\ v.op.from \in LockedDialogs) => v = w
IInv == TypeOK /\ NoOlderThanServer /\ OpsOfThePage /\ OneLockedSave

(***************************************************************************)
(* A dialog that is told it is busy is not lost while it saves: as long as *)
(* the page stays, it closes by the success of its own save, or by the     *)
(* user while none of its saves is in flight (the comment of Modal.tsx).   *)
(***************************************************************************)
StaysOpenWhileSaving ==
  [][(dialog.name \in LockedDialogs /\ dialog' # dialog /\ mount' = mount)
       => \/ writes' = writes /\ ~InFlight(dialog.nr)
          \/ \E w \in writes \ writes' : w.done /\ w.nr = dialog.nr]_vars

=============================================================================
