----------------------------- MODULE ClientPool -----------------------------
(***************************************************************************)
(* The row of one device in Postgres and the cached vyos.Client built from *)
(* it.  Get is called by the REST handlers, the poller and the WebSocket   *)
(* handler: look in the cache under the read lock, read the row with no    *)
(* lock, look again and fill under the write lock.  Meanwhile UpdateDevice *)
(* reads the whole row, writes the whole row back, writes an audit row and *)
(* only then invalidates the cache; tags can be replaced by a handler of   *)
(* their own, and the device deleted.                                      *)
(*                                                                         *)
(* A field's value is the name of the request that wrote it.  A client is  *)
(* known by the version of the connection settings it was built from: the  *)
(* number of UpdateDevice statements the row had seen.                     *)
(***************************************************************************)
EXTENDS Naturals

CONSTANTS
    Callers,   \* goroutines that call Get, again and again
    Editors,   \* UpdateDevice requests
    Taggers,   \* UpdateDeviceTags requests
    Gives,     \* Gives[e]: the fields an editor's DeviceUpdate does not leave nil
    FaultSets, \* the sets of faults to consider, each a subset of AllFaults
    Original,  \* the writer of the fields' first values
    None       \* no row, no client

(* "slow_fill": a Get may be overtaken by a whole UpdateDevice.            *)
(* "lost_answer": an UPDATE may commit and still return an error.          *)
AllFaults == {"slow_fill", "lost_answer"}

Fields  == {"connection", "tags"}
Writers == Editors \cup Taggers \cup {Original}

ASSUME GivesFields == Gives \in [Editors -> SUBSET Fields]
ASSUME FaultsKnown == FaultSets \subseteq SUBSET AllFaults
ASSUME NoneIsNone  == None \notin Nat \cup Writers \cup [Fields -> Writers]
ASSUME ApartActors == Callers \cap (Editors \cup Taggers) = {}

VARIABLES
    faults,   \* what may go wrong in this behaviour; never changes
    row,      \* the devices row, None once deleted
    version,  \* UPDATEs of the connection settings so far
    cache,    \* p.cache[deviceID]: a client, or None
    pc,       \* where each goroutine stands
    read,     \* read[c]: the version of the row c has read
    got,      \* got[c]: what the last Get of c returned
    copy,     \* copy[e]: the row as editor e read it
    wrote,    \* wrote[e]: the version e's UPDATE made
    finished, \* the newest version whose UpdateDevice has returned
    least     \* least[c]: finished when c's Get began

vars == <<faults, row, version, cache, pc, read, got, copy, wrote, finished, least>>

Rows    == [Fields -> Writers]
Clients == Nat

TypeOK ==
    /\ faults \in FaultSets
    /\ row \in Rows \cup {None}
    /\ version \in Nat
    /\ cache \in Clients \cup {None}
    /\ pc \in [Callers \cup Editors \cup Taggers ->
                 {"idle", "read", "fill", "write", "invalidate", "done"}]
    /\ read \in [Callers -> Nat]
    /\ got \in [Callers -> Clients \cup {None}]
    /\ copy \in [Editors -> Rows \cup {None}]
    /\ \A e \in Editors : pc[e] = "write" => copy[e] # None
    /\ wrote \in [Editors -> Nat]
    /\ finished \in Nat
    /\ least \in [Callers -> Nat]

Init ==
    /\ faults \in FaultSets
    /\ row = [f \in Fields |-> Original]
    /\ version = 0
    /\ cache = None
    /\ pc = [p \in Callers \cup Editors \cup Taggers |-> "idle"]
    /\ read = [c \in Callers |-> 0]
    /\ got = [c \in Callers |-> None]
    /\ copy = [e \in Editors |-> None]
    /\ wrote = [e \in Editors |-> 0]
    /\ finished = 0
    /\ least = [c \in Callers |-> 0]

---------------------------------------------------------------------------
(* Get.                                                                    *)

Return(c, client) ==
    /\ got' = [got EXCEPT ![c] = client]
    /\ pc' = [pc EXCEPT ![c] = "done"]

(* The look under the read lock.                                           *)
Lookup(c) ==
    /\ pc[c] \in {"idle", "done"}
    /\ least' = [least EXCEPT ![c] = finished]
    /\ IF cache # None
         THEN Return(c, cache)
         ELSE pc' = [pc EXCEPT ![c] = "read"] /\ UNCHANGED got
    /\ UNCHANGED <<faults, row, version, cache, read, copy, wrote, finished>>

(* GetDeviceWithKey, with no lock held.                                    *)
ReadRow(c) ==
    /\ pc[c] = "read"
    /\ \/ /\ row # None
          /\ read' = [read EXCEPT ![c] = version]
          /\ pc' = [pc EXCEPT ![c] = "fill"]
          /\ UNCHANGED got
       \/ /\ Return(c, None)  \* not found, or the store failed
          /\ UNCHANGED read
    /\ UNCHANGED <<faults, row, version, cache, copy, wrote, finished, least>>

(* Mutant: no second look at the cache once the write lock is held.        *)
FillWithoutLooking(c) ==
    /\ pc[c] = "fill"
    /\ cache' = read[c]
    /\ Return(c, cache')
    /\ UNCHANGED <<faults, row, version, read, copy, wrote, finished, least>>

Fill(c) ==
    /\ pc[c] = "fill"
    /\ cache' = IF cache # None THEN cache ELSE read[c]
    /\ Return(c, cache')
    /\ UNCHANGED <<faults, row, version, read, copy, wrote, finished, least>>

(* RebootDevice invalidates once the device has been told to reboot.       *)
RebootDevice(c) ==
    /\ pc[c] = "done" /\ got[c] # None
    /\ cache' = None
    /\ pc' = [pc EXCEPT ![c] = "idle"]
    /\ UNCHANGED <<faults, row, version, read, got, copy, wrote, finished, least>>

---------------------------------------------------------------------------
(* UpdateDevice.                                                           *)

ReadWhole(e) ==
    /\ pc[e] = "idle"
    /\ copy' = [copy EXCEPT ![e] = row]
    /\ pc' = [pc EXCEPT ![e] = IF row = None THEN "done" ELSE "write"]
    /\ UNCHANGED <<faults, row, version, cache, read, got, wrote, finished, least>>

(* The row UpdateDevice writes: its copy with the given fields replaced.   *)
Patched(e) == [f \in Fields |-> IF f \in Gives[e] THEN e ELSE copy[e][f]]

(* Mutant: Invalidate only if the request itself gives connection settings.*)
WriteTrusting(e) ==
    /\ pc[e] = "write"
    /\ row' = IF row = None THEN None ELSE Patched(e)
    /\ version' = version + 1
    /\ wrote' = [wrote EXCEPT ![e] = version + 1]
    /\ pc' = [pc EXCEPT ![e] = IF "connection" \in Gives[e] THEN "invalidate" ELSE "done"]
    /\ UNCHANGED <<faults, cache, read, got, copy, finished, least>>

(* An UPDATE of a row that is gone changes nothing and is no error.        *)
WriteWhole(e) ==
    /\ pc[e] = "write"
    /\ row' = IF row = None THEN None ELSE Patched(e)
    /\ version' = version + 1
    /\ wrote' = [wrote EXCEPT ![e] = version + 1]
    /\ \E next \in {"invalidate"}
                   \cup (IF "lost_answer" \in faults THEN {"done"} ELSE {}) :
           pc' = [pc EXCEPT ![e] = next]
    /\ UNCHANGED <<faults, cache, read, got, copy, finished, least>>

WriteFails(e) ==
    /\ pc[e] = "write"
    /\ pc' = [pc EXCEPT ![e] = "done"]
    /\ UNCHANGED <<faults, row, version, cache, read, got, copy, wrote, finished, least>>

Overtaken == \E c \in Callers : pc[c] = "fill" /\ read[c] # version

(* Mutant: Invalidate is forgotten.                                        *)
AuditOnly(e) ==
    /\ pc[e] = "invalidate"
    /\ pc' = [pc EXCEPT ![e] = "done"]
    /\ finished' = IF wrote[e] > finished THEN wrote[e] ELSE finished
    /\ UNCHANGED <<faults, row, version, cache, read, got, copy, wrote, least>>

(* Audit row (its error is dropped) and Invalidate: UpdateDevice returns.  *)
Invalidate(e) ==
    /\ pc[e] = "invalidate"
    /\ Overtaken => "slow_fill" \in faults
    /\ cache' = None
    /\ pc' = [pc EXCEPT ![e] = "done"]
    /\ finished' = IF wrote[e] > finished THEN wrote[e] ELSE finished
    /\ UNCHANGED <<faults, row, version, read, got, copy, wrote, least>>

---------------------------------------------------------------------------
(* The other statements on the row.                                        *)

UpdateDeviceTags(t) ==
    /\ pc[t] = "idle"
    /\ row' = IF row = None THEN None ELSE [row EXCEPT !["tags"] = t]
    /\ pc' = [pc EXCEPT ![t] = "done"]
    /\ UNCHANGED <<faults, version, cache, read, got, copy, wrote, finished, least>>

(* The handler deletes the row and leaves the cache alone.                 *)
DeleteDevice ==
    /\ row # None
    /\ row' = None
    /\ UNCHANGED <<faults, version, cache, pc, read, got, copy, wrote, finished, least>>

Get(c)          == Lookup(c) \/ ReadRow(c) \/ Fill(c) \/ RebootDevice(c)
UpdateDevice(e) == ReadWhole(e) \/ WriteWhole(e) \/ WriteFails(e) \/ Invalidate(e)

Next ==
    \/ \E c \in Callers : Get(c)
    \/ \E e \in Editors : UpdateDevice(e)
    \/ \E t \in Taggers : UpdateDeviceTags(t)
    \/ DeleteDevice

Spec == Init /\ [][Next]_vars

---------------------------------------------------------------------------
Editing == \E e \in Editors : pc[e] = "invalidate"

(* When no UpdateDevice is between its UPDATE and its Invalidate, a cached *)
(* client was built from the row as it is: the double look in Get and the  *)
(* order UPDATE, Invalidate leave no stale client behind (pool.go:24-55),  *)
(* unless a Get is overtaken by an edit or an UPDATE's answer is lost.     *)
FreshWhenQuiet == faults = {} /\ cache # None /\ ~Editing => cache = version

(* Get hands out nothing older than the last UpdateDevice that had         *)
(* returned when Get began: "so the next call uses the new address/key"    *)
(* (completeness.go:251), unless a Get is overtaken by an edit.            *)
NextCallUsesNewSettings ==
    "slow_fill" \notin faults =>
        \A c \in Callers : pc[c] = "done" /\ got[c] # None => got[c] >= least[c]

(* Callers that meet on an empty cache end up with one client, the cached  *)
(* one: nobody replaces a client others are using, only Invalidate drops   *)
(* it (pool.go:37-39).                                                     *)
SharedClient ==
    [][ /\ cache # None => cache' \in {cache, None}
        /\ \A c \in Callers :
               pc'[c] = "done" /\ pc[c] # "done" /\ got'[c] # None
                   => got'[c] = cache' ]_vars

(* Get looks twice and reads the row in between without a lock, and yet it *)
(* comes to a cache that is looked up and filled in one step, with a       *)
(* client no older than the last UpdateDevice that returned (pool.go:24-55,*)
(* completeness.go:245-252).                                               *)
AtomicCache == INSTANCE RowCache WITH
    Caller <- Callers, loose <- "slow_fill" \in faults, newest <- version
ImplementsRowCache == AtomicCache!Spec

(* The inductive invariant.  If no Get is overtaken, what a Get has read   *)
(* and what is cached is as new as the last finished edit; if moreover no  *)
(* UPDATE loses its answer, it is the row's unless an edit is going on.    *)
NewEnough ==
    /\ \A c \in Callers : pc[c] = "fill" => read[c] \in finished..version
    /\ cache # None => cache >= finished
InOrder ==
    /\ finished <= version
    /\ \A e \in Editors : wrote[e] <= version
    /\ \A c \in Callers : least[c] <= finished /\ read[c] <= version
ReadIsFresh == \A c \in Callers : pc[c] = "fill" => read[c] = version \/ Editing
IInv ==
    /\ faults \in FaultSets
    /\ InOrder
    /\ NextCallUsesNewSettings
    /\ "slow_fill" \notin faults => NewEnough
    /\ faults = {} => ReadIsFresh
    /\ FreshWhenQuiet

=============================================================================
