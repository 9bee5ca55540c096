----------------------------- MODULE SnmpConfig -----------------------------
(***************************************************************************)
(* The SNMP page over the SNMP service.  The page edits single items, the  *)
(* service replaces the whole subtree: every save and every delete of an   *)
(* item sends the configuration the page last read with one item changed.  *)
(* An item is a community, a v3 user, a v3 view or a trap target, and a    *)
(* trap target one of version 2 or of version 3, even at one address.      *)
(***************************************************************************)
EXTENDS Naturals

CONSTANTS Key,       \* the items: [section : Sections, name : ...]
          Value,     \* what the dialog of an item edits
          First,     \* bound: the value of what is there at first, and of no edit
          None,
          MaxClicks  \* bound: saves and deletes

Traps == {"trap v2c", "trap v3"}
Sections == {"community", "user", "view"} \cup Traps

\* Those of SNMP version 2: no save with them in production.
V2C == {k \in Key : k.section \in {"community", "trap v2c"}}

\* The items the page knows by one name: it finds a trap target by address.
Alike(k) == {j \in Key : /\ j.name = k.name
                         /\ j.section = k.section \/ {j.section, k.section} \subseteq Traps}

(***************************************************************************)
(* value: what the dialog shows.  rest: what else there is of the item,    *)
(* "plain" if nothing; "hidden" fields the page carries but no dialog holds*)
(* (a user's encrypted passwords, a community's clients, the type of a     *)
(* trap); "extra" fields the decoder drops (exclude and mask of a view,    *)
(* the passwords of a v3 trap target);                                     *)
(* "bare" if no leaf is below the name: the encoder emits nothing for it.  *)
(***************************************************************************)
Body == [value : Value, rest : {"plain", "hidden", "extra", "bare"}]
Empty == [k \in Key |-> None]

Decoded(c) ==
  [k \in Key |-> IF c[k] = None \/ c[k].rest # "extra" THEN c[k]
                 ELSE [c[k] EXCEPT !.rest = "plain"]]
Encoded(c) == [k \in Key |-> IF c[k] = None \/ c[k].rest = "bare" THEN None ELSE c[k]]

VARIABLES
  server,     \* the device's configuration
  production, \* the device's tag
  wrapped,    \* the device wraps its answer, as a VyOS 1.5 does
  cache,      \* what the page last read, None before the first answer
  fetching,   \* a GET is in flight
  modal,      \* the open dialog and its item
  writes,     \* the saves in flight
  clicks,     \* saves and deletes of an item so far
  raced       \* history: a click met a list that was not, or no longer, current

vars == <<server, production, wrapped, cache, fetching, modal, writes, clicks, raced>>

Closed == [kind |-> "none", key |-> None]

Init ==
  /\ server \in [Key -> {b \in Body : b.value = First} \cup {None}]
  /\ production \in BOOLEAN /\ wrapped \in BOOLEAN
  /\ cache = None /\ fetching = TRUE
  /\ modal = Closed /\ writes = {} /\ clicks = 0 /\ raced = FALSE

\* q.data ?? {}: a page that has not read yet works on an empty list.
Cfg == IF cache = None THEN Empty ELSE cache

\* Only to say whether a click meets the list as it is: the page has read, no
\* read or write is under way, and the page shows what the device has.
Settled == cache # None /\ ~fetching /\ writes = {} /\ cache = Decoded(server)

\* A wrapped answer has none of the keys the decoder looks for.
Answer ==
  /\ fetching
  /\ fetching' = FALSE /\ cache' = IF wrapped THEN Empty ELSE Decoded(server)
  /\ UNCHANGED <<server, production, wrapped, modal, writes, clicks, raced>>

\* What was read before stays on the page.
FailFetch ==
  /\ fetching
  /\ fetching' = FALSE
  /\ UNCHANGED <<server, production, wrapped, cache, modal, writes, clicks, raced>>

Refetch ==
  /\ ~fetching /\ fetching' = TRUE
  /\ UNCHANGED <<server, production, wrapped, cache, modal, writes, clicks, raced>>

Open(kind, key) ==
  /\ modal = Closed /\ modal' = [kind |-> kind, key |-> key]
  /\ UNCHANGED <<server, production, wrapped, cache, fetching, writes, clicks, raced>>

OpenAdd(k)    == Open("add", k)
OpenEdit(k)   == Cfg[k] # None /\ Open("edit", k)
OpenDeleteAll == Open("all", None)

Close ==
  /\ modal # Closed /\ modal' = Closed
  /\ UNCHANGED <<server, production, wrapped, cache, fetching, writes, clicks, raced>>

Call(nr, cfg, all) == [nr |-> nr, cfg |-> cfg, all |-> all, done |-> FALSE]

\* save.isPending: the latest call is under way.
Saving == \E w \in writes : w.nr = clicks /\ ~w.all

Send(cfg) ==
  /\ clicks < MaxClicks /\ clicks' = clicks + 1
  /\ writes' = writes \cup {Call(clicks', cfg, FALSE)}
  /\ raced' = (raced \/ ~Settled)
  /\ UNCHANGED <<server, production, wrapped, cache, fetching, modal>>

(* Mutant: the dialog sends its item without the rest of the list.         *)
ChangedAlone(k, b) == [Empty EXCEPT ![k] = b]

(***************************************************************************)
(* The dialog's save.  It sends its own fields and nothing else of the     *)
(* item it was opened with.  An edit replaces all items of the name, and   *)
(* may make a trap target one of the other version; it replaces nothing if *)
(* the list has lost the name since.  An added item whose key is taken     *)
(* merges with it.                                                         *)
(***************************************************************************)
Beside(c, k, b)  == [c EXCEPT ![k] = b]
InPlace(c, k, b) == [j \in Key |-> IF j = k THEN b ELSE IF j \in Alike(k) THEN None ELSE c[j]]
Listed(k) == \E j \in Alike(k) : Cfg[j] # None
Changed(k, b) ==
  CASE modal.kind = "add"             -> Beside(Cfg, k, b)
    [] modal.kind = "edit" /\ Listed(k) -> InPlace(Cfg, k, b)
    [] OTHER                          -> Cfg
Save ==
  /\ modal.kind \in {"add", "edit"} /\ ~Saving
  /\ \E k \in Alike(modal.key), b \in Body :
       /\ b.value # First
       /\ b.rest = "hidden" => modal.kind = "add" /\ Cfg[k] # None
       /\ Send(Changed(k, b))

\* The cross of a row: no dialog, and no wait for a save that is under way.
Delete(k) ==
  /\ modal = Closed /\ Cfg[k] # None
  /\ Send(InPlace(Cfg, k, None))

DeleteAll ==
  /\ modal.kind = "all" /\ clicks < MaxClicks
  /\ \A w \in writes : ~w.all
  /\ writes' = writes \cup {Call(clicks, Empty, TRUE)}
  /\ raced' = (raced \/ writes # {})
  /\ UNCHANGED <<server, production, wrapped, cache, fetching, modal, clicks>>

(***************************************************************************)
(* The service: one commit that deletes the subtree and sets it anew, but  *)
(* none for version 2 items in production.                                 *)
(***************************************************************************)
Blocked(cfg) == production /\ \E k \in V2C : cfg[k] # None

Apply(w) ==
  /\ ~w.done /\ ~Blocked(w.cfg)
  /\ server' = Encoded(w.cfg)
  /\ writes' = (writes \ {w}) \cup {[w EXCEPT !.done = TRUE]}
  /\ UNCHANGED <<production, wrapped, cache, fetching, modal, clicks, raced>>

\* That check, or any error before the commit; the dialog stays.
Refuse(w) ==
  /\ ~w.done
  /\ writes' = writes \ {w}
  /\ UNCHANGED <<server, production, wrapped, cache, fetching, modal, clicks, raced>>

\* onSuccess: the list is read anew; that of save closes any open dialog.
Succeed(w) ==
  /\ w.done
  /\ writes' = writes \ {w} /\ fetching' = TRUE
  /\ modal' = IF w.all THEN modal ELSE Closed
  /\ UNCHANGED <<server, production, wrapped, cache, clicks, raced>>

\* The answer is lost, or the Confirm was: the page takes the save for failed and reads nothing.
LoseAnswer(w) ==
  /\ w.done
  /\ raced' = TRUE
  /\ writes' = writes \ {w}
  /\ UNCHANGED <<server, production, wrapped, cache, fetching, modal, clicks>>

\* Another administrator, another tab, or the device's timer after a Confirm
\* that failed; a removal stands for any change.
Outside ==
  /\ raced' = TRUE
  /\ \E k \in Key : server' = [server EXCEPT ![k] = None]
  /\ UNCHANGED <<production, wrapped, cache, fetching, modal, writes, clicks>>

Moves ==
  \/ Answer \/ FailFetch \/ Refetch \/ OpenDeleteAll \/ Close
  \/ Save \/ DeleteAll \/ Outside
  \/ \E k \in Key : OpenAdd(k) \/ OpenEdit(k) \/ Delete(k)
  \/ \E w \in writes : Apply(w) \/ Refuse(w) \/ Succeed(w) \/ LoseAnswer(w)

\* A behaviour ends where something raced a click: nothing is promised after it.
Next == ~raced /\ Moves

Spec == Init /\ [][Next]_vars

-----------------------------------------------------------------------------
(***************************************************************************)
(* What a trip to the page and back leaves of an item it does not touch.   *)
(***************************************************************************)
Worn(b) ==
  IF b = None \/ b.rest = "bare" THEN None
  ELSE IF b.rest = "extra" THEN [b EXCEPT !.rest = "plain"] ELSE b

Store == INSTANCE ItemStore WITH items <- server

(***************************************************************************)
(* Saving the whole configuration comes to changing the one item: as long  *)
(* as every click met the current list, a save or a delete puts or removes *)
(* its own item, with the trap target of the other version at the same     *)
(* address, and costs the others no more than what the page cannot carry;  *)
(* the credentials of the other users stay.                                *)
(***************************************************************************)
WritesOneItem == Store!Spec

(***************************************************************************)
(* Why (inductive): until something raced a click, one save at most is     *)
(* under way, and it differs from the device in one name.                  *)
(***************************************************************************)
Config == [Key -> Body \cup {None}]
TypeOK ==
  /\ wrapped \in BOOLEAN
  /\ server \in Config /\ cache \in Config \cup {None} /\ raced \in BOOLEAN
  /\ modal.kind \in {"add", "edit"} => modal.key \in Key
  /\ clicks \in Nat
  /\ writes \subseteq [nr : Nat, cfg : Config, all : BOOLEAN, done : BOOLEAN]

OneAway(cfg) == \E k \in Key, b \in Body \cup {None} :
  cfg \in {Beside(Decoded(server), k, b), InPlace(Decoded(server), k, b)}

IInv ==
  /\ TypeOK
  /\ ~raced =>
       /\ \A w \in writes : writes = {w}
       /\ \A w \in writes : ~w.done => w.cfg = Empty \/ OneAway(w.cfg)
=============================================================================
