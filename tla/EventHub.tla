------------------------------ MODULE EventHub ------------------------------
(***************************************************************************)
(* The event hub: goroutines that broadcast, the handlers of WebSocket     *)
(* connections that subscribe, and the browser tabs behind them.  A        *)
(* sync.RWMutex guards the map of subscribers: a broadcast holds it for    *)
(* reading while it offers its event to every channel, without waiting for *)
(* one that is full; Subscribe and Unsubscribe hold it for writing.  Once  *)
(* a writer waits, no further reader gets in until it has left.            *)
(***************************************************************************)
EXTENDS Naturals, Sequences

CONSTANTS
    Senders,  \* goroutines that broadcast
    Topics,   \* what events are about: devices
    Handlers, \* goroutines of wsHandler; each has at most one channel
    Tabs,     \* browser tabs, one connection each
    Filters,  \* the device_id of requests, None for every device
    Capacity, \* events a channel holds (64)
    MaxTime,  \* bound: events are of the times 1..MaxTime
    None

ASSUME Room   == Capacity \in Nat \ {0} /\ MaxTime \in Nat
ASSUME Asked  == Filters \subseteq Topics \cup {None}
VARIABLES
    subs,    \* p.subs
    channel, \* channel[h]: "open", or "closed" (there is none yet, or no more)
    queue,   \* queue[h]: what channel[h] holds
    cast,    \* cast[s]: the event s broadcasts, None if it is not broadcasting
    todo,    \* todo[s]: subscribers that s has yet to reach
    writer,  \* the handler whose Lock holds up new readers, or None
    pc,      \* where each handler stands
    filter,  \* filter[h]: the device_id of its request, None for every device
    tab,     \* tab[h]: the tab that connected
    conn,    \* conn[t]: the handler behind the tab's open socket, or None
    view,    \* view[t][d]: the time of the last event of d the tab got
    last,    \* last[d]: the time of the last event of d that was broadcast
    due      \* due[h]: the devices whose last event h has yet to be given,
             \* unless it found the channel full

hubVars == <<subs, channel, queue, cast, todo, writer, pc, filter, tab, conn, view, last, due>>

Times == 0..MaxTime
Event == [dev: Topics, n: 1..MaxTime]

ASSUME NoName == None \notin Topics \cup Handlers \cup Tabs \cup Event

Steps == {"down", "subscribe", "serving", "unsubscribe", "close"}

HubTypeOK ==
    /\ subs \subseteq Handlers
    /\ channel \in [Handlers -> {"open", "closed"}]
    /\ queue \in [Handlers -> Seq(Event)]
    /\ cast \in [Senders -> Event \cup {None}]
    /\ todo \in [Senders -> SUBSET Handlers]
    /\ writer \in Handlers \cup {None}
    /\ pc \in [Handlers -> Steps]
    /\ filter \in [Handlers -> Topics \cup {None}]
    /\ tab \in [Handlers -> Tabs \cup {None}]
    /\ conn \in [Tabs -> Handlers \cup {None}]
    /\ view \in [Tabs -> [Topics -> Times]]
    /\ last \in [Topics -> Times]
    /\ due \in [Handlers -> SUBSET Topics]

HubInit ==
    /\ subs = {}
    /\ channel = [h \in Handlers |-> "closed"]
    /\ queue = [h \in Handlers |-> << >>]
    /\ cast = [s \in Senders |-> None]
    /\ todo = [s \in Senders |-> {}]
    /\ writer = None
    /\ pc = [h \in Handlers |-> "down"]
    /\ filter = [h \in Handlers |-> None]
    /\ tab = [h \in Handlers |-> None]
    /\ conn = [t \in Tabs |-> None]
    /\ view = [t \in Tabs |-> [d \in Topics |-> 0]]
    /\ last = [d \in Topics |-> 0]
    /\ due = [h \in Handlers |-> {}]

---------------------------------------------------------------------------
(* broadcast: read lock, one offer per subscriber, in any order, unlock.   *)

Reading == \E s \in Senders : cast[s] # None

Broadcast(s, e) ==
    /\ cast[s] = None /\ writer = None
    /\ cast' = [cast EXCEPT ![s] = e]
    /\ todo' = [todo EXCEPT ![s] = subs]
    /\ last' = [last EXCEPT ![e.dev] = e.n]
    /\ due' = [h \in Handlers |-> IF h \in subs THEN due[h] \cup {e.dev} ELSE due[h]]
    /\ UNCHANGED <<subs, channel, queue, writer, pc, filter, tab, conn, view>>

(* Mutant: the send waits for room.                                        *)
OfferBlocking(s, h) ==
    /\ h \in todo[s] /\ Len(queue[h]) < Capacity
    /\ todo' = [todo EXCEPT ![s] = @ \ {h}]
    /\ queue' = [queue EXCEPT ![h] = Append(@, cast[s])]
    /\ UNCHANGED <<subs, channel, cast, writer, pc, filter, tab, conn, view, last, due>>

(* Mutant: a full channel ends the loop.                                   *)
OfferOrStop(s, h) ==
    /\ h \in todo[s]
    /\ LET full == Len(queue[h]) >= Capacity
       IN  /\ todo' = [todo EXCEPT ![s] = IF full THEN {} ELSE @ \ {h}]
           /\ queue' = [queue EXCEPT ![h] = IF full THEN @ ELSE Append(@, cast[s])]
           /\ due' = [due EXCEPT ![h] = IF full THEN @ \ {cast[s].dev} ELSE @]
    /\ UNCHANGED <<subs, channel, cast, writer, pc, filter, tab, conn, view, last>>

(* A send on a closed channel would panic (NoSendOnClosed).                *)
Offer(s, h) ==
    /\ h \in todo[s]
    /\ todo' = [todo EXCEPT ![s] = @ \ {h}]
    /\ LET full == Len(queue[h]) >= Capacity
       IN  /\ queue' = [queue EXCEPT ![h] = IF full THEN @ ELSE Append(@, cast[s])]
           /\ due' = [due EXCEPT ![h] = IF full THEN @ \ {cast[s].dev} ELSE @]
    /\ UNCHANGED <<subs, channel, cast, writer, pc, filter, tab, conn, view, last>>

EndBroadcast(s) ==
    /\ cast[s] # None /\ todo[s] = {}
    /\ cast' = [cast EXCEPT ![s] = None]
    /\ UNCHANGED <<subs, channel, queue, todo, writer, pc, filter, tab, conn, view, last, due>>

---------------------------------------------------------------------------
(* connectWS and wsHandler up to Subscribe.                                *)

(* Lock: one writer at a time asks readers to leave, and waits for them.   *)
Lock(h) ==
    /\ pc[h] \in {"subscribe", "unsubscribe"} /\ writer = None
    /\ writer' = h
    /\ UNCHANGED <<subs, channel, queue, cast, todo, pc, filter, tab, conn, view, last, due>>

Connect(t, h, f) ==
    /\ conn[t] = None /\ pc[h] = "down"
    /\ conn' = [conn EXCEPT ![t] = h]
    /\ tab' = [tab EXCEPT ![h] = t]
    /\ filter' = [filter EXCEPT ![h] = f]
    /\ pc' = [pc EXCEPT ![h] = "subscribe"]
    /\ UNCHANGED <<subs, channel, queue, cast, todo, writer, view, last, due>>

Subscribe(h) ==
    /\ pc[h] = "subscribe" /\ writer = h /\ ~Reading
    /\ writer' = None
    /\ subs' = subs \cup {h}
    /\ channel' = [channel EXCEPT ![h] = "open"]
    /\ queue' = [queue EXCEPT ![h] = << >>]
    /\ due' = [due EXCEPT ![h] = {}]
    /\ pc' = [pc EXCEPT ![h] = "serving"]
    /\ UNCHANGED <<cast, todo, filter, tab, conn, view, last>>

(* Mutant: the tab still takes messages from a socket it has closed.       *)
ForwardToOld(h) ==
    /\ pc[h] = "serving" /\ queue[h] # << >>
    /\ LET e == Head(queue[h])
       IN  /\ due' = [due EXCEPT ![h] = IF e.n = last[e.dev] THEN @ \ {e.dev} ELSE @]
           /\ view' = IF filter[h] \in {None, e.dev} THEN [view EXCEPT ![tab[h]][e.dev] = e.n] ELSE view
    /\ queue' = [queue EXCEPT ![h] = Tail(@)]
    /\ UNCHANGED <<subs, channel, cast, todo, writer, pc, filter, tab, conn, last>>

(* One round of the handler's loop.  An event of another device is skipped.*)
(* c.Write succeeds as soon as the network takes the message: nobody need  *)
(* be there to read it.                                                    *)
Forward(h) ==
    /\ pc[h] = "serving" /\ queue[h] # << >>
    /\ LET e == Head(queue[h])
       IN  /\ due' = [due EXCEPT ![h] = IF e.n = last[e.dev] THEN @ \ {e.dev} ELSE @]
           /\ view' = [t \in Tabs |->
                          IF conn[t] = h /\ filter[h] \in {None, e.dev}
                          THEN [view[t] EXCEPT ![e.dev] = e.n] ELSE view[t]]
    /\ queue' = [queue EXCEPT ![h] = Tail(@)]
    /\ UNCHANGED <<subs, channel, cast, todo, writer, pc, filter, tab, conn, last>>

(* The context of the request ends (middleware.Timeout applies to this     *)
(* route too), or the write of an event that was taken fails.              *)
Leave(h) ==
    /\ pc[h] = "serving"
    /\ \/ UNCHANGED queue
       \/ queue[h] # << >> /\ queue' = [queue EXCEPT ![h] = Tail(@)]
    /\ pc' = [pc EXCEPT ![h] = "unsubscribe"]
    /\ tab' = [tab EXCEPT ![h] = None]
    /\ filter' = [filter EXCEPT ![h] = None]
    /\ due' = [due EXCEPT ![h] = {}]
    /\ UNCHANGED <<subs, channel, cast, todo, writer, conn, view, last>>

(* Mutant: delete does not take the lock.                                  *)
UnsubscribeUnlocked(h) ==
    /\ pc[h] = "unsubscribe"
    /\ writer' = IF writer = h THEN None ELSE writer
    /\ subs' = subs \ {h}
    /\ pc' = [pc EXCEPT ![h] = "close"]
    /\ UNCHANGED <<channel, queue, cast, todo, filter, tab, conn, view, last, due>>

Unsubscribe(h) ==
    /\ pc[h] = "unsubscribe" /\ writer = h /\ ~Reading
    /\ writer' = None
    /\ subs' = subs \ {h}
    /\ pc' = [pc EXCEPT ![h] = "close"]
    /\ UNCHANGED <<channel, queue, cast, todo, filter, tab, conn, view, last, due>>

(* close(ch) and the deferred c.Close, which the tab's onclose follows.    *)
Close(h) ==
    /\ pc[h] = "close"
    /\ channel' = [channel EXCEPT ![h] = "closed"]
    /\ queue' = [queue EXCEPT ![h] = << >>]
    /\ pc' = [pc EXCEPT ![h] = "down"]
    /\ conn' = [t \in Tabs |-> IF conn[t] = h THEN None ELSE conn[t]]
    /\ due' = [due EXCEPT ![h] = {}]
    /\ UNCHANGED <<subs, cast, todo, writer, filter, tab, view, last>>

(* The tab loses the connection or leaves the page.  Nothing reads from    *)
(* the connection, so the handler does not notice.                         *)
Lose(t) ==
    /\ conn[t] # None
    /\ conn' = [conn EXCEPT ![t] = None]
    /\ UNCHANGED <<subs, channel, queue, cast, todo, writer, pc, filter, tab, view, last, due>>

HandlerStep(h) ==
    Lock(h) \/ Subscribe(h) \/ Forward(h) \/ Leave(h) \/ Unsubscribe(h) \/ Close(h)

Browser ==
    \E t \in Tabs :
        \/ \E h \in Handlers, f \in Filters : Connect(t, h, f)
        \/ Lose(t)

HubNext ==
    \/ \E s \in Senders :
           \/ \E e \in Event : Broadcast(s, e)
           \/ \E h \in Handlers : Offer(s, h)
           \/ EndBroadcast(s)
    \/ \E h \in Handlers : HandlerStep(h)
    \/ Browser

---------------------------------------------------------------------------
Subscribed == {"serving", "unsubscribe"}

(* A subscriber has an open channel; whom a broadcast has yet to reach is  *)
(* a subscriber, because the map does not change while the lock is held    *)
(* for reading (inductive; poller.go:325-350).                             *)
HubInv ==
    /\ HubTypeOK
    /\ \A h \in Handlers :
           /\ h \in subs <=> pc[h] \in Subscribed
           /\ h \in subs => channel[h] = "open"
           /\ Len(queue[h]) <= Capacity
    /\ writer # None => pc[writer] \in {"subscribe", "unsubscribe"}
    /\ \A s \in Senders : todo[s] \subseteq subs /\ (cast[s] = None => todo[s] = {})

(* Unsubscribe deletes the channel under the lock before it closes it      *)
(* (poller.go:333-338): no broadcast, however late, is about to send to a  *)
(* closed channel, which would bring the process down.                     *)
NoSendOnClosed == \A s \in Senders : \A h \in todo[s] : channel[h] = "open"

Holds(q, e) == \E i \in DOMAIN q : q[i] = e

(* The last event of d is in the channel of h or still to be offered to it.*)
OnItsWay(h, d) ==
    \/ Holds(queue[h], [dev |-> d, n |-> last[d]])
    \/ \E s \in Senders : h \in todo[s] /\ cast[s].dev = d

(* "Drop for slow subscribers rather than block." (poller.go:347): only a  *)
(* subscriber whose own channel is full misses an event.  To each other    *)
(* one that is served the last event of a device is on its way until it    *)
(* has been given it.                                                      *)
KeepsUp ==
    \A h \in Handlers : pc[h] = "serving" => \A d \in due[h] : OnItsWay(h, d)

=============================================================================
