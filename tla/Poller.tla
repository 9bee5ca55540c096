------------------------------- MODULE Poller -------------------------------
(***************************************************************************)
(* The poller: a tick starts one goroutine per device and waits for all of *)
(* them; each asks its device, writes the status row and broadcasts what   *)
(* it found through the event hub.                                         *)
(*                                                                         *)
(* A goroutine is named by its device and by whether its tick is even or   *)
(* odd, so that goroutines of two ticks could run at the same time.        *)
(***************************************************************************)
EXTENDS EventHub, FiniteSets

CONSTANTS
    Devices,
    MaxTicks \* bound on the number of ticks

ASSUME TopicsDevices == Topics = Devices
ASSUME SendersPolls  == Senders = Devices \X {0, 1}
ASSUME TimesTicks    == MaxTicks \in Nat /\ MaxTime = 2 * MaxTicks + 1

VARIABLES
    ticks, \* ticks begun
    poll,  \* poll[g]: [at, tick] of each goroutine
    row    \* row[d]: the tick of which the status in devices is the outcome

pollVars == <<ticks, poll, row>>
vars == <<hubVars, pollVars>>

Stages == {"idle", "ask", "tell", "measure"}
Idle == [at |-> "idle", tick |-> 0]

Init ==
    /\ HubInit
    /\ ticks = 0
    /\ poll = [g \in Senders |-> Idle]
    /\ row = [d \in Devices |-> 0]

At(g, stage) == poll[g].at = stage /\ cast[g] = None
Goto(g, stage) == poll' = [poll EXCEPT ![g].at = stage]

---------------------------------------------------------------------------
Running == {g \in Senders : poll[g].at # "idle" \/ cast[g] # None}

StartTick ==
    /\ ticks < MaxTicks
    /\ ticks' = ticks + 1
    /\ poll' = [g \in Senders |->
                  IF g[2] = ticks' % 2 THEN [at |-> "ask", tick |-> ticks'] ELSE poll[g]]
    /\ UNCHANGED <<hubVars, row>>

(* Mutant: tick does not wait for its goroutines.                          *)
TickAnyway == StartTick /\ \A g \in Running : g[2] # (ticks + 1) % 2

(* tick, which Run calls again only after wg.Wait; if the devices cannot   *)
(* be listed nothing happens.                                              *)
Tick == StartTick /\ Running = {}

(* client.Info, whose outcome becomes the status in devices: by the client *)
(* call or the failure to get a client, and UpdateDeviceStatus.  The       *)
(* statement may fail, and does when the 15 seconds of the poll were spent *)
(* waiting for the device; its error is dropped.                           *)
Ask(g) ==
    /\ At(g, "ask")
    /\ \/ row' = [row EXCEPT ![g[1]] = poll[g].tick]
       \/ UNCHANGED row
    /\ Goto(g, "tell")
    /\ UNCHANGED <<hubVars, ticks>>

(* The status event.                                                       *)
Tell(g) ==
    /\ At(g, "tell")
    /\ Broadcast(g, [dev |-> g[1], n |-> 2 * poll[g].tick])
    /\ Goto(g, "measure")
    /\ UNCHANGED <<ticks, row>>

(* The events of counters and throughput (one stands for both), unless the *)
(* device is offline or does not answer for them.                          *)
Measure(g) ==
    /\ At(g, "measure")
    /\ \/ Broadcast(g, [dev |-> g[1], n |-> 2 * poll[g].tick + 1])
       \/ UNCHANGED hubVars
    /\ poll' = [poll EXCEPT ![g] = Idle]
    /\ UNCHANGED <<ticks, row>>

PollStep(g) ==
    \/ Ask(g) \/ Tell(g) \/ Measure(g)
    \/ /\ \/ \E h \in Handlers : Offer(g, h)
          \/ EndBroadcast(g)
       /\ UNCHANGED pollVars

Connection ==
    /\ Browser \/ \E h \in Handlers : HandlerStep(h)
    /\ UNCHANGED pollVars

Next ==
    \/ Tick \/ Connection
    \/ \E g \in Senders : PollStep(g)

Spec == Init /\ [][Next]_vars

(* Calls of a poll and of a handler end in time, the lock lets readers that*)
(* wait in when a writer leaves, and each writer has its turn.             *)
Leaving(h) == Lock(h) \/ Subscribe(h) \/ Leave(h) \/ Unsubscribe(h) \/ Close(h)

FairSpec ==
    /\ Spec
    /\ \A g \in Senders : SF_vars(PollStep(g))
    /\ \A h \in Handlers : SF_vars(Leaving(h) /\ UNCHANGED pollVars)

---------------------------------------------------------------------------
(* A tick's goroutines are of that tick, so that no two are of one device, *)
(* and what is being broadcast is the last there is (inductive with HubInv;*)
(* poller.go:209-224).                                                     *)
PollInv ==
    /\ ticks \in 0..MaxTicks
    /\ poll \in [Senders -> [at: Stages, tick: 0..MaxTicks]]
    /\ row \in [Devices -> 0..MaxTicks]
    /\ \A g \in Senders :
           /\ poll[g].at = "idle" => poll[g] = Idle
           /\ poll[g].at # "idle" => poll[g].tick = ticks /\ ticks > 0
           /\ g \in Running => g[2] = ticks % 2
           /\ cast[g] # None => cast[g] = [dev |-> g[1], n |-> last[g[1]]]

Sorted(q) == \A i, j \in DOMAIN q : i < j /\ q[i].dev = q[j].dev => q[i].n <= q[j].n
Below(q, f) == \A i \in DOMAIN q : q[i].n <= f[q[i].dev]
Above(q, f) == \A i \in DOMAIN q : q[i].n >= f[q[i].dev]

(* Rows, tabs and channels hold nothing from the future, and what a tab has*)
(* yet to get is no older than what it shows (inductive with the others;   *)
(* poller.go:209-295).                                                     *)
OrderInv ==
    /\ \A d \in Devices :
           /\ row[d] <= ticks /\ last[d] <= 2 * ticks + 1
           /\ \A t \in Tabs : view[t][d] <= last[d]
    /\ \A g \in Senders :
           /\ poll[g].at \in {"ask", "tell"} => last[g[1]] < 2 * ticks
           /\ poll[g].at = "measure" => last[g[1]] <= 2 * ticks
    /\ \A h \in Handlers : pc[h] = "serving" =>
           /\ Sorted(queue[h]) /\ Below(queue[h], last)
           /\ \A t \in Tabs : conn[t] = h => Above(queue[h], view[t])

IInv == HubInv /\ PollInv /\ OrderInv

(* The row of a device never goes back to the outcome of an earlier poll,  *)
(* nor a tab to an earlier event, whatever goroutines and connections come *)
(* after each other (poller.go:209-247, api.ts:836-863): the sparkline     *)
(* appends samples in the order they arrive.                               *)
InOrder ==
    [][\A d \in Devices : row'[d] >= row[d] /\ \A t \in Tabs : view'[t][d] >= view[t][d]]_vars

(* Nobody waits for ever: every tick ends, and a handler ends although it  *)
(* does not notice that its tab is gone (poller.go:209-224, 333-350;       *)
(* server.go:47).                                                          *)
NobodyStuck ==
    /\ Running # {} ~> Running = {}
    /\ \A h \in Handlers : pc[h] # "down" ~> pc[h] = "down"

=============================================================================
