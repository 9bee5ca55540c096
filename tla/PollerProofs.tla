---------------------------- MODULE PollerProofs ----------------------------
(***************************************************************************)
(* The event hub and the poller for any number of devices, handlers, tabs  *)
(* and ticks, and for channels of any capacity.                            *)
(***************************************************************************)
EXTENDS Poller, TLAPS

(* A step of the hub keeps its invariant, whoever broadcasts what.         *)
LEMMA HubStep ==
    ASSUME HubInv, [HubNext]_hubVars
    PROVE  HubInv'
<1> USE Room, NoName, Asked DEF HubInv, HubTypeOK, Subscribed, Steps, Times
<1>1. ASSUME NEW s \in Senders, NEW e \in Event, Broadcast(s, e) PROVE HubInv'
  <2>1. e # None /\ e.dev \in Topics /\ e.n \in Times
    BY DEF Event
  <2> QED BY <1>1, <2>1 DEF Broadcast
<1>2. ASSUME NEW s \in Senders, NEW h \in Handlers, Offer(s, h) PROVE HubInv'
  <2>1. cast[s] \in Event
    BY <1>2 DEF Offer
  <2>2. queue'[h] \in Seq(Event) /\ Len(queue'[h]) <= Capacity
    BY <1>2, <2>1 DEF Offer
  <2>3. \A k \in Handlers : queue'[k] = IF k = h THEN queue'[h] ELSE queue[k]
    BY <1>2 DEF Offer
  <2>4. due' \in [Handlers -> SUBSET Topics] /\ todo' \in [Senders -> SUBSET Handlers]
    BY <1>2 DEF Offer
  <2>5. \A r \in Senders : todo'[r] \subseteq todo[r]
    BY <1>2 DEF Offer
  <2>6. queue' \in [Handlers -> Seq(Event)]
    BY <1>2, <2>2 DEF Offer
  <2> QED BY <1>2, <2>2, <2>3, <2>4, <2>5, <2>6 DEF Offer
<1>3. ASSUME NEW s \in Senders, EndBroadcast(s) PROVE HubInv'
  BY <1>3 DEF EndBroadcast
<1>4. ASSUME NEW h \in Handlers, Lock(h) PROVE HubInv'
  BY <1>4 DEF Lock
<1>5. ASSUME NEW h \in Handlers, Subscribe(h) PROVE HubInv'
  BY <1>5 DEF Subscribe, Reading
<1>6. ASSUME NEW h \in Handlers, Forward(h) PROVE HubInv'
  <2>1. /\ queue[h] \in Seq(Event) /\ queue[h] # << >>
        /\ Head(queue[h]) \in Event
        /\ Tail(queue[h]) \in Seq(Event) /\ Len(Tail(queue[h])) = Len(queue[h]) - 1
    BY <1>6 DEF Forward
  <2>2. Head(queue[h]).n \in Times /\ Head(queue[h]).dev \in Topics
    BY <2>1 DEF Event
  <2>3. view' \in [Tabs -> [Topics -> Times]]
    BY <1>6, <2>2 DEF Forward
  <2>4. due' \in [Handlers -> SUBSET Topics]
    BY <1>6 DEF Forward
  <2> QED BY <1>6, <2>1, <2>3, <2>4 DEF Forward
<1>7. ASSUME NEW h \in Handlers, Leave(h) PROVE HubInv'
  <2>1. queue' \in [Handlers -> Seq(Event)] /\ \A k \in Handlers : Len(queue'[k]) <= Capacity
    <3>1. CASE UNCHANGED queue
      BY <3>1
    <3>2. CASE queue[h] # << >> /\ queue' = [queue EXCEPT ![h] = Tail(@)]
      <4>1. Tail(queue[h]) \in Seq(Event) /\ Len(Tail(queue[h])) = Len(queue[h]) - 1
        BY <3>2
      <4> QED BY <3>2, <4>1
    <3> QED BY <1>7, <3>1, <3>2 DEF Leave
  <2>2. /\ pc[h] = "serving" /\ pc' = [pc EXCEPT ![h] = "unsubscribe"]
        /\ tab' = [tab EXCEPT ![h] = None] /\ filter' = [filter EXCEPT ![h] = None]
        /\ due' = [due EXCEPT ![h] = {}]
        /\ UNCHANGED <<subs, channel, cast, todo, writer, conn, view, last>>
    BY <1>7 DEF Leave
  <2> HIDE <1>7
  <2> QED BY <2>1, <2>2
<1>8. ASSUME NEW h \in Handlers, Unsubscribe(h) PROVE HubInv'
  BY <1>8 DEF Unsubscribe, Reading
<1>9. ASSUME NEW h \in Handlers, Close(h) PROVE HubInv'
  BY <1>9 DEF Close
<1>10. ASSUME NEW t \in Tabs, NEW h \in Handlers, NEW f \in Filters, Connect(t, h, f) PROVE HubInv'
  BY <1>10 DEF Connect
<1>11. ASSUME NEW t \in Tabs, Lose(t) PROVE HubInv'
  BY <1>11 DEF Lose
<1>12. CASE UNCHANGED hubVars
  BY <1>12 DEF hubVars
<1> QED
  BY <1>1, <1>2, <1>3, <1>4, <1>5, <1>6, <1>7, <1>8, <1>9, <1>10, <1>11, <1>12
  DEF HubNext, HandlerStep, Browser

(* Only Broadcast and Forward look at what an event is about.              *)
LEMMA PollerIsHub ==
    ASSUME IInv, [Next]_vars
    PROVE  [HubNext]_hubVars
<1> USE DEF vars
<1>1. CASE Tick
  BY <1>1 DEF Tick, StartTick
<1>2. CASE Connection
  BY <1>2 DEF Connection, HubNext
<1>3. ASSUME NEW g \in Senders, PollStep(g) PROVE [HubNext]_hubVars
  <2>1. ASSUME NEW n \in {2 * poll[g].tick, 2 * poll[g].tick + 1}, poll[g].tick = ticks, ticks > 0
        PROVE  [dev |-> g[1], n |-> n] \in Event
    BY <2>1, SendersPolls, TopicsDevices, TimesTicks DEF Event, IInv, PollInv
  <2>2. poll[g].at # "idle" => poll[g].tick = ticks /\ ticks > 0
    BY DEF IInv, PollInv
  <2>3. CASE Ask(g)
    BY <2>3 DEF Ask
  <2>4. CASE Tell(g)
    BY <2>1, <2>2, <2>4 DEF Tell, At, HubNext
  <2>5. CASE Measure(g)
    BY <2>1, <2>2, <2>5 DEF Measure, At, HubNext
  <2>6. CASE (\E h \in Handlers : Offer(g, h)) \/ EndBroadcast(g)
    BY <2>6 DEF HubNext
  <2> QED BY <1>3, <2>3, <2>4, <2>5, <2>6 DEF PollStep
<1>4. CASE UNCHANGED vars
  BY <1>4
<1> QED BY <1>1, <1>2, <1>3, <1>4 DEF Next

(* No other goroutine is broadcasting about the same device.               *)
LEMMA BroadcastIsLast ==
    ASSUME IInv, NEW g \in Running, NEW n, Broadcast(g, [dev |-> g[1], n |-> n])
    PROVE  \A k \in Senders : cast'[k] # None => cast'[k] = [dev |-> k[1], n |-> last'[k[1]]]
<1>1. g \in Senders /\ g[1] \in Topics /\ g[2] = ticks % 2
  BY SendersPolls, TopicsDevices DEF Running, IInv, PollInv
<1>2. cast' = [cast EXCEPT ![g] = [dev |-> g[1], n |-> n]] /\ last' = [last EXCEPT ![g[1]] = n]
  BY DEF Broadcast
<1>3. cast \in [Senders -> Event \cup {None}] /\ last \in [Topics -> Times]
  BY DEF IInv, HubInv, HubTypeOK
<1>4. cast'[g] = [dev |-> g[1], n |-> last'[g[1]]]
  BY <1>1, <1>2, <1>3
<1>5. ASSUME NEW k \in Senders, k # g, cast[k] # None
      PROVE  cast'[k] = [dev |-> k[1], n |-> last'[k[1]]]
  <2>1. cast[k] = [dev |-> k[1], n |-> last[k[1]]] /\ k[2] = ticks % 2
    BY <1>5 DEF Running, IInv, PollInv
  <2>2. k[1] # g[1]
    BY <1>1, <1>5, <2>1, SendersPolls
  <2> QED BY <1>1, <1>2, <1>3, <1>5, <2>1, <2>2
<1> QED BY <1>1, <1>2, <1>3, <1>4, <1>5

(* What the invariant says of one goroutine.                               *)
PollOK(g) ==
    /\ poll[g].at = "idle" => poll[g] = Idle
    /\ poll[g].at # "idle" => poll[g].tick = ticks /\ ticks > 0
    /\ g \in Running => g[2] = ticks % 2

LEMMA OthersOK ==
    ASSUME PollInv, NEW g \in Senders, NEW k \in Senders, k # g,
           ticks' = ticks, poll'[k] = poll[k], cast'[k] = cast[k]
    PROVE  PollOK(k)'
BY DEF PollInv, PollOK, Running

(* A poll belongs to the running tick, because the next one waits for it.  *)
LEMMA PollStepInv ==
    ASSUME IInv, [Next]_vars
    PROVE  PollInv'
<1> USE SendersPolls, TopicsDevices, TimesTicks DEF IInv, PollInv, Stages, Idle, Goto, At
<1>1. CASE Tick
  <2>1. /\ ticks' = ticks + 1 /\ ticks' \in 0..MaxTicks /\ ticks' > 0
        /\ UNCHANGED <<hubVars, row>>
        /\ poll' = [g \in Senders |->
                      IF g[2] = ticks' % 2 THEN [at |-> "ask", tick |-> ticks'] ELSE poll[g]]
    <3>1. StartTick
      BY <1>1 DEF Tick
    <3>2. ticks < MaxTicks /\ ticks' = ticks + 1 /\ UNCHANGED <<hubVars, row>>
      BY <3>1 DEF StartTick
    <3>3. ticks' \in 0..MaxTicks /\ ticks' > 0
      BY <3>2
    <3> QED BY <3>1, <3>2, <3>3 DEF StartTick
  <2>2. UNCHANGED <<cast, last>>
    BY <2>1 DEF hubVars
  <2>3. \A g \in Senders : poll[g] = Idle /\ cast[g] = None
    BY <1>1 DEF Tick, Running
  <2>4. \A g \in Senders :
            poll'[g] = IF g[2] = ticks' % 2 THEN [at |-> "ask", tick |-> ticks'] ELSE Idle
    BY <2>1, <2>3
  <2>5. poll' \in [Senders -> [at: Stages, tick: 0..MaxTicks]]
    BY <2>1, <2>3
  <2>6. ASSUME NEW g \in Senders
        PROVE  /\ poll'[g].at = "idle" => poll'[g] = Idle
               /\ poll'[g].at # "idle" => poll'[g].tick = ticks' /\ ticks' > 0 /\ g[2] = ticks' % 2
               /\ cast'[g] = None
    BY <2>1, <2>2, <2>3, <2>4
  <2> QED BY <2>1, <2>5, <2>6 DEF Running
<1>2. CASE Connection
  <2>1. UNCHANGED <<ticks, poll, row, cast, last>>
    BY <1>2 DEF Connection, pollVars, Browser, HandlerStep, Connect, Lose, Lock, Subscribe,
                Forward, Leave, Unsubscribe, Close
  <2> QED BY <2>1 DEF Running
<1>3. ASSUME NEW g \in Senders, Ask(g) PROVE PollInv'
  <2>1. UNCHANGED <<ticks, cast, last>>
    BY <1>3 DEF Ask, hubVars
  <2>2. row' \in [Devices -> 0..MaxTicks]
    BY <1>3 DEF Ask
  <2>3. poll[g].at = "ask" /\ poll' = [poll EXCEPT ![g].at = "tell"]
    BY <1>3 DEF Ask
  <2>4. poll' \in [Senders -> [at: Stages, tick: 0..MaxTicks]]
    BY <2>3
  <2>5. \A k \in Senders : k # g => poll'[k] = poll[k]
    BY <2>3
  <2>6. poll'[g].at = "tell" /\ poll'[g].tick = poll[g].tick
    BY <2>3
  <2> QED BY <2>1, <2>2, <2>3, <2>4, <2>5, <2>6 DEF Running
<1>4. ASSUME NEW g \in Senders, Tell(g) PROVE PollInv'
  <2>1. UNCHANGED <<ticks, row>> /\ poll[g].at = "tell" /\ poll' = [poll EXCEPT ![g].at = "measure"]
    BY <1>4 DEF Tell
  <2>2. Broadcast(g, [dev |-> g[1], n |-> 2 * poll[g].tick])
    BY <1>4 DEF Tell
  <2>3. \A k \in Senders : cast'[k] # None => cast'[k] = [dev |-> k[1], n |-> last'[k[1]]]
    BY <2>1, <2>2, BroadcastIsLast DEF Running
  <2>4. \A k \in Senders : k # g => poll'[k] = poll[k] /\ cast'[k] = cast[k]
    BY <2>1, <2>2 DEF Broadcast
  <2>5. poll' \in [Senders -> [at: Stages, tick: 0..MaxTicks]]
    BY <2>1
  <2>6. poll'[g].at = "measure" /\ poll'[g].tick = poll[g].tick
    BY <2>1
  <2>7. PollOK(g)'
    BY <2>1, <2>6 DEF Running, PollOK
  <2>8. \A k \in Senders : PollOK(k)'
    BY <2>1, <2>4, <2>7, OthersOK
  <2> QED BY <2>1, <2>3, <2>5, <2>8 DEF PollOK
<1>5. ASSUME NEW g \in Senders, Measure(g) PROVE PollInv'
  <2>1. UNCHANGED <<ticks, row>> /\ poll[g].at = "measure" /\ poll' = [poll EXCEPT ![g] = Idle]
    BY <1>5 DEF Measure
  <2>2. CASE UNCHANGED hubVars
    BY <2>1, <2>2 DEF Running, hubVars
  <2>3. CASE Broadcast(g, [dev |-> g[1], n |-> 2 * poll[g].tick + 1])
    <3>1. \A k \in Senders : cast'[k] # None => cast'[k] = [dev |-> k[1], n |-> last'[k[1]]]
      BY <2>1, <2>3, BroadcastIsLast DEF Running
    <3>2. \A k \in Senders : k # g => poll'[k] = poll[k] /\ cast'[k] = cast[k]
      BY <2>1, <2>3 DEF Broadcast
    <3>3. PollOK(g)'
      BY <2>1, <2>3 DEF Running, PollOK
    <3>4. \A k \in Senders : PollOK(k)'
      BY <2>1, <3>2, <3>3, OthersOK
    <3>5. poll' \in [Senders -> [at: Stages, tick: 0..MaxTicks]]
      BY <2>1
    <3> QED BY <2>1, <3>1, <3>4, <3>5 DEF PollOK
  <2> QED BY <1>5, <2>2, <2>3 DEF Measure
<1>6. ASSUME NEW g \in Senders, NEW h \in Handlers, Offer(g, h), UNCHANGED pollVars PROVE PollInv'
  BY <1>6 DEF Offer, pollVars, Running
<1>7. ASSUME NEW g \in Senders, EndBroadcast(g), UNCHANGED pollVars PROVE PollInv'
  BY <1>7 DEF EndBroadcast, pollVars, Running, HubInv, HubTypeOK
<1>8. CASE UNCHANGED vars
  BY <1>8 DEF vars, hubVars, pollVars, Running
<1> QED BY <1>1, <1>2, <1>3, <1>4, <1>5, <1>6, <1>7, <1>8 DEF Next, PollStep

(* Appending the last event of a device, and taking the head, keep a       *)
(* channel in order.                                                       *)
LEMMA AppendInOrder ==
    ASSUME NEW q \in Seq(Event), NEW e \in Event, NEW f \in [Topics -> Times],
           Sorted(q), Below(q, f), e.n = f[e.dev]
    PROVE  /\ Sorted(Append(q, e)) /\ Below(Append(q, e), f)
           /\ \A v \in [Topics -> Times] : Above(q, v) /\ v[e.dev] <= e.n => Above(Append(q, e), v)
<1>1. DOMAIN Append(q, e) = DOMAIN q \cup {Len(q) + 1} /\ Append(q, e)[Len(q) + 1] = e
  OBVIOUS
<1>2. \A i \in DOMAIN q : Append(q, e)[i] = q[i] /\ i < Len(q) + 1 /\ i \in Nat
  OBVIOUS
<1>3. Below(Append(q, e), f)
  <2> SUFFICES ASSUME NEW i \in DOMAIN Append(q, e) PROVE Append(q, e)[i].n <= f[Append(q, e)[i].dev]
    BY DEF Below
  <2>1. e.n <= f[e.dev]
    BY DEF Event, Times
  <2> QED BY <1>1, <1>2, <2>1 DEF Below
<1>4. Sorted(Append(q, e))
  <2> SUFFICES ASSUME NEW i \in DOMAIN Append(q, e), NEW j \in DOMAIN Append(q, e), i < j,
                      Append(q, e)[i].dev = Append(q, e)[j].dev
               PROVE  Append(q, e)[i].n <= Append(q, e)[j].n
    BY DEF Sorted
  <2>1. i \in DOMAIN q
    BY <1>1, <1>2
  <2>2. CASE j \in DOMAIN q
    BY <1>2, <2>1, <2>2 DEF Sorted
  <2>3. CASE j = Len(q) + 1
    BY <1>1, <1>2, <2>1, <2>3 DEF Below
  <2> QED BY <1>1, <2>2, <2>3
<1>5. ASSUME NEW v \in [Topics -> Times], Above(q, v), v[e.dev] <= e.n PROVE Above(Append(q, e), v)
  <2> SUFFICES ASSUME NEW i \in DOMAIN Append(q, e) PROVE Append(q, e)[i].n >= v[Append(q, e)[i].dev]
    BY DEF Above
  <2>1. e.n >= v[e.dev]
    BY <1>5 DEF Event, Times
  <2> QED BY <1>1, <1>2, <1>5, <2>1 DEF Above
<1> QED BY <1>3, <1>4, <1>5

LEMMA TailInOrder ==
    ASSUME NEW q \in Seq(Event), q # << >>, NEW f \in [Topics -> Times], Sorted(q), Below(q, f)
    PROVE  /\ Sorted(Tail(q)) /\ Below(Tail(q), f) /\ Head(q).n <= f[Head(q).dev]
           /\ \A v \in [Topics -> Times] : Above(q, v) =>
                  /\ Above(Tail(q), v) /\ Above(Tail(q), [v EXCEPT ![Head(q).dev] = Head(q).n])
                  /\ Head(q).n >= v[Head(q).dev]
<1>1. \A i \in DOMAIN Tail(q) : i + 1 \in DOMAIN q /\ Tail(q)[i] = q[i + 1] /\ 1 < i + 1 /\ i \in Nat
  OBVIOUS
<1>2. 1 \in DOMAIN q /\ Head(q) = q[1] /\ q[1] \in Event
  OBVIOUS
<1>3. ASSUME NEW i \in DOMAIN q PROVE q[i].dev \in Topics /\ q[i].n \in Nat
  <2>1. q[i] \in Event
    OBVIOUS
  <2> QED BY <2>1 DEF Event
<1>4. Sorted(Tail(q))
  <2> SUFFICES ASSUME NEW i \in DOMAIN Tail(q), NEW j \in DOMAIN Tail(q), i < j,
                      Tail(q)[i].dev = Tail(q)[j].dev
               PROVE  Tail(q)[i].n <= Tail(q)[j].n
    BY DEF Sorted
  <2>1. i + 1 < j + 1
    BY <1>1
  <2> QED BY <1>1, <2>1 DEF Sorted
<1>5. Below(Tail(q), f) /\ Head(q).n <= f[Head(q).dev]
  BY <1>1, <1>2 DEF Below
<1>6. ASSUME NEW v \in [Topics -> Times], Above(q, v)
      PROVE  /\ Above(Tail(q), v) /\ Above(Tail(q), [v EXCEPT ![Head(q).dev] = Head(q).n])
             /\ Head(q).n >= v[Head(q).dev]
  <2>1. Above(Tail(q), v) /\ Head(q).n >= v[Head(q).dev]
    BY <1>1, <1>2, <1>6 DEF Above
  <2> DEFINE w == [v EXCEPT ![Head(q).dev] = Head(q).n]
  <2>2. ASSUME NEW i \in DOMAIN Tail(q) PROVE Tail(q)[i].n >= w[Tail(q)[i].dev]
    <3>1. CASE Tail(q)[i].dev = Head(q).dev
      <4>1. q[1].n <= q[i + 1].n
        BY <1>1, <1>2, <3>1 DEF Sorted
      <4>2. w[Tail(q)[i].dev] = q[1].n
        BY <1>2, <1>3, <3>1
      <4> QED BY <1>1, <1>2, <1>3, <4>1, <4>2
    <3>2. CASE Tail(q)[i].dev # Head(q).dev
      <4>1. w[Tail(q)[i].dev] = v[Tail(q)[i].dev]
        BY <1>1, <1>3, <3>2
      <4> QED BY <2>1, <4>1 DEF Above
    <3> QED BY <3>1, <3>2
  <2> QED BY <2>1, <2>2 DEF Above
<1> QED BY <1>4, <1>5, <1>6

(* What the invariant says of the channel of one handler.                  *)
ChannelOK(h) ==
    /\ Sorted(queue[h]) /\ Below(queue[h], last)
    /\ \A t \in Tabs : conn[t] = h => Above(queue[h], view[t])

LEMMA OnePerDevice ==
    ASSUME PollInv, NEW g \in Running, NEW k \in Running, k # g
    PROVE  k \in Senders /\ g[1] \in Devices /\ k[1] \in Devices /\ k[1] # g[1]
<1>1. g \in Devices \X {0, 1} /\ k \in Devices \X {0, 1} /\ k[2] = g[2]
  BY SendersPolls DEF Running, PollInv
<1> QED BY <1>1, SendersPolls

(* A broadcast is about later times than any channel holds.                *)
LEMMA BroadcastOrder ==
    ASSUME IInv, NEW g \in Senders, poll[g].at \in {"tell", "measure"}, cast[g] = None,
           NEW n \in Times, last[g[1]] < n, n <= 2 * ticks + 1,
           Broadcast(g, [dev |-> g[1], n |-> n]), UNCHANGED <<ticks, row>>,
           \A k \in Senders \ {g} : poll'[k] = poll[k],
           poll'[g].at = "measure" => n <= 2 * ticks,
           poll'[g].at \notin {"ask", "tell"}
    PROVE  OrderInv'
<1>1. last \in [Devices -> Nat] /\ g[1] \in Devices /\ n \in Nat
  BY SendersPolls, TopicsDevices, TimesTicks DEF IInv, HubInv, HubTypeOK, Times
<1>2. last' = [last EXCEPT ![g[1]] = n] /\ UNCHANGED <<queue, pc, conn, view>>
  BY DEF Broadcast
<1>3. last'[g[1]] = n /\ \A d \in Devices : last'[d] \in Nat /\ last[d] <= last'[d]
  BY <1>1, <1>2
<1>4. ASSUME NEW d \in Devices
      PROVE  row'[d] <= ticks' /\ last'[d] <= 2 * ticks' + 1 /\ \A t \in Tabs : view'[t][d] <= last'[d]
  <2>1. row[d] <= ticks /\ last[d] <= 2 * ticks + 1 /\ ticks \in Nat
    BY DEF IInv, PollInv, OrderInv
  <2>2. \A t \in Tabs : view[t][d] \in Nat /\ view[t][d] <= last[d]
    BY TopicsDevices DEF IInv, HubInv, HubTypeOK, Times, OrderInv
  <2>3. last'[d] <= 2 * ticks' + 1
    BY <1>1, <1>2, <2>1
  <2> QED BY <1>1, <1>2, <1>3, <2>1, <2>2, <2>3
<1>5. ASSUME NEW k \in Senders, poll'[k].at # "idle"
      PROVE  /\ poll'[k].at \in {"ask", "tell"} => last'[k[1]] < 2 * ticks'
             /\ poll'[k].at = "measure" => last'[k[1]] <= 2 * ticks'
  <2>1. CASE k = g
    BY <1>3, <2>1
  <2>2. CASE k # g
    <3>1. g \in Running /\ k \in Running /\ poll'[k] = poll[k]
      BY <1>5, <2>2 DEF Running
    <3>2. k[1] \in Devices /\ k[1] # g[1]
      BY <2>2, <3>1, OnePerDevice DEF IInv
    <3>3. last'[k[1]] = last[k[1]]
      BY <1>1, <1>2, <3>2
    <3> QED BY <3>1, <3>3 DEF IInv, OrderInv
  <2> QED BY <2>1, <2>2
<1>6. ASSUME NEW h \in Handlers, pc'[h] = "serving" PROVE ChannelOK(h)'
  <2>1. ChannelOK(h)
    BY <1>2, <1>6 DEF IInv, OrderInv, ChannelOK
  <2>2. queue[h] \in Seq(Event)
    BY DEF IInv, HubInv, HubTypeOK
  <2>3. \A i \in DOMAIN queue[h] : queue[h][i] \in Event
    BY <2>2
  <2>4. \A i \in DOMAIN queue[h] : queue[h][i].dev \in Devices /\ queue[h][i].n \in Nat
    BY <2>3, TopicsDevices DEF Event
  <2>5. Below(queue[h], last')
    BY <1>1, <1>3, <2>1, <2>4 DEF Below, ChannelOK
  <2> QED BY <1>2, <2>1, <2>5 DEF ChannelOK
<1> QED BY <1>4, <1>5, <1>6 DEF OrderInv, ChannelOK

(* Steps of the hub that broadcast nothing.                                *)
LEMMA OfferOrder ==
    ASSUME IInv, NEW g \in Senders, NEW k \in Handlers, Offer(g, k), NEW h \in Handlers, pc[h] = "serving"
    PROVE  ChannelOK(h)'
<1>1. UNCHANGED <<last, conn, view, pc>> /\ cast[g] \in Event /\ queue[h] \in Seq(Event)
  BY DEF Offer, IInv, HubInv, HubTypeOK
<1>2. queue'[h] = queue[h] \/ queue'[h] = Append(queue[h], cast[g])
  BY DEF Offer, IInv, HubInv, HubTypeOK
<1>3. cast[g].n = last[cast[g].dev] /\ cast[g].dev \in Devices
  <2>1. cast[g] = [dev |-> g[1], n |-> last[g[1]]] /\ g[1] \in Devices
    BY <1>1, NoName, SendersPolls DEF IInv, PollInv
  <2> QED BY <2>1
<1>4. ChannelOK(h)
  BY DEF IInv, OrderInv, ChannelOK
<1>5. last \in [Topics -> Times] /\ \A t \in Tabs : view[t] \in [Topics -> Times]
  BY DEF IInv, HubInv, HubTypeOK
<1>6. \A t \in Tabs : view[t][cast[g].dev] <= cast[g].n
  BY <1>3 DEF IInv, OrderInv
<1>7. Sorted(Append(queue[h], cast[g])) /\ Below(Append(queue[h], cast[g]), last)
  BY <1>1, <1>3, <1>4, <1>5, AppendInOrder DEF ChannelOK
<1>8. ASSUME NEW t \in Tabs, conn[t] = h PROVE Above(Append(queue[h], cast[g]), view[t])
  <2>1. Above(queue[h], view[t])
    BY <1>4, <1>8 DEF ChannelOK
  <2> QED BY <1>1, <1>3, <1>4, <1>5, <1>6, <2>1, AppendInOrder DEF ChannelOK
<1> QED BY <1>1, <1>2, <1>4, <1>7, <1>8 DEF ChannelOK

LEMMA ForwardOrder ==
    ASSUME IInv, NEW h \in Handlers, Forward(h)
    PROVE  /\ \A k \in Handlers : pc[k] = "serving" => ChannelOK(k)'
           /\ \A t \in Tabs, d \in Devices : view'[t][d] <= last[d] /\ view[t][d] <= view'[t][d]
<1> DEFINE e == Head(queue[h])
<1>1. /\ queue[h] \in Seq(Event) /\ queue[h] # << >> /\ last \in [Topics -> Times]
      /\ \A t \in Tabs : view[t] \in [Topics -> Times]
  BY DEF Forward, IInv, HubInv, HubTypeOK
<1>2. e \in Event
  BY <1>1
<1>3. e.dev \in Topics /\ e.n \in Times
  BY <1>2 DEF Event, Times
<1>4. /\ UNCHANGED <<last, conn>> /\ queue'[h] = Tail(queue[h])
      /\ \A k \in Handlers : k # h => queue'[k] = queue[k]
  BY DEF Forward, IInv, HubInv, HubTypeOK
<1>5. ASSUME NEW t \in Tabs
      PROVE  view'[t] = view[t] \/ (conn[t] = h /\ view'[t] = [view[t] EXCEPT ![e.dev] = e.n])
  <2>1. view'[t] = IF conn[t] = h /\ filter[h] \in {None, e.dev}
                   THEN [view[t] EXCEPT ![e.dev] = e.n] ELSE view[t]
    BY DEF Forward
  <2> QED BY <2>1
<1>6. ChannelOK(h) /\ \A k \in Handlers : pc[k] = "serving" => ChannelOK(k)
  BY DEF Forward, IInv, OrderInv, ChannelOK
<1>7. Sorted(queue'[h]) /\ Below(queue'[h], last) /\ e.n <= last[e.dev]
  BY <1>1, <1>4, <1>6, TailInOrder DEF ChannelOK
<1>8. ASSUME NEW t \in Tabs, conn[t] = h
      PROVE  /\ Above(Tail(queue[h]), view[t]) /\ Above(Tail(queue[h]), [view[t] EXCEPT ![e.dev] = e.n])
             /\ e.n >= view[t][e.dev]
  <2>1. Above(queue[h], view[t])
    BY <1>6, <1>8 DEF ChannelOK
  <2> QED BY <1>1, <1>6, <2>1, TailInOrder DEF ChannelOK
<1>9. ASSUME NEW k \in Handlers, pc[k] = "serving" PROVE ChannelOK(k)'
  <2>1. CASE k = h
    <3>1. ASSUME NEW t \in Tabs, conn[t] = h PROVE Above(queue'[h], view'[t])
      BY <1>4, <1>5, <1>8, <3>1
    <3> QED BY <1>4, <1>7, <2>1, <3>1 DEF ChannelOK
  <2>2. CASE k # h
    <3>1. \A t \in Tabs : conn[t] = k => view'[t] = view[t]
      BY <1>5, <2>2
    <3> QED BY <1>4, <1>6, <1>9, <2>2, <3>1 DEF ChannelOK
  <2> QED BY <2>1, <2>2
<1>10. ASSUME NEW t \in Tabs, NEW d \in Devices PROVE view'[t][d] <= last[d] /\ view[t][d] <= view'[t][d]
  <2>1. view[t][d] <= last[d] /\ view[t][d] \in Nat /\ last[d] \in Nat
    BY <1>1, TopicsDevices DEF IInv, OrderInv, Times
  <2>2. CASE view'[t] = view[t]
    BY <2>1, <2>2
  <2>3. CASE conn[t] = h /\ view'[t] = [view[t] EXCEPT ![e.dev] = e.n]
    <3>1. e.n >= view[t][e.dev] /\ e.n \in Nat
      BY <1>3, <1>8, <2>3 DEF Times
    <3>2. view'[t][d] = IF d = e.dev THEN e.n ELSE view[t][d]
      BY <1>1, <1>3, <2>3, TopicsDevices
    <3>3. CASE d = e.dev
      BY <1>7, <3>1, <3>2, <3>3
    <3>4. CASE d # e.dev
      BY <2>1, <3>2, <3>4
    <3> QED BY <3>3, <3>4
  <2> QED BY <1>5, <2>2, <2>3
<1> QED BY <1>9, <1>10

(* Steps that write no row, broadcast nothing and give no event to a tab.  *)
LEMMA Elsewhere ==
    ASSUME OrderInv, UNCHANGED <<row, last, view, ticks, poll>>,
           \A h \in Handlers : pc'[h] = "serving" => ChannelOK(h)'
    PROVE  OrderInv'
BY DEF OrderInv, ChannelOK

LEMMA OrderStep ==
    ASSUME IInv, [Next]_vars
    PROVE  OrderInv'
<1> USE DEF vars, hubVars, pollVars
<1>1. CASE Tick
  <2>1. /\ ticks' = ticks + 1 /\ ticks \in Nat /\ UNCHANGED <<hubVars, row>>
        /\ \A g \in Senders : poll'[g].at \notin {"tell", "measure"}
    BY <1>1 DEF Tick, StartTick, Running, IInv, PollInv, Idle
  <2>2. \A d \in Devices : row[d] \in Nat /\ last[d] \in Nat
    BY TopicsDevices DEF IInv, PollInv, HubInv, HubTypeOK, Times
  <2>3. \A d \in Devices : row[d] <= ticks' /\ last[d] <= 2 * ticks' + 1 /\ last[d] < 2 * ticks'
    BY <2>1, <2>2 DEF IInv, OrderInv
  <2>4. \A g \in Senders : g[1] \in Devices
    BY SendersPolls
  <2> QED BY <2>1, <2>3, <2>4 DEF IInv, OrderInv
<1>2. ASSUME NEW g \in Senders, Ask(g) PROVE OrderInv'
  <2>1. /\ poll[g].at = "ask" /\ poll[g].tick = ticks /\ ticks \in Nat
        /\ poll' = [poll EXCEPT ![g].at = "tell"] /\ UNCHANGED <<hubVars, ticks>>
    <3>1. poll[g].at = "ask" /\ poll' = [poll EXCEPT ![g].at = "tell"] /\ UNCHANGED <<hubVars, ticks>>
      BY <1>2 DEF Ask, At, Goto
    <3>2. poll[g].tick = ticks /\ ticks \in 0..MaxTicks
      BY <3>1 DEF IInv, PollInv
    <3> QED BY <3>1, <3>2
  <2>2. \A k \in Senders : k # g => poll'[k] = poll[k]
    BY <2>1 DEF IInv, PollInv
  <2>3. poll'[g].at = "tell"
    BY <2>1 DEF IInv, PollInv
  <2>4. \A d \in Devices : row'[d] = row[d] \/ row'[d] = ticks
    BY <1>2, <2>1 DEF Ask, IInv, PollInv
  <2>5. \A d \in Devices : row'[d] <= ticks
    BY <2>1, <2>4 DEF IInv, OrderInv
  <2> QED BY <2>1, <2>2, <2>3, <2>5 DEF IInv, OrderInv
<1>3. ASSUME NEW g \in Senders, Tell(g) PROVE OrderInv'
  <2>1. /\ poll[g].at = "tell" /\ cast[g] = None /\ poll[g].tick = ticks
        /\ ticks \in 1..MaxTicks
        /\ poll' = [poll EXCEPT ![g].at = "measure"] /\ UNCHANGED <<ticks, row>>
    <3>1. /\ poll[g].at = "tell" /\ cast[g] = None
          /\ poll' = [poll EXCEPT ![g].at = "measure"] /\ UNCHANGED <<ticks, row>>
      BY <1>3 DEF Tell, At, Goto
    <3>2. poll[g].tick = ticks /\ ticks \in 0..MaxTicks /\ ticks > 0
      BY <3>1 DEF IInv, PollInv
    <3> QED BY <3>1, <3>2, TimesTicks
  <2>2. poll'[g].at = "measure" /\ \A k \in Senders \ {g} : poll'[k] = poll[k]
    BY <2>1 DEF IInv, PollInv
  <2>3. 2 * ticks \in Times /\ 2 * ticks <= 2 * ticks + 1 /\ last[g[1]] < 2 * ticks
    BY <2>1, TimesTicks DEF Times, IInv, OrderInv
  <2>4. Broadcast(g, [dev |-> g[1], n |-> 2 * ticks])
    BY <1>3, <2>1 DEF Tell
  <2> QED BY <2>1, <2>2, <2>3, <2>4, BroadcastOrder
<1>4. ASSUME NEW g \in Senders, Measure(g) PROVE OrderInv'
  <2>1. /\ poll[g].at = "measure" /\ cast[g] = None /\ poll[g].tick = ticks
        /\ ticks \in 1..MaxTicks
        /\ poll' = [poll EXCEPT ![g] = Idle] /\ UNCHANGED <<ticks, row>>
    <3>1. /\ poll[g].at = "measure" /\ cast[g] = None
          /\ poll' = [poll EXCEPT ![g] = Idle] /\ UNCHANGED <<ticks, row>>
      BY <1>4 DEF Measure, At
    <3>2. poll[g].tick = ticks /\ ticks \in 0..MaxTicks /\ ticks > 0
      BY <3>1 DEF IInv, PollInv
    <3> QED BY <3>1, <3>2, TimesTicks
  <2>2. poll'[g].at = "idle" /\ \A k \in Senders \ {g} : poll'[k] = poll[k]
    BY <2>1 DEF IInv, PollInv, Idle
  <2>3. CASE UNCHANGED hubVars
    BY <2>1, <2>2, <2>3 DEF IInv, OrderInv
  <2>4. CASE Broadcast(g, [dev |-> g[1], n |-> 2 * ticks + 1])
    <3>1. last[g[1]] \in Nat /\ last[g[1]] <= 2 * ticks
      BY <2>1, SendersPolls, TopicsDevices DEF IInv, OrderInv, HubInv, HubTypeOK, Times
    <3>2. 2 * ticks + 1 \in Times /\ last[g[1]] < 2 * ticks + 1 /\ 2 * ticks + 1 <= 2 * ticks + 1
      BY <2>1, <3>1, TimesTicks DEF Times
    <3> QED BY <2>1, <2>2, <2>4, <3>2, BroadcastOrder
  <2> QED BY <1>4, <2>1, <2>3, <2>4 DEF Measure
<1>5. ASSUME NEW g \in Senders, NEW h \in Handlers, Offer(g, h), UNCHANGED pollVars PROVE OrderInv'
  <2>1. UNCHANGED <<row, last, view, ticks, poll, pc>>
    BY <1>5 DEF Offer
  <2> QED BY <1>5, <2>1, OfferOrder, Elsewhere DEF IInv
<1>6. ASSUME NEW g \in Senders, EndBroadcast(g), UNCHANGED pollVars PROVE OrderInv'
  BY <1>6 DEF EndBroadcast, IInv, OrderInv
<1>7. ASSUME NEW h \in Handlers, Forward(h), UNCHANGED pollVars PROVE OrderInv'
  <2>1. UNCHANGED <<row, last, ticks, poll, pc>>
    BY <1>7 DEF Forward
  <2>2. /\ \A k \in Handlers : pc[k] = "serving" => ChannelOK(k)'
        /\ \A t \in Tabs, d \in Devices : view'[t][d] <= last[d]
    BY <1>7, ForwardOrder
  <2> QED BY <2>1, <2>2 DEF IInv, OrderInv, ChannelOK
<1>8. ASSUME NEW h \in Handlers, Subscribe(h), UNCHANGED pollVars PROVE OrderInv'
  <2>1. /\ UNCHANGED <<row, last, view, ticks, poll, conn>> /\ queue'[h] = << >>
        /\ \A k \in Handlers : k # h => queue'[k] = queue[k] /\ pc'[k] = pc[k]
    BY <1>8 DEF Subscribe, IInv, HubInv, HubTypeOK
  <2>2. ChannelOK(h)'
    BY <2>1 DEF ChannelOK, Sorted, Below, Above
  <2>3. \A k \in Handlers : k # h /\ pc'[k] = "serving" => ChannelOK(k)'
    BY <2>1 DEF IInv, OrderInv, ChannelOK
  <2> QED BY <2>1, <2>2, <2>3, Elsewhere DEF IInv
<1>9. ASSUME NEW h \in Handlers, Leave(h) \/ Close(h), UNCHANGED pollVars PROVE OrderInv'
  <2>1. /\ UNCHANGED <<row, last, view, ticks, poll>> /\ pc'[h] # "serving"
        /\ \A k \in Handlers : k # h => queue'[k] = queue[k] /\ pc'[k] = pc[k]
        /\ \A t \in Tabs : conn'[t] = conn[t] \/ conn'[t] \notin Handlers
    BY <1>9, NoName DEF Leave, Close, IInv, HubInv, HubTypeOK
  <2>2. \A k \in Handlers : pc'[k] = "serving" => ChannelOK(k)'
    BY <2>1 DEF IInv, OrderInv, ChannelOK
  <2> QED BY <2>1, <2>2, Elsewhere DEF IInv
<1>10. ASSUME NEW h \in Handlers, Lock(h) \/ Unsubscribe(h), UNCHANGED pollVars PROVE OrderInv'
  <2>1. /\ UNCHANGED <<row, last, view, ticks, poll, queue, conn>>
        /\ \A k \in Handlers : pc'[k] = "serving" => pc[k] = "serving"
    BY <1>10 DEF Lock, Unsubscribe, IInv, HubInv, HubTypeOK
  <2>2. \A k \in Handlers : pc'[k] = "serving" => ChannelOK(k)'
    BY <2>1 DEF IInv, OrderInv, ChannelOK
  <2> QED BY <2>1, <2>2, Elsewhere DEF IInv
<1>11. ASSUME NEW t \in Tabs, NEW h \in Handlers, NEW f \in Filters, Connect(t, h, f), UNCHANGED pollVars
       PROVE  OrderInv'
  <2>1. /\ UNCHANGED <<row, last, view, ticks, poll, queue>> /\ pc'[h] # "serving"
        /\ \A k \in Handlers : k # h => pc'[k] = pc[k]
        /\ \A s \in Tabs : conn'[s] = conn[s] \/ conn'[s] = h
    BY <1>11 DEF Connect, IInv, HubInv, HubTypeOK
  <2>2. \A k \in Handlers : pc'[k] = "serving" => ChannelOK(k)'
    BY <2>1 DEF IInv, OrderInv, ChannelOK
  <2> QED BY <2>1, <2>2, Elsewhere DEF IInv
<1>12. ASSUME NEW t \in Tabs, Lose(t), UNCHANGED pollVars PROVE OrderInv'
  <2>1. /\ UNCHANGED <<row, last, view, ticks, poll, queue, pc>>
        /\ \A s \in Tabs : conn'[s] = conn[s] \/ conn'[s] \notin Handlers
    BY <1>12, NoName DEF Lose, IInv, HubInv, HubTypeOK
  <2>2. \A k \in Handlers : pc'[k] = "serving" => ChannelOK(k)'
    BY <2>1 DEF IInv, OrderInv, ChannelOK
  <2> QED BY <2>1, <2>2, Elsewhere DEF IInv
<1>13. CASE UNCHANGED vars
  BY <1>13 DEF IInv, OrderInv
<1> HIDE DEF vars, hubVars, pollVars
<1> QED BY <1>1, <1>2, <1>3, <1>4, <1>5, <1>6, <1>7, <1>8, <1>9, <1>10, <1>11, <1>12, <1>13
        DEF Next, PollStep, Connection, HandlerStep, Browser

(* The invariant of the hub and of the polls.                              *)
THEOREM Invariant == Spec => []IInv
<1>1. Init => IInv
  BY Room, NoName, TopicsDevices, SendersPolls, TimesTicks
  DEF Init, HubInit, IInv, HubInv, HubTypeOK, PollInv, OrderInv, Idle, Stages, Running, Steps,
      Subscribed, Times
<1>2. IInv /\ [Next]_vars => IInv'
  BY HubStep, PollerIsHub, PollStepInv, OrderStep DEF IInv
<1> QED BY <1>1, <1>2, PTL DEF Spec

(* However broadcasts, subscriptions and ends of connections interleave,   *)
(* no event is sent on a closed channel (poller.go:333-350).               *)
THEOREM NeverSendsOnClosed == Spec => []NoSendOnClosed
<1>1. IInv => NoSendOnClosed
  BY DEF IInv, HubInv, HubTypeOK, NoSendOnClosed
<1>2. Spec => []IInv
  BY Invariant
<1> QED BY <1>1, <1>2, PTL

(* The statuses and events of a device come in the order of the polls,     *)
(* through reconnections too (poller.go:209-295, api.ts:836-863).          *)
THEOREM NothingGoesBack == Spec => InOrder
<1> DEFINE Order == \A d \in Devices : row'[d] >= row[d] /\ \A t \in Tabs : view'[t][d] >= view[t][d]
<1>1. ASSUME IInv, [Next]_vars PROVE [Order]_vars
  <2>1. \A d \in Devices : row[d] \in Nat /\ \A t \in Tabs : view[t][d] \in Nat
    BY <1>1, TopicsDevices DEF IInv, PollInv, HubInv, HubTypeOK, Times
  <2>2. CASE UNCHANGED <<row, view>>
    BY <2>1, <2>2
  <2>3. ASSUME NEW g \in Senders, Ask(g) PROVE Order
    <3>1. /\ poll[g].tick = ticks /\ UNCHANGED view
          /\ \A d \in Devices : row'[d] = row[d] \/ row'[d] = poll[g].tick
      BY <1>1, <2>3 DEF Ask, At, hubVars, IInv, PollInv
    <3>2. \A d \in Devices : row[d] <= ticks /\ ticks \in Nat
      BY <1>1 DEF IInv, OrderInv, PollInv
    <3> QED BY <2>1, <3>1, <3>2
  <2>4. ASSUME NEW h \in Handlers, Forward(h), UNCHANGED pollVars PROVE Order
    <3>1. \A t \in Tabs, d \in Devices : view[t][d] <= view'[t][d] /\ view'[t][d] \in Nat
      BY <1>1, <2>4, ForwardOrder, HubStep, PollerIsHub, TopicsDevices DEF IInv, HubInv, HubTypeOK, Times
    <3> QED BY <2>1, <2>4, <3>1 DEF pollVars
  <2>5. CASE UNCHANGED vars
    BY <2>5
  <2> QED
    BY <1>1, <2>2, <2>3, <2>4, <2>5
    DEF Next, Tick, StartTick, Connection, Browser, HandlerStep, PollStep, Tell, Measure, Broadcast,
        Offer, EndBroadcast, Lock, Subscribe, Leave, Unsubscribe, Close, Connect, Lose, hubVars, pollVars
<1>2. Spec => []IInv
  BY Invariant
<1> QED BY <1>1, <1>2, PTL DEF Spec, InOrder

---------------------------------------------------------------------------
(* Appending to a sequence or taking its head leaves the rest in it.       *)
LEMMA InAppended ==
    ASSUME NEW q \in Seq(Event), NEW e \in Event
    PROVE  /\ Holds(Append(q, e), e)
           /\ \A x : Holds(q, x) => Holds(Append(q, e), x)
<1>1. Len(q) + 1 \in DOMAIN Append(q, e) /\ Append(q, e)[Len(q) + 1] = e
  OBVIOUS
<1>2. \A i \in DOMAIN q : i \in DOMAIN Append(q, e) /\ Append(q, e)[i] = q[i]
  OBVIOUS
<1> QED BY <1>1, <1>2 DEF Holds

LEMMA InTail ==
    ASSUME NEW q \in Seq(Event), q # << >>, NEW x, Holds(q, x), x # Head(q)
    PROVE  Holds(Tail(q), x)
<1>1. PICK i \in DOMAIN q : q[i] = x
  BY DEF Holds
<1>2. i \in 2..Len(q)
  BY <1>1
<1>3. i - 1 \in DOMAIN Tail(q) /\ Tail(q)[i - 1] = x
  BY <1>1, <1>2
<1> QED BY <1>3 DEF Holds

(* Steps that leave channels and broadcasts of those who are served alone. *)
LEMMA Quiet ==
    ASSUME KeepsUp, UNCHANGED <<todo, cast, last>>,
           \A h \in Handlers : pc'[h] = "serving" =>
               \/ due'[h] = {}
               \/ pc[h] = "serving" /\ due'[h] = due[h] /\ queue'[h] = queue[h]
    PROVE  KeepsUp'
BY DEF KeepsUp, OnItsWay

LEMMA BroadcastKeepsUp ==
    ASSUME IInv, KeepsUp, NEW s \in Senders, NEW e \in Event, Broadcast(s, e)
    PROVE  KeepsUp'
<1> SUFFICES ASSUME NEW h \in Handlers, pc'[h] = "serving", NEW d \in due'[h] PROVE OnItsWay(h, d)'
  BY DEF KeepsUp
<1> USE DEF IInv, HubInv, HubTypeOK
<1>1. pc[h] = "serving" /\ h \in subs /\ todo[s] = {} /\ queue' = queue
  BY DEF Broadcast, Subscribed
<1>2. CASE d = e.dev
  <2>1. h \in todo'[s] /\ cast'[s].dev = d
    BY <1>1, <1>2 DEF Broadcast
  <2> QED BY <2>1 DEF OnItsWay
<1>3. CASE d # e.dev
  <2>1. d \in due[h] /\ d \in Topics /\ e.dev \in Topics
    BY <1>3 DEF Broadcast, Event
  <2>2. last'[d] = last[d]
    BY <1>3, <2>1 DEF Broadcast
  <2>3. OnItsWay(h, d)
    BY <1>1, <2>1 DEF KeepsUp
  <2>4. \A r \in Senders : h \in todo[r] => r # s /\ todo'[r] = todo[r] /\ cast'[r] = cast[r]
    BY <1>1 DEF Broadcast
  <2> QED BY <1>1, <2>2, <2>3, <2>4 DEF OnItsWay
<1> QED BY <1>2, <1>3

(* What is offered is the last event of its device.                        *)
LEMMA OfferKeepsUp ==
    ASSUME IInv, KeepsUp, NEW s \in Senders, NEW k \in Handlers, Offer(s, k)
    PROVE  KeepsUp'
<1> SUFFICES ASSUME NEW h \in Handlers, pc'[h] = "serving", NEW d \in due'[h] PROVE OnItsWay(h, d)'
  BY DEF KeepsUp
<1> USE DEF IInv, HubInv, HubTypeOK
<1>1. /\ pc[h] = "serving" /\ d \in due[h] /\ d \in Topics
      /\ cast' = cast /\ last' = last
      /\ todo' = [todo EXCEPT ![s] = @ \ {k}]
      /\ cast[s] \in Event /\ queue[h] \in Seq(Event)
  BY DEF Offer
<1>2. OnItsWay(h, d)
  BY <1>1 DEF KeepsUp
<1>3. CASE Holds(queue[h], [dev |-> d, n |-> last[d]])
  <2>1. queue'[h] = queue[h] \/ queue'[h] = Append(queue[h], cast[s])
    BY DEF Offer
  <2>2. Holds(Append(queue[h], cast[s]), [dev |-> d, n |-> last[d]])
    BY <1>1, <1>3, InAppended
  <2>3. Holds(queue'[h], [dev |-> d, n |-> last[d]])
    BY <1>3, <2>1, <2>2
  <2> QED BY <1>1, <2>3 DEF OnItsWay
<1>4. ASSUME NEW r \in Senders, h \in todo[r], cast[r].dev = d PROVE OnItsWay(h, d)'
  <2>1. CASE r # s \/ h # k
    BY <1>1, <1>4, <2>1 DEF OnItsWay
  <2>2. CASE r = s /\ h = k
    <3>1. ~(Len(queue[h]) >= Capacity)
      BY <1>4, <2>2 DEF Offer
    <3>2. queue'[h] = Append(queue[h], cast[s])
      BY <2>2, <3>1 DEF Offer
    <3>3. cast[s] = [dev |-> s[1], n |-> last[s[1]]]
      BY <1>1, NoName DEF PollInv
    <3>4. cast[s] = [dev |-> d, n |-> last[d]]
      BY <1>4, <2>2, <3>3
    <3>5. Holds(queue'[h], [dev |-> d, n |-> last[d]])
      BY <1>1, <3>2, <3>4, InAppended
    <3> QED BY <1>1, <3>5 DEF OnItsWay
  <2> QED BY <2>1, <2>2
<1> QED BY <1>2, <1>3, <1>4 DEF OnItsWay

LEMMA ForwardKeepsUp ==
    ASSUME IInv, KeepsUp, NEW h \in Handlers, Forward(h)
    PROVE  KeepsUp'
<1> USE DEF IInv, HubInv, HubTypeOK
<1>1. /\ queue[h] \in Seq(Event) /\ queue[h] # << >> /\ Head(queue[h]) \in Event
      /\ queue' = [queue EXCEPT ![h] = Tail(@)]
      /\ UNCHANGED <<pc, todo, cast, last>>
      /\ \A k \in Handlers \ {h} : due'[k] = due[k] /\ queue'[k] = queue[k]
  BY DEF Forward
<1>2. ASSUME pc[h] = "serving", NEW d \in due'[h] PROVE OnItsWay(h, d)'
  <2>1. d \in due[h] /\ Head(queue[h]) # [dev |-> d, n |-> last[d]]
    BY DEF Forward
  <2>2. OnItsWay(h, d)
    BY <1>2, <2>1 DEF KeepsUp
  <2>3. Holds(queue[h], [dev |-> d, n |-> last[d]]) => Holds(queue'[h], [dev |-> d, n |-> last[d]])
    BY <1>1, <2>1, InTail
  <2> QED BY <1>1, <2>2, <2>3 DEF OnItsWay
<1>3. ASSUME NEW k \in Handlers \ {h}, pc[k] = "serving", NEW d \in due'[k] PROVE OnItsWay(k, d)'
  <2>1. OnItsWay(k, d) /\ queue'[k] = queue[k] /\ UNCHANGED <<todo, cast, last>>
    BY <1>1, <1>3 DEF KeepsUp
  <2> QED BY <2>1 DEF OnItsWay
<1>4. SUFFICES ASSUME NEW k \in Handlers, pc'[k] = "serving", NEW d \in due'[k] PROVE OnItsWay(k, d)'
  BY DEF KeepsUp
<1>5. pc[k] = "serving"
  BY <1>1, <1>4
<1> QED BY <1>2, <1>3, <1>4, <1>5

LEMMA KeepsUpStep ==
    ASSUME IInv, KeepsUp, [HubNext]_hubVars
    PROVE  KeepsUp'
<1> USE DEF IInv, HubInv, HubTypeOK
<1>1. ASSUME NEW s \in Senders, EndBroadcast(s) PROVE KeepsUp'
  <2>1. /\ UNCHANGED <<pc, due, queue, last, todo>> /\ todo[s] = {}
        /\ \A r \in Senders : r # s => cast'[r] = cast[r]
    BY <1>1 DEF EndBroadcast
  <2> SUFFICES ASSUME NEW h \in Handlers, pc'[h] = "serving", NEW d \in due'[h] PROVE OnItsWay(h, d)'
    BY DEF KeepsUp
  <2>2. OnItsWay(h, d)
    BY <2>1 DEF KeepsUp
  <2> QED BY <2>1, <2>2 DEF OnItsWay
<1>2. ASSUME NEW h \in Handlers, Subscribe(h) PROVE KeepsUp'
  <2>1. due' = [due EXCEPT ![h] = {}] /\ queue' = [queue EXCEPT ![h] = << >>]
        /\ pc' = [pc EXCEPT ![h] = "serving"] /\ UNCHANGED <<todo, cast, last>>
    BY <1>2 DEF Subscribe
  <2> QED BY <2>1, Quiet
<1>3. ASSUME NEW h \in Handlers, Leave(h) PROVE KeepsUp'
  <2>1. /\ pc' = [pc EXCEPT ![h] = "unsubscribe"] /\ due' = [due EXCEPT ![h] = {}]
        /\ UNCHANGED <<todo, cast, last>>
        /\ \A k \in Handlers \ {h} : queue'[k] = queue[k]
    BY <1>3 DEF Leave
  <2> QED BY <2>1, Quiet
<1>4. ASSUME NEW h \in Handlers, Close(h) PROVE KeepsUp'
  <2>1. due' = [due EXCEPT ![h] = {}] /\ queue' = [queue EXCEPT ![h] = << >>]
        /\ pc' = [pc EXCEPT ![h] = "down"] /\ UNCHANGED <<todo, cast, last>>
    BY <1>4 DEF Close
  <2> QED BY <2>1, Quiet
<1>5. ASSUME NEW h \in Handlers, Unsubscribe(h) PROVE KeepsUp'
  BY <1>5, Quiet DEF Unsubscribe
<1>6. ASSUME NEW t \in Tabs, NEW h \in Handlers, NEW f \in Filters, Connect(t, h, f) PROVE KeepsUp'
  BY <1>6, Quiet DEF Connect
<1>7. ASSUME NEW h \in Handlers, Lock(h) PROVE KeepsUp'
  BY <1>7, Quiet DEF Lock
<1>8. ASSUME NEW t \in Tabs, Lose(t) PROVE KeepsUp'
  BY <1>8, Quiet DEF Lose
<1>9. CASE UNCHANGED hubVars
  BY <1>9, Quiet DEF hubVars
<1> QED
  BY <1>1, <1>2, <1>3, <1>4, <1>5, <1>6, <1>7, <1>8, <1>9,
     BroadcastKeepsUp, OfferKeepsUp, ForwardKeepsUp DEF HubNext, HandlerStep, Browser

(* A subscriber with room in its channel is given the last event of every  *)
(* device, whatever happens to the others (poller.go:340-350).             *)
THEOREM SubscribersKeepUp == Spec => []KeepsUp
<1>1. Init => KeepsUp
  BY DEF Init, HubInit, KeepsUp
<1>2. IInv /\ KeepsUp /\ [Next]_vars => KeepsUp'
  BY KeepsUpStep, PollerIsHub
<1>3. Spec => []IInv
  BY Invariant
<1> QED BY <1>1, <1>2, <1>3, PTL DEF Spec

=============================================================================
