------------------------ MODULE SnapshotChainProofs ------------------------
(***************************************************************************)
(* SnapshotChain for any number of captures and any configurations: a row  *)
(* differs from its parent, however the captures interleave and fail.      *)
(***************************************************************************)
EXTENDS SnapshotChain, TLAPS

LEMMA InitInv == Init => IInv
<1> SUFFICES ASSUME Init PROVE IInv
  OBVIOUS
<1>1. PICK first \in Configs : history = <<first>>
  BY DEF Init
<1>2. history \in Seq(Configs) /\ history # << >> /\ history[1] \in Configs
  BY <1>1
<1>3. TypeOK
  BY <1>2 DEF Init, TypeOK, Retrieved, Capturers
<1> QED BY <1>3 DEF Init, IInv, AboutToInsert, ParentDiffers

(* The insert: the only step that changes the table.                       *)
LEMMA InsertInv ==
    ASSUME IInv, NEW c \in Capturers, Insert(c)
    PROVE  IInv'
<1> DEFINE new == [of |-> cfg[c].of, seen |-> cfg[c].seen, parent |-> latest[c]]
<1> USE DEF IInv
<1>1. new \in Row
  BY DEF TypeOK, Retrieved, Row
<1>2. /\ rows' = Append(rows, new)
      /\ Len(rows') = Len(rows) + 1
      /\ \A i \in 1..Len(rows) : rows'[i] = rows[i]
      /\ rows'[Len(rows) + 1] = new
  BY <1>1 DEF Insert, TypeOK
<1>3. TypeOK'
  <2>1. rows' \in Seq(Row)
    BY <1>1, <1>2 DEF TypeOK
  <2>2. pc' \in [Capturers -> {"idle", "lookup", "insert", "answer", "done"}]
    BY DEF Insert, TypeOK, Over
  <2> QED BY <2>1, <2>2 DEF Insert, TypeOK
<1>4. AboutToInsert'
  <2> SUFFICES ASSUME NEW d \in Capturers, pc'[d] = "insert"
               PROVE  /\ latest'[d] \in 0..Len(rows')
                      /\ latest'[d] # 0 => rows'[latest'[d]].of # cfg'[d].of
    BY DEF AboutToInsert
  <2>1. pc[d] = "insert"
    BY DEF Insert, TypeOK, Over
  <2>2. latest[d] \in 0..Len(rows) /\ (latest[d] # 0 => rows[latest[d]].of # cfg[d].of)
    BY <2>1 DEF AboutToInsert
  <2>3. latest' = latest /\ cfg' = cfg /\ Len(rows) \in Nat
    BY DEF Insert, TypeOK
  <2> QED BY <1>2, <2>2, <2>3
<1>5. ParentDiffers'
  <2> SUFFICES ASSUME NEW i \in 1..Len(rows'), rows'[i].parent # 0
               PROVE  /\ rows'[i].parent < i
                      /\ rows'[rows'[i].parent].of # rows'[i].of
    BY DEF ParentDiffers
  <2>1. Len(rows) \in Nat /\ i \in 1..(Len(rows) + 1)
    BY <1>2 DEF TypeOK
  <2>2. CASE i \in 1..Len(rows)
    <3>1. rows[i].parent # 0
      BY <2>2, <1>2
    <3>2. rows[i].parent < i /\ rows[rows[i].parent].of # rows[i].of
      BY <2>2, <3>1 DEF ParentDiffers
    <3>3. rows[i] \in Row
      BY <2>2 DEF TypeOK
    <3>4. rows[i].parent \in 1..Len(rows)
      BY <2>1, <2>2, <3>1, <3>2, <3>3 DEF Row
    <3>5. rows'[i] = rows[i] /\ rows'[rows[i].parent] = rows[rows[i].parent]
      BY <1>2, <2>2, <3>4
    <3> QED BY <3>2, <3>5
  <2>3. CASE i = Len(rows) + 1
    <3>1. latest[c] \in 0..Len(rows) /\ (latest[c] # 0 => rows[latest[c]].of # cfg[c].of)
      BY DEF Insert, AboutToInsert
    <3>2. rows'[i].parent = latest[c] /\ rows'[i].of = cfg[c].of
      BY <1>2, <2>3
    <3> QED BY <1>2, <2>1, <2>3, <3>1, <3>2
  <2> QED BY <2>1, <2>2, <2>3
<1> QED BY <1>3, <1>4, <1>5

(* Every other step leaves the table alone.                                *)
LEMMA StepInv == IInv /\ [Next]_vars => IInv'
<1> SUFFICES ASSUME IInv, [Next]_vars PROVE IInv'
  OBVIOUS
<1> USE DEF IInv
<1>1. CASE Change
  <2>1. history' \in Seq(Configs) /\ history' # << >>
    BY <1>1 DEF Change, TypeOK
  <2>2. UNCHANGED <<faults, rows, pc, cfg, latest, answer>>
    BY <1>1 DEF Change
  <2> QED BY <2>1, <2>2 DEF TypeOK, AboutToInsert, ParentDiffers
<1>2. ASSUME NEW c \in Capturers, Retrieve(c) PROVE IInv'
  <2>1. [of |-> Running, seen |-> Len(history)] \in Retrieved
    BY DEF TypeOK, Retrieved, Running
  <2>2. TypeOK'
    BY <1>2, <2>1 DEF Retrieve, TypeOK
  <2>3. AboutToInsert'
    BY <1>2 DEF Retrieve, TypeOK, AboutToInsert
  <2> QED BY <1>2, <2>2, <2>3 DEF Retrieve, ParentDiffers
<1>3. ASSUME NEW c \in Capturers, Lookup(c) PROVE IInv'
  <2>1. TypeOK'
    BY <1>3 DEF Lookup, TypeOK, Over
  <2>2. AboutToInsert'
    <3> SUFFICES ASSUME NEW d \in Capturers, pc'[d] = "insert"
                 PROVE  /\ latest'[d] \in 0..Len(rows)
                        /\ latest'[d] # 0 => rows[latest'[d]].of # cfg[d].of
      BY <1>3 DEF AboutToInsert, Lookup
    <3>1. CASE d = c
      <4>1. rows = << >> \/ rows[Len(rows)].of # cfg[c].of
        BY <1>3, <3>1 DEF Lookup, TypeOK, Over
      <4>2. latest'[c] = Len(rows)
        BY <1>3 DEF Lookup, TypeOK
      <4> QED BY <3>1, <4>1, <4>2 DEF TypeOK
    <3>2. CASE d # c
      BY <1>3, <3>2 DEF Lookup, TypeOK, AboutToInsert
    <3> QED BY <3>1, <3>2
  <2> QED BY <1>3, <2>1, <2>2 DEF Lookup, ParentDiffers
<1>4. ASSUME NEW c \in Capturers, Insert(c) PROVE IInv'
  BY <1>4, InsertInv
<1>5. ASSUME NEW c \in Capturers, Fail(c) PROVE IInv'
  BY <1>5 DEF Fail, Over, TypeOK, AboutToInsert, ParentDiffers
<1>6. ASSUME NEW h \in Handlers, Answer(h) PROVE IInv'
  <2>1. Len(rows) \in Nat /\ h \in Capturers
    BY DEF TypeOK, Capturers
  <2>2. TypeOK'
    BY <1>6, <2>1 DEF Answer, TypeOK
  <2>3. AboutToInsert'
    BY <1>6, <2>1 DEF Answer, TypeOK, AboutToInsert
  <2> QED BY <1>6, <2>2, <2>3 DEF Answer, ParentDiffers
<1>7. CASE UNCHANGED vars
  BY <1>7 DEF vars, TypeOK, AboutToInsert, ParentDiffers
<1> QED BY <1>1, <1>2, <1>3, <1>4, <1>5, <1>6, <1>7 DEF Next, Capture

(* A capture about to insert has seen a latest row that differs from what  *)
(* it retrieved, and that row stays (snapshots.go:138-161).                *)
THEOREM Invariant == Spec => []IInv
<1> QED BY InitInv, StepInv, PTL DEF Spec

(* Every row but a first one differs from its parent, which is older: the  *)
(* parents never form a cycle and each link is a change of configuration.  *)
THEOREM ParentChain == Spec => []ParentDiffers
<1>1. IInv => ParentDiffers
  BY DEF IInv
<1> QED BY <1>1, Invariant, PTL

-----------------------------------------------------------------------------
(* What a step does to the history and the table: nothing is rewritten.    *)
LEMMA OnlyGrow ==
    ASSUME IInv, [Next]_vars
    PROVE  /\ Len(history) \in Nat \ {0} /\ Len(history') \in Nat
           /\ Len(history) <= Len(history')
           /\ \A k \in 1..Len(history) : history'[k] = history[k]
           /\ Len(rows) \in Nat /\ Len(rows') \in Nat
           /\ Len(rows) <= Len(rows')
           /\ \A i \in 1..Len(rows) : rows'[i] = rows[i] /\ rows[i] \in Row
           /\ faults' = faults
<1>0. /\ Len(history) \in Nat \ {0} /\ Len(rows) \in Nat
      /\ \A i \in 1..Len(rows) : rows[i] \in Row
  BY DEF IInv, TypeOK
<1>1. CASE Change
  <2>1. PICK new \in Configs : history' = Append(history, new)
    BY <1>1 DEF Change
  <2>2. /\ Len(history') = Len(history) + 1
        /\ \A k \in 1..Len(history) : history'[k] = history[k]
    BY <2>1 DEF IInv, TypeOK
  <2> QED BY <1>0, <1>1, <2>2 DEF Change
<1>2. ASSUME NEW c \in Capturers, Insert(c)
      PROVE  /\ Len(rows') = Len(rows) + 1
             /\ \A i \in 1..Len(rows) : rows'[i] = rows[i]
             /\ history' = history /\ faults' = faults
  <2>1. [of |-> cfg[c].of, seen |-> cfg[c].seen, parent |-> latest[c]] \in Row
    BY DEF IInv, TypeOK, Retrieved, Row
  <2> QED BY <1>2, <2>1 DEF Insert, IInv, TypeOK
<1>3. ASSUME NEW c \in Capturers, Retrieve(c) \/ Lookup(c) \/ Fail(c)
      PROVE  history' = history /\ rows' = rows /\ faults' = faults
  BY <1>3 DEF Retrieve, Lookup, Fail
<1>4. ASSUME NEW h \in Handlers, Answer(h)
      PROVE  history' = history /\ rows' = rows /\ faults' = faults
  BY <1>4 DEF Answer
<1>5. CASE UNCHANGED vars
  BY <1>0, <1>5 DEF vars
<1> QED BY <1>0, <1>1, <1>2, <1>3, <1>4, <1>5 DEF Next, Capture

(* The row an insert adds.                                                 *)
LEMMA InsertedRow ==
    ASSUME IInv, NEW c \in Capturers, Insert(c)
    PROVE  /\ Len(rows) \in Nat /\ Len(rows') = Len(rows) + 1
           /\ \A i \in 1..Len(rows) : rows'[i] = rows[i]
           /\ rows'[Len(rows) + 1].of = cfg[c].of
           /\ rows'[Len(rows) + 1].seen = cfg[c].seen
           /\ rows'[Len(rows) + 1].parent = latest[c]
<1> DEFINE new == [of |-> cfg[c].of, seen |-> cfg[c].seen, parent |-> latest[c]]
<1>1. new \in Row
  BY DEF IInv, TypeOK, Retrieved, Row
<1>2. rows' = Append(rows, new) /\ rows \in Seq(Row)
  BY DEF Insert, IInv, TypeOK
<1>3. /\ Len(rows) \in Nat /\ Len(rows') = Len(rows) + 1
      /\ \A i \in 1..Len(rows) : rows'[i] = rows[i]
      /\ rows'[Len(rows) + 1] = new
  BY <1>1, <1>2
<1> QED BY <1>3

(* Rows and retrieved configurations are configurations the device had.    *)
LEMMA ObservedStep ==
    ASSUME IInv, Observed, [Next]_vars
    PROVE  Observed'
<1> DEFINE IsSeen(o) == o.seen \in 1..Len(history) /\ history[o.seen] = o.of
<1>1. ASSUME NEW o, IsSeen(o) PROVE IsSeen(o)'
  <2>1. o.seen \in 1..Len(history') /\ history'[o.seen] = history[o.seen]
    BY <1>1, OnlyGrow
  <2> QED BY <1>1, <2>1
<1>2. ASSUME NEW c \in Capturers
      PROVE  /\ cfg'[c].seen \in 1..Len(history')
             /\ history'[cfg'[c].seen] = cfg'[c].of
  <2>1. CASE cfg' = cfg
    BY <2>1, <1>1 DEF Observed
  <2>2. ASSUME NEW d \in Capturers, Retrieve(d)
        PROVE  /\ cfg'[c].seen \in 1..Len(history')
               /\ history'[cfg'[c].seen] = cfg'[c].of
    <3>1. CASE c = d
      BY <2>2, <3>1, OnlyGrow DEF Retrieve, IInv, TypeOK, Running
    <3>2. CASE c # d
      <4>1. cfg'[c] = cfg[c] /\ history' = history
        BY <2>2, <3>2 DEF Retrieve, IInv, TypeOK
      <4> QED BY <4>1 DEF Observed
    <3> QED BY <3>1, <3>2
  <2>3. cfg' = cfg \/ \E d \in Capturers : Retrieve(d)
    BY DEF Next, Capture, Change, Lookup, Insert, Fail, Answer, vars
  <2> QED BY <2>1, <2>2, <2>3
<1>3. ASSUME NEW i \in 1..Len(rows')
      PROVE  /\ rows'[i].seen \in 1..Len(history')
             /\ history'[rows'[i].seen] = rows'[i].of
  <2>1. CASE i \in 1..Len(rows)
    <3>1. rows'[i] = rows[i]
      BY <2>1, OnlyGrow
    <3>2. rows[i].seen \in 1..Len(history) /\ history[rows[i].seen] = rows[i].of
      BY <2>1 DEF Observed
    <3>3. history'[rows[i].seen] = history[rows[i].seen] /\ rows[i].seen \in 1..Len(history')
      BY <3>2, OnlyGrow
    <3> QED BY <3>1, <3>2, <3>3
  <2>2. CASE i \notin 1..Len(rows)
    <3>1. rows' # rows
      BY <2>2
    <3>2. PICK c \in Capturers : Insert(c)
      BY <3>1 DEF Next, Capture, Change, Lookup, Retrieve, Fail, Answer, vars
    <3>3. i = Len(rows) + 1
      BY <2>2, <3>2, InsertedRow
    <3>4. rows'[i].seen = cfg[c].seen /\ rows'[i].of = cfg[c].of /\ history' = history
      BY <3>2, <3>3, InsertedRow DEF Insert
    <3> QED BY <3>4 DEF Observed
  <2> QED BY <2>1, <2>2
<1> QED BY <1>2, <1>3 DEF Observed

(* Captures that take turns.                                               *)
LEMMA TurnStep ==
    ASSUME IInv, Observed, InTurn, [Next]_vars
    PROVE  InTurn'
<1> SUFFICES ASSUME "overlap" \notin faults
             PROVE  /\ \A c, d \in Capturers : Busy(c)' /\ Busy(d)' => c = d
                    /\ \A c \in Capturers :
                          /\ pc'[c] = "insert" => latest'[c] = Len(rows')
                          /\ Busy(c)' => \A i \in 1..Len(rows') : rows'[i].seen <= cfg'[c].seen
  BY OnlyGrow DEF InTurn
<1>0. /\ \A c, d \in Capturers : Busy(c) /\ Busy(d) => c = d
      /\ \A c \in Capturers :
            /\ pc[c] = "insert" => latest[c] = Len(rows)
            /\ Busy(c) => \A i \in 1..Len(rows) : rows[i].seen <= cfg[c].seen
  BY DEF InTurn
<1> DEFINE Goal == /\ \A c, d \in Capturers : Busy(c)' /\ Busy(d)' => c = d
                   /\ \A c \in Capturers :
                         /\ pc'[c] = "insert" => latest'[c] = Len(rows')
                         /\ Busy(c)' => \A i \in 1..Len(rows') : rows'[i].seen <= cfg'[c].seen
<1>1. CASE Change \/ UNCHANGED vars
  <2>1. UNCHANGED <<pc, rows, cfg, latest>>
    BY <1>1 DEF Change, vars
  <2> QED BY <1>0, <2>1 DEF Busy
<1>2. ASSUME NEW e \in Capturers, Retrieve(e) PROVE Goal
  <2>1. \A d \in Capturers : d # e => ~Busy(d)'
    BY <1>2 DEF Retrieve, Resting, Busy, IInv, TypeOK
  <2>2. /\ pc'[e] = "lookup" /\ cfg'[e].seen = Len(history)
        /\ rows' = rows /\ latest' = latest
    BY <1>2 DEF Retrieve, IInv, TypeOK
  <2>3. \A i \in 1..Len(rows) : rows[i].seen \in 1..Len(history)
    BY DEF Observed
  <2>4. \A i \in 1..Len(rows) : rows[i].seen <= Len(history)
    BY <2>3, OnlyGrow
  <2>5. \A c \in Capturers : pc'[c] # "insert"
    BY <2>1, <2>2 DEF Busy
  <2> QED BY <2>1, <2>2, <2>4, <2>5
<1>3. ASSUME NEW e \in Capturers, Lookup(e) PROVE Goal
  <2>1. /\ rows' = rows /\ cfg' = cfg /\ Busy(e) /\ latest'[e] = Len(rows)
        /\ \A d \in Capturers : d # e => pc'[d] = pc[d] /\ latest'[d] = latest[d]
    BY <1>3 DEF Lookup, Busy, IInv, TypeOK
  <2>2. \A d \in Capturers : d # e => ~Busy(d)
    BY <1>0, <2>1
  <2>3. \A d \in Capturers : d # e => ~Busy(d)' /\ pc'[d] # "insert"
    BY <2>1, <2>2 DEF Busy
  <2> QED BY <1>0, <2>1, <2>3
<1>4. ASSUME NEW e \in Capturers, Insert(e) \/ Fail(e) PROVE Goal
  <2>1. /\ \A d \in Capturers : d # e => pc'[d] = pc[d]
        /\ ~Busy(e)' /\ cfg' = cfg /\ latest' = latest
    BY <1>4 DEF Insert, Fail, Busy, Over, IInv, TypeOK
  <2>2. \A d \in Capturers : Busy(d)' => Busy(d) /\ d # e
    BY <2>1 DEF Busy
  <2>3. \A d \in Capturers : Busy(d)' => rows' = rows
    BY <1>0, <1>4, <2>2 DEF Insert, Fail, Busy
  <2>4. \A d \in Capturers : pc'[d] = "insert" => Busy(d)' /\ pc[d] = "insert"
    BY <2>1 DEF Busy
  <2> QED BY <1>0, <2>1, <2>2, <2>3, <2>4
<1>5. ASSUME NEW h \in Handlers, Answer(h) PROVE Goal
  <2>1. /\ \A d \in Capturers : d # h => pc'[d] = pc[d]
        /\ pc'[h] = "done" /\ rows' = rows /\ cfg' = cfg /\ latest' = latest
    BY <1>5 DEF Answer, Capturers, IInv, TypeOK
  <2> QED BY <1>0, <2>1 DEF Busy
<1> QED BY <1>1, <1>2, <1>3, <1>4, <1>5 DEF Next, Capture

(* An insert in its turn extends the one chain.                            *)
LEMMA ChainStep ==
    ASSUME IInv, Observed, InTurn, NoDuplicateInARow, OneChain, [Next]_vars
    PROVE  NoDuplicateInARow' /\ OneChain'
<1> SUFFICES ASSUME "overlap" \notin faults
             PROVE  \A i \in 1..Len(rows') :
                       /\ rows'[i].parent = i - 1
                       /\ i > 1 => /\ rows'[i - 1].seen < rows'[i].seen
                                   /\ rows'[i].of # rows'[i - 1].of
  <2>1. faults' = faults /\ Len(rows') \in Nat
    BY OnlyGrow
  <2> QED BY <2>1 DEF NoDuplicateInARow, OneChain
<1>0. \A i \in 1..Len(rows) :
         /\ rows[i].parent = i - 1
         /\ i > 1 => /\ rows[i - 1].seen < rows[i].seen
                     /\ rows[i].of # rows[i - 1].of
  <2>1. Len(rows) \in Nat
    BY OnlyGrow
  <2> QED BY <2>1 DEF NoDuplicateInARow, OneChain
<1>1. CASE rows' = rows
  BY <1>0, <1>1
<1>2. ASSUME NEW c \in Capturers, Insert(c), NEW i \in 1..Len(rows')
      PROVE  /\ rows'[i].parent = i - 1
             /\ i > 1 => /\ rows'[i - 1].seen < rows'[i].seen
                         /\ rows'[i].of # rows'[i - 1].of
  <2>1. Len(rows) \in Nat /\ i \in 1..(Len(rows) + 1)
    BY <1>2, InsertedRow
  <2>2. CASE i \in 1..Len(rows)
    <3>1. rows'[i] = rows[i] /\ (i > 1 => rows'[i - 1] = rows[i - 1])
      BY <1>2, <2>1, <2>2, InsertedRow
    <3> QED BY <1>0, <2>2, <3>1
  <2>3. CASE i = Len(rows) + 1
    <3>1. pc[c] = "insert" /\ latest[c] = Len(rows) /\ Busy(c)
      BY <1>2 DEF Insert, InTurn, Busy
    <3>2. /\ rows'[i].parent = Len(rows)
          /\ rows'[i].of = cfg[c].of /\ rows'[i].seen = cfg[c].seen
      BY <1>2, <2>3, <3>1, InsertedRow
    <3>3. CASE i > 1
      <4>1. Len(rows) \in 1..Len(rows) /\ Len(rows) # 0
        BY <2>1, <2>3, <3>3
      <4>2. rows'[i - 1] = rows[Len(rows)]
        BY <1>2, <2>1, <2>3, <4>1, InsertedRow
      <4>3. rows[Len(rows)].of # cfg[c].of
        BY <3>1, <4>1 DEF IInv, AboutToInsert
      <4>4. rows[Len(rows)].seen <= cfg[c].seen
        BY <3>1, <4>1 DEF InTurn
      <4>5. /\ history[rows[Len(rows)].seen] = rows[Len(rows)].of
            /\ history[cfg[c].seen] = cfg[c].of
            /\ rows[Len(rows)].seen \in 1..Len(history)
            /\ cfg[c].seen \in 1..Len(history)
        BY <4>1 DEF Observed
      <4>6. rows[Len(rows)].seen # cfg[c].seen
        BY <4>3, <4>5
      <4>7. rows[Len(rows)].seen \in Nat /\ cfg[c].seen \in Nat
        BY <4>5, OnlyGrow
      <4>8. rows[Len(rows)].seen < cfg[c].seen
        BY <4>4, <4>6, <4>7
      <4> QED BY <2>1, <2>3, <3>2, <4>2, <4>3, <4>8
    <3>4. CASE ~(i > 1)
      BY <2>1, <2>3, <3>2, <3>4
    <3> QED BY <3>3, <3>4
  <2> QED BY <2>1, <2>2, <2>3
<1>3. rows' = rows \/ \E c \in Capturers : Insert(c)
  BY DEF Next, Capture, Change, Lookup, Retrieve, Fail, Answer, vars
<1> QED BY <1>1, <1>2, <1>3

(* Without faults, the capture that is under way ends with its own         *)
(* configuration in the latest row, inserted or found there.               *)
LEMMA AnswersStep ==
    ASSUME IInv, AnswersOwn, [Next]_vars
    PROVE  AnswersOwn'
<1> SUFFICES ASSUME faults = {}
             PROVE  /\ \A c, d \in Capturers : ~Resting(c)' /\ ~Resting(d)' => c = d
                    /\ \A h \in Handlers :
                          /\ pc'[h] = "answer" => rows' # << >> /\ rows'[Len(rows')].of = cfg'[h].of
                          /\ pc'[h] = "done" /\ answer'[h] # 0 =>
                                answer'[h] \in 1..Len(rows') /\ rows'[answer'[h]].of = cfg'[h].of
  BY OnlyGrow DEF AnswersOwn
<1> DEFINE Own(h) == /\ pc[h] = "answer" => rows # << >> /\ rows[Len(rows)].of = cfg[h].of
                     /\ pc[h] = "done" /\ answer[h] # 0 =>
                           answer[h] \in 1..Len(rows) /\ rows[answer[h]].of = cfg[h].of
           Alone == \A c, d \in Capturers : ~Resting(c) /\ ~Resting(d) => c = d
<1>0. Alone /\ \A h \in Handlers : Own(h) /\ h \in Capturers
  BY DEF AnswersOwn, Capturers
<1> SUFFICES Alone' /\ \A h \in Handlers : Own(h)'
  OBVIOUS
<1>1. CASE Change \/ UNCHANGED vars
  <2>1. UNCHANGED <<pc, rows, cfg, answer>>
    BY <1>1 DEF Change, vars
  <2> QED BY <1>0, <2>1 DEF Resting
<1>2. ASSUME NEW e \in Capturers, Retrieve(e) PROVE Alone' /\ \A h \in Handlers : Own(h)'
  <2>1. \A d \in Capturers : d # e => Resting(d) /\ pc'[d] = pc[d] /\ cfg'[d] = cfg[d]
    BY <1>2 DEF Retrieve, IInv, TypeOK
  <2>2. pc'[e] = "lookup" /\ rows' = rows /\ answer' = answer
    BY <1>2 DEF Retrieve, IInv, TypeOK
  <2>3. Alone'
    BY <2>1 DEF Resting
  <2>4. ASSUME NEW h \in Handlers PROVE Own(h)'
    BY <1>0, <2>1, <2>2
  <2> QED BY <2>3, <2>4
<1>3. ASSUME NEW e \in Capturers, Lookup(e) \/ Insert(e)
      PROVE  Alone' /\ \A h \in Handlers : Own(h)'
  <2>1. /\ \A d \in Capturers : d # e => pc'[d] = pc[d]
        /\ cfg' = cfg /\ answer' = answer /\ ~Resting(e)
        /\ pc'[e] \in {"insert", Over(e)}
    BY <1>3 DEF Lookup, Insert, Resting, IInv, TypeOK
  <2>2. \A d \in Capturers : d # e => Resting(d) /\ Resting(d)'
    BY <1>0, <2>1 DEF Resting
  <2>3. Alone'
    BY <2>2
  <2>4. pc'[e] = "answer" => rows' # << >> /\ rows'[Len(rows')].of = cfg[e].of
    <3>1. CASE Lookup(e)
      BY <3>1 DEF Lookup, Over, IInv, TypeOK
    <3>2. CASE Insert(e)
      <4>1. /\ Len(rows) \in Nat /\ Len(rows') = Len(rows) + 1
            /\ rows'[Len(rows) + 1].of = cfg[e].of
        BY <3>2, InsertedRow
      <4>2. rows' # << >>
        BY <4>1
      <4> QED BY <4>1, <4>2
    <3> QED BY <1>3, <3>1, <3>2
  <2>5. pc'[e] # "done"
    BY <2>1 DEF Over
  <2>6. \A d \in Capturers : d # e => pc'[d] # "answer"
    BY <2>2 DEF Resting
  <2>7. ASSUME NEW h \in Handlers, pc'[h] = "done", answer'[h] # 0
        PROVE  answer'[h] \in 1..Len(rows') /\ rows'[answer'[h]].of = cfg'[h].of
    <3>1. h # e /\ pc[h] = "done" /\ answer[h] # 0
      BY <1>0, <2>1, <2>5, <2>7
    <3>2. answer[h] \in 1..Len(rows) /\ rows[answer[h]].of = cfg[h].of
      BY <1>0, <3>1
    <3>3. answer[h] \in 1..Len(rows') /\ rows'[answer[h]] = rows[answer[h]]
      BY <3>2, OnlyGrow
    <3> QED BY <2>1, <3>2, <3>3
  <2> QED BY <1>0, <2>1, <2>3, <2>4, <2>6, <2>7
<1>4. ASSUME NEW g \in Handlers, Answer(g)
      PROVE  Alone' /\ \A h \in Handlers : Own(h)'
  <2>1. /\ \A d \in Capturers : d # g => pc'[d] = pc[d]
        /\ pc'[g] = "done" /\ rows' = rows /\ cfg' = cfg /\ pc[g] = "answer"
        /\ answer'[g] = Len(rows)
        /\ \A h \in Handlers : h # g => answer'[h] = answer[h]
    BY <1>0, <1>4 DEF Answer, IInv, TypeOK
  <2>2. rows # << >> /\ rows[Len(rows)].of = cfg[g].of /\ Len(rows) \in 1..Len(rows)
    BY <1>0, <2>1 DEF IInv, TypeOK
  <2>3. Alone'
    BY <1>0, <2>1 DEF Resting
  <2>4. ASSUME NEW h \in Handlers PROVE Own(h)'
    BY <1>0, <2>1, <2>2
  <2> QED BY <2>3, <2>4
<1>5. \A c \in Capturers : ~Fail(c)
  BY DEF Fail
<1> QED BY <1>1, <1>2, <1>3, <1>4, <1>5 DEF Next, Capture

LEMMA InitChain == Init => ChainInv
<1> SUFFICES ASSUME Init PROVE ChainInv
  OBVIOUS
<1>1. PICK first \in Configs : history = <<first>>
  BY DEF Init
<1>2. Len(history) = 1 /\ history[1] = first /\ rows = << >> /\ Len(rows) = 0
  BY <1>1 DEF Init
<1>3. Observed
  BY <1>2 DEF Init, Observed
<1>4. InTurn /\ NoDuplicateInARow /\ OneChain
  BY <1>2 DEF Init, InTurn, Busy, NoDuplicateInARow, OneChain
<1>5. AnswersOwn
  BY DEF Init, AnswersOwn, Resting, Capturers
<1> QED BY <1>3, <1>4, <1>5, InitInv DEF ChainInv

(* The device's configurations, the captures in their turns and the chain. *)
THEOREM ChainInvariant == Spec => []ChainInv
<1>1. ChainInv /\ [Next]_vars => ChainInv'
  BY StepInv, ObservedStep, TurnStep, AnswersStep, ChainStep DEF ChainInv
<1> QED BY <1>1, InitChain, PTL DEF Spec

(* Captures that do not overlap never insert the same configuration twice  *)
(* in a row (snapshots.go:112-113), with any failures.                     *)
THEOREM NoDuplicates == Spec => []NoDuplicateInARow
<1>1. ChainInv => NoDuplicateInARow
  BY DEF ChainInv
<1> QED BY <1>1, ChainInvariant, PTL

(* And every row's parent is the row before it, seen earlier               *)
(* (snapshots.go:156-161).                                                 *)
THEOREM Chain == Spec => []OneChain
<1>1. ChainInv => OneChain
  BY DEF ChainInv
<1> QED BY <1>1, ChainInvariant, PTL

(* "Refresh now" answers with a configuration the device had since the     *)
(* capture (api/snapshots.go:76-78), when nothing fails or overlaps.       *)
THEOREM AnswersAreCurrent == Spec => []AnswerIsCurrent
<1>1. ChainInv => AnswerIsCurrent
  <2> SUFFICES ASSUME ChainInv, faults = {}, NEW h \in Handlers,
                      pc[h] = "done", answer[h] # 0
               PROVE  \E k \in cfg[h].seen..Len(history) : history[k] = rows[answer[h]].of
    BY DEF AnswerIsCurrent
  <2>1. rows[answer[h]].of = cfg[h].of
    BY DEF ChainInv, AnswersOwn
  <2>2. cfg[h].seen \in 1..Len(history) /\ history[cfg[h].seen] = cfg[h].of
    BY DEF ChainInv, Observed, Capturers
  <2>3. Len(history) \in Nat
    BY DEF ChainInv, IInv, TypeOK
  <2>4. cfg[h].seen \in cfg[h].seen..Len(history)
    BY <2>2, <2>3
  <2> QED BY <2>1, <2>2, <2>4
<1> QED BY <1>1, ChainInvariant, PTL

=============================================================================
