--------------------------- MODULE WatchersProofs ---------------------------
(***************************************************************************)
(* Theorems about Watchers, for any connections, rows and namespaces, and  *)
(* with every failure the model has.                                       *)
(***************************************************************************)
EXTENDS Watchers, SequenceTheorems, WellFoundedInduction, TLAPS

(* Stamps follow the clock, and commits follow their stamps: SQLite has    *)
(* one writer at a time, and it stamps after it has the lock.              *)
ClockInv ==
  /\ now \in Nat \ {0}
  /\ \A i \in Ids : rows[i] # NoRow => rows[i].at \in 1 .. now /\ rows[i].rev > 0
  /\ txn # NoTxn =>
       /\ txn.at \in 1 .. now
       /\ \A i \in Ids : rows[i] # NoRow => rows[i].at <= txn.at

(* The watermark is the stamp of an emitted row. *)
WatermarkInv ==
  /\ lastAt = 0 \/ lastAt \in told
  /\ lastAt = 0 \/ \E i \in Ids : rows[i] # NoRow /\ lastAt <= rows[i].at
  /\ \A i \in Ids : rows[i] # NoRow /\ rows[i].rev = emitted[i] => rows[i].at <= lastAt
  /\ \A i \in Ids : emitted[i] <= Rev(i)

(* A poll under way holds states the rows had at its SELECT, and has not   *)
(* emitted them.                                                           *)
BatchInv ==
  \A e \in batch :
    /\ lastAt <= e.at
    /\ emitted[e.id] < e.rev
    /\ rows[e.id] # NoRow
    /\ e.at <= rows[e.id].at
    /\ e.rev <= rows[e.id].rev
    /\ e.rev = rows[e.id].rev => e.at = rows[e.id].at
    /\ \A f \in batch : f.id = e.id => f = e

InBatch(i) == \E e \in batch : e.id = i /\ e.rev = rows[i].rev

(* What was committed since that SELECT is no older than what it found. *)
SinceSelectInv ==
  \A i \in Ids :
    rows[i] # NoRow /\ rows[i].rev > emitted[i] /\ ~ InBatch(i) /\ rows[i].at \notin told
      => \A e \in batch : e.at <= rows[i].at

FeedInv ==
  /\ TypeOK
  /\ ClockInv
  /\ WatermarkInv
  /\ BatchInv
  /\ SinceSelectInv
  /\ LossOnlyInToldSecond
-----------------------------------------------------------------------------
LEMMA InitType == Init => TypeOK
BY ConstantsOK DEF Init, TypeOK, Ids

(* A step preserves the types. *)
LEMMA NextType == TypeOK /\ [Next]_vars => TypeOK'
<1> SUFFICES ASSUME TypeOK, [Next]_vars PROVE TypeOK'
  OBVIOUS
<1> USE ConstantsOK DEF TypeOK, vars, store, streams, registry, watermark
<1>1. CASE Tick
  BY <1>1 DEF Tick
<1>2. CASE CommitWrite
  <2>1. txn \in Txn /\ txn.id \in Ids /\ txn.at \in Nat
    BY <1>2 DEF CommitWrite, Txn
  <2>2. Rev(txn.id) \in Nat
    BY <2>1 DEF Rev, Row
  <2>3. [at |-> txn.at, rev |-> Rev(txn.id) + 1] \in Row
    BY <2>1, <2>2 DEF Row
  <2>4. rows' \in [Ids -> Row \cup {NoRow}]
    BY <1>2, <2>1, <2>3 DEF CommitWrite
  <2> QED
    BY <1>2, <2>4 DEF CommitWrite
<1>3. CASE RollbackWrite
  BY <1>3 DEF RollbackWrite
<1>4. CASE EmitOne
  <2>1. PICK e \in batch : /\ lastAt' = e.at /\ lastId' = e.id
                           /\ batch' = batch \ {e}
                           /\ emitted' = [emitted EXCEPT ![e.id] = e.rev]
                           /\ told' = told \cup {e.at}
                           /\ queue' = [c \in Conns |->
                                IF c \in Watchers /\ e.id \in Interest[c]
                                THEN Append(queue[c], e) ELSE queue[c]]
    BY <1>4 DEF EmitOne
  <2>2. e \in Event /\ e.id \in Ids /\ e.at \in Nat /\ e.rev \in Nat /\ e.id \in Nat
    BY DEF Event, Ids
  <2>3. queue' \in [Conns -> Seq(Event)]
    <3>1. \A c \in Conns : Append(queue[c], e) \in Seq(Event)
      BY <2>2
    <3> QED
      BY <2>1, <3>1
  <2>4. UNCHANGED <<store, conn, got, registry>>
    BY <1>4 DEF EmitOne
  <2> QED
    BY <2>1, <2>2, <2>3, <2>4
<1>5. CASE Crash
  BY <1>5 DEF Crash, Ids
<1>6. ASSUME NEW i \in Ids, BeginWrite(i)
      PROVE  TypeOK'
  BY <1>6 DEF BeginWrite, Txn
<1>7. ASSUME NEW c \in Conns, Subscribe(c)
      PROVE  TypeOK'
  <2>1. task' \in [Tasks -> {"free", "running", "cancelling", "failed"}]
    BY <1>7 DEF Subscribe, StartPoller
  <2>2. poller' \in Tasks \cup {NoTask}
    BY <1>7 DEF Subscribe, StartPoller
  <2> QED
    BY <1>7, <2>1, <2>2 DEF Subscribe
<1>8. ASSUME NEW c \in Conns, Deliver(c)
      PROVE  TypeOK'
  <2>1. Tail(queue[c]) \in Seq(Event) /\ Append(got[c], Head(queue[c])) \in Seq(Event)
    BY <1>8 DEF Deliver
  <2> QED
    BY <1>8, <2>1 DEF Deliver
<1>9. ASSUME NEW c \in Conns, Disconnect(c) \/ Unsubscribe(c)
      PROVE  TypeOK'
  <2>1. CASE Disconnect(c)
    BY <2>1 DEF Disconnect
  <2>2. CASE Unsubscribe(c)
    <3>1. queue' \in [Conns -> Seq(Event)]
      BY <2>2 DEF Unsubscribe
    <3>2. /\ task' \in [Tasks -> {"free", "running", "cancelling", "failed"}]
          /\ poller' \in Tasks \cup {NoTask}
      BY <2>2 DEF Unsubscribe
    <3> QED
      BY <2>2, <3>1, <3>2 DEF Unsubscribe
  <2> QED
    BY <1>9, <2>1, <2>2
<1>10. ASSUME NEW t \in Tasks, CancelDelivered(t) \/ PollFail(t)
       PROVE  TypeOK'
  BY <1>10 DEF CancelDelivered, PollFail
<1>11. ASSUME NEW t \in Tasks, PollSelect(t)
       PROVE  TypeOK'
  <2>1. batch' \in SUBSET Event
    BY <1>11 DEF PollSelect, Changed, Event, Row
  <2> QED
    BY <1>11, <2>1 DEF PollSelect
<1>12. CASE UNCHANGED vars
  BY <1>12
<1> QED
  BY <1>1, <1>2, <1>3, <1>4, <1>5, <1>6, <1>7, <1>8, <1>9, <1>10, <1>11, <1>12 DEF Next

(* The variables keep their types. *)
THEOREM TypeCorrect == Spec => []TypeOK
BY InitType, NextType, PTL DEF Spec

-----------------------------------------------------------------------------
LEMMA InitOnePoller == Init => OnePoller
BY ConstantsOK DEF Init, OnePoller, Watchers

(* A step preserves OnePoller. *)
LEMMA NextOnePoller == TypeOK /\ OnePoller /\ [Next]_vars => OnePoller'
<1> SUFFICES ASSUME TypeOK, OnePoller, [Next]_vars PROVE OnePoller'
  OBVIOUS
<1> USE ConstantsOK DEF OnePoller, Watchers, registry, streams
<1>1. ASSUME UNCHANGED <<conn, task, poller>>
      PROVE  OnePoller'
  BY <1>1
<1>2. CASE Tick \/ CommitWrite \/ RollbackWrite \/ EmitOne \/ UNCHANGED vars
  BY <1>1, <1>2 DEF Tick, CommitWrite, RollbackWrite, EmitOne, vars
<1>3. CASE Crash
  BY <1>3 DEF Crash
<1>4. ASSUME NEW i \in Ids, BeginWrite(i)
      PROVE  OnePoller'
  BY <1>1, <1>4 DEF BeginWrite
<1>5. ASSUME NEW c \in Conns, Subscribe(c)
      PROVE  OnePoller'
  <2>1. conn' = [conn EXCEPT ![c] = "streaming"]
    BY <1>5 DEF Subscribe
  <2>2. Watchers' # {}
    BY <2>1 DEF TypeOK
  <2>3. CASE ~ PollerDone /\ UNCHANGED registry
    BY <2>2, <2>3 DEF PollerDone
  <2>4. ASSUME PollerDone, NEW t \in Tasks, StartPoller(t)
        PROVE  OnePoller'
    BY <2>2, <2>4 DEF PollerDone, StartPoller, TypeOK
  <2> QED
    BY <1>5, <2>3, <2>4 DEF Subscribe
<1>6. ASSUME NEW c \in Conns, Unsubscribe(c)
      PROVE  OnePoller'
  <2>1. Watchers' = Watchers \ {c} /\ c \in Watchers
    BY <1>6 DEF Unsubscribe, TypeOK
  <2>2. CASE Watchers # {c} /\ UNCHANGED registry
    BY <2>1, <2>2
  <2>3. CASE Watchers = {c} /\ poller # NoTask
    BY <1>6, <2>1, <2>3 DEF Unsubscribe, TypeOK
  <2> QED
    BY <1>6, <2>1, <2>2, <2>3 DEF Unsubscribe
<1>7. ASSUME NEW c \in Conns, Disconnect(c)
      PROVE  OnePoller'
  BY <1>7 DEF Disconnect, TypeOK
<1>8. ASSUME NEW c \in Conns, Deliver(c)
      PROVE  OnePoller'
  BY <1>1, <1>8 DEF Deliver
<1>9. ASSUME NEW t \in Tasks, CancelDelivered(t) \/ PollFail(t)
      PROVE  OnePoller'
  BY <1>9 DEF CancelDelivered, PollFail, TypeOK
<1>10. ASSUME NEW t \in Tasks, PollSelect(t)
       PROVE  OnePoller'
  BY <1>1, <1>10 DEF PollSelect
<1> QED
  BY <1>2, <1>3, <1>4, <1>5, <1>6, <1>7, <1>8, <1>9, <1>10 DEF Next

(* At no time do two tasks poll, whatever the order in which watchers come *)
(* and go, SELECTs fail and cancellations are delivered; and the registry  *)
(* has a poller exactly while it has watchers.                             *)
THEOREM NeverTwoPollers == Spec => []OnePoller
BY InitType, NextType, InitOnePoller, NextOnePoller, PTL DEF Spec

-----------------------------------------------------------------------------
(* The comparison of the SELECT, for whole seconds: only a later second    *)
(* counts, and the id never does.                                          *)
LEMMA ChangedIsLater ==
  ASSUME TypeOK, NEW i \in Ids
  PROVE  Changed(i) <=> rows[i] # NoRow /\ rows[i].at > lastAt
BY DEF TypeOK, Changed, StoredText, BoundText, Row

LEMMA LaterThanMark ==
  ASSUME TypeOK', NEW i \in Ids
  PROVE  Changed(i)' <=> rows'[i] # NoRow /\ rows'[i].at > lastAt'
BY DEF TypeOK, Changed, StoredText, BoundText, Row

LEMMA InitFeedInv == Init => FeedInv
<1> SUFFICES ASSUME Init PROVE FeedInv
  OBVIOUS
<1>1. TypeOK
  BY InitType
<1>2. /\ now = 1 /\ txn = NoTxn /\ lastAt = 0 /\ batch = {}
      /\ \A i \in Ids : rows[i] = NoRow /\ emitted[i] = 0 /\ Rev(i) = 0
  BY DEF Init, Rev
<1> QED
  BY <1>1, <1>2 DEF FeedInv, ClockInv, WatermarkInv, BatchInv, SinceSelectInv,
     LossOnlyInToldSecond, Unreported

(* Steps that leave the table and the feed's position alone. *)
LEMMA IdleFeedInv ==
  ASSUME FeedInv, TypeOK', UNCHANGED <<now, rows, txn, watermark, batch>>
  PROVE  FeedInv'
BY DEF FeedInv, ClockInv, WatermarkInv, BatchInv, SinceSelectInv, InBatch,
   LossOnlyInToldSecond, Unreported, Changed, Rev, watermark

(* A step preserves FeedInv. *)
LEMMA NextFeedInv == FeedInv /\ [Next]_vars => FeedInv'
<1> SUFFICES ASSUME FeedInv, [Next]_vars PROVE FeedInv'
  OBVIOUS
<1> USE ConstantsOK
<1>0. TypeOK /\ TypeOK'
  BY NextType DEF FeedInv
<1>1. CASE Tick
  <2>1. now' = now + 1 /\ UNCHANGED <<rows, txn, watermark, batch>>
    BY <1>1 DEF Tick
  <2>2. ClockInv'
    BY <1>0, <2>1 DEF FeedInv, ClockInv, TypeOK, Row, Txn
  <2> QED
    BY <1>0, <2>1, <2>2 DEF FeedInv, WatermarkInv, BatchInv, SinceSelectInv, InBatch,
       LossOnlyInToldSecond, Unreported, Changed, Rev, watermark
<1>2. CASE CommitWrite
  <2>1. PICK i \in Ids : i = txn.id
    BY <1>0, <1>2 DEF CommitWrite, TypeOK, Txn
  <2>2. PICK new \in Row : /\ rows' = [rows EXCEPT ![i] = new]
                           /\ new.at = txn.at /\ new.rev = Rev(i) + 1
    <3>1. txn.at \in Nat /\ Rev(i) \in Nat
      BY <1>0, <1>2 DEF CommitWrite, TypeOK, Txn, Rev, Row
    <3> DEFINE row == [at |-> txn.at, rev |-> Rev(i) + 1]
    <3>2. row \in Row /\ row.at = txn.at /\ row.rev = Rev(i) + 1
      BY <3>1 DEF Row
    <3>3. rows' = [rows EXCEPT ![i] = row]
      BY <1>2, <2>1 DEF CommitWrite
    <3> HIDE DEF row
    <3> QED
      BY <3>2, <3>3
  <2>3. /\ txn # NoTxn /\ txn' = NoTxn
        /\ UNCHANGED <<now, lastAt, lastId, emitted, told, batch>>
    BY <1>2 DEF CommitWrite, watermark
  <2>4. /\ rows'[i] = new
        /\ \A j \in Ids : j # i => rows'[j] = rows[j]
    BY <1>0, <2>2 DEF TypeOK
  <2>5. /\ new.at \in 1 .. now /\ now \in Nat
        /\ \A j \in Ids : rows[j] # NoRow => rows[j].at <= new.at
        /\ lastAt <= new.at
    BY <1>0, <2>2, <2>3 DEF FeedInv, ClockInv, WatermarkInv, TypeOK, Txn, Row
  <2>6. new # NoRow /\ \A j \in Ids : rows[j] # NoRow => rows[j] \in Row
    BY <1>0 DEF TypeOK
  <2>7. \A e \in batch : e.at <= new.at /\ (e.id = i => e.rev < new.rev)
    <3>1. ASSUME NEW e \in batch
          PROVE  /\ rows[e.id] # NoRow /\ e.id \in Ids
                 /\ e.at <= rows[e.id].at /\ e.rev <= rows[e.id].rev
      BY <1>0 DEF FeedInv, BatchInv, TypeOK, Event
    <3>2. ASSUME NEW e \in batch
          PROVE  e.at \in Nat /\ e.rev \in Nat
                 /\ rows[e.id].at \in Nat /\ rows[e.id].rev \in Nat
      BY <1>0, <2>6, <3>1 DEF TypeOK, Event, Row
    <3>3. ASSUME NEW e \in batch PROVE e.at <= new.at
      BY <2>5, <3>1, <3>2 DEF Row
    <3>4. ASSUME NEW e \in batch, e.id = i PROVE e.rev < new.rev
      BY <2>2, <3>1, <3>2, <3>4 DEF Rev
    <3> QED
      BY <3>3, <3>4
  <2>8. ClockInv'
    <3>1. new.rev > 0
      BY <1>0, <2>2 DEF Rev, TypeOK, Row
    <3> QED
      BY <2>3, <2>4, <2>5, <3>1 DEF FeedInv, ClockInv
  <2>9. WatermarkInv'
    <3>1. new.rev > emitted[i] /\ new.rev \in Nat /\ emitted[i] \in Nat
      BY <1>0, <2>2 DEF FeedInv, WatermarkInv, Rev, TypeOK, Row
    <3>2. ASSUME NEW j \in Ids, rows'[j] # NoRow, rows'[j].rev = emitted[j]
          PROVE  j # i /\ rows'[j].at <= lastAt
      <4>1. j # i
        BY <2>4, <3>1, <3>2
      <4> QED
        BY <2>4, <3>2, <4>1 DEF FeedInv, WatermarkInv
    <3>3. ASSUME NEW j \in Ids PROVE emitted[j] <= Rev(j)'
      <4>1. CASE j = i
        <5>1. Rev(j)' = new.rev
          BY <2>4, <2>6, <4>1 DEF Rev
        <5> QED
          BY <3>1, <4>1, <5>1
      <4>2. CASE j # i
        BY <2>4, <4>2 DEF FeedInv, WatermarkInv, Rev
      <4> QED
        BY <4>1, <4>2
    <3> QED
      BY <2>3, <2>4, <2>5, <2>6, <3>2, <3>3 DEF FeedInv, WatermarkInv
  <2>10. BatchInv'
    BY <1>0, <2>2, <2>3, <2>4, <2>6, <2>7 DEF FeedInv, BatchInv, TypeOK, Event, Row
  <2>11. SinceSelectInv'
    BY <2>3, <2>4, <2>7 DEF FeedInv, SinceSelectInv, InBatch
  <2>12. LossOnlyInToldSecond'
    <3> SUFFICES ASSUME NEW j \in Ids, Unreported(j)' PROVE rows'[j].at \in told'
      BY DEF LossOnlyInToldSecond
    <3>1. CASE j # i
      <4>1. Unreported(j)
        BY <2>3, <2>4, <3>1 DEF Unreported, Changed
      <4> QED
        BY <2>3, <2>4, <3>1, <4>1 DEF FeedInv, LossOnlyInToldSecond
    <3>2. CASE j = i
      <4>1. ~ (new.at > lastAt)
        BY <1>0, <2>3, <2>4, <2>6, <3>2, LaterThanMark DEF Unreported
      <4>2. new.at = lastAt /\ lastAt # 0
        BY <1>0, <2>5, <4>1 DEF TypeOK, Row
      <4> QED
        BY <2>3, <2>4, <3>2, <4>2 DEF FeedInv, WatermarkInv
    <3> QED
      BY <3>1, <3>2
  <2> QED
    BY <1>0, <2>8, <2>9, <2>10, <2>11, <2>12 DEF FeedInv
<1>3. CASE RollbackWrite
  BY <1>0, <1>3 DEF RollbackWrite, FeedInv, ClockInv, WatermarkInv, BatchInv,
     SinceSelectInv, InBatch, LossOnlyInToldSecond, Unreported, Changed, Rev, watermark
<1>4. ASSUME NEW i \in Ids, BeginWrite(i)
      PROVE  FeedInv'
  <2>1. /\ txn' = [id |-> i, at |-> now]
        /\ UNCHANGED <<now, rows, watermark, batch>>
    BY <1>4 DEF BeginWrite
  <2>2. ClockInv'
    BY <1>0, <2>1 DEF FeedInv, ClockInv, TypeOK, Row
  <2> QED
    BY <1>0, <2>1, <2>2 DEF FeedInv, WatermarkInv, BatchInv, SinceSelectInv, InBatch,
       LossOnlyInToldSecond, Unreported, Changed, Rev, watermark
<1>5. ASSUME NEW t \in Tasks, PollSelect(t)
      PROVE  FeedInv'
  <2>1. /\ batch = {}
        /\ batch' = {[id |-> i, at |-> rows[i].at, rev |-> rows[i].rev] :
                       i \in {j \in Ids : Changed(j)}}
        /\ UNCHANGED <<now, rows, txn, lastAt, lastId, emitted, told>>
    BY <1>5 DEF PollSelect, LoopFree, store, watermark
  <2>2. \A e \in batch' : /\ e.id \in Ids /\ Changed(e.id)
                          /\ e.at = rows[e.id].at /\ e.rev = rows[e.id].rev
    BY <2>1
  <2>3. \A i \in Ids : Changed(i) => \E e \in batch' : e.id = i /\ e.rev = rows[i].rev
    <3> SUFFICES ASSUME NEW i \in Ids, Changed(i)
                 PROVE  \E e \in batch' : e.id = i /\ e.rev = rows[i].rev
      OBVIOUS
    <3> DEFINE e == [id |-> i, at |-> rows[i].at, rev |-> rows[i].rev]
    <3>1. e \in batch'
      BY <2>1
    <3> QED
      BY <3>1
  <2>4. ClockInv' /\ WatermarkInv'
    BY <2>1 DEF FeedInv, ClockInv, WatermarkInv, Rev
  <2>5. BatchInv'
    <3>0. \A e, f \in batch' : f.id = e.id => f = e
      BY <2>1
    <3> SUFFICES ASSUME NEW e \in batch'
                 PROVE  /\ lastAt <= e.at
                        /\ emitted[e.id] < e.rev
                        /\ rows[e.id] # NoRow
      BY <1>0, <2>1, <2>2, <3>0 DEF BatchInv, TypeOK, Event
    <3> DEFINE i == e.id
    <3>1. i \in Ids /\ rows[i] # NoRow /\ rows[i].at > lastAt
      BY <1>0, <2>2, ChangedIsLater
    <3>2. rows[i] \in Row /\ emitted[i] \in Nat /\ lastAt \in Nat
      BY <1>0, <3>1 DEF TypeOK
    <3>3. emitted[i] <= rows[i].rev /\ rows[i].rev # emitted[i]
      BY <3>1, <3>2 DEF FeedInv, WatermarkInv, Rev, Row
    <3> QED
      BY <2>2, <3>1, <3>2, <3>3 DEF Row
  <2>6. \A i \in Ids : ~ Unreported(i) /\ rows[i] # NoRow /\ rows[i].rev > emitted[i]
                         => \E e \in batch' : e.id = i /\ e.rev = rows[i].rev
    BY <2>1, <2>3 DEF Unreported
  <2>7. SinceSelectInv'
    BY <2>1, <2>6 DEF FeedInv, SinceSelectInv, InBatch, LossOnlyInToldSecond
  <2>8. LossOnlyInToldSecond'
    BY <2>1 DEF FeedInv, LossOnlyInToldSecond, Unreported, Changed
  <2> QED
    BY <1>0, <2>4, <2>5, <2>7, <2>8 DEF FeedInv
<1>6. CASE EmitOne
  <2>1. PICK e \in batch :
          /\ \A f \in batch \ {e} : Before(e, f)
          /\ lastAt' = e.at /\ lastId' = e.id
          /\ batch' = batch \ {e}
          /\ emitted' = [emitted EXCEPT ![e.id] = e.rev]
          /\ told' = told \cup {e.at}
          /\ UNCHANGED <<now, rows, txn>>
    BY <1>6 DEF EmitOne, store
  <2>2. /\ e.id \in Ids /\ e.at \in Nat /\ e.rev \in Nat
        /\ lastAt <= e.at /\ emitted[e.id] < e.rev
        /\ rows[e.id] # NoRow /\ e.at <= rows[e.id].at /\ e.rev <= rows[e.id].rev
        /\ e.rev = rows[e.id].rev => e.at = rows[e.id].at
    BY <1>0 DEF FeedInv, BatchInv, TypeOK, Event
  <2>3. /\ emitted'[e.id] = e.rev
        /\ \A i \in Ids : i # e.id => emitted'[i] = emitted[i]
    BY <1>0, <2>1, <2>2 DEF TypeOK
  <2>4. ClockInv'
    BY <2>1 DEF FeedInv, ClockInv
  <2>5. WatermarkInv'
    <3>1. \A i \in Ids : rows[i] # NoRow /\ rows[i].rev = emitted'[i] => rows[i].at <= e.at
      BY <1>0, <2>2, <2>3 DEF FeedInv, WatermarkInv, TypeOK, Row
    <3>2. \A i \in Ids : emitted'[i] <= Rev(i)
      BY <1>0, <2>2, <2>3 DEF FeedInv, WatermarkInv, TypeOK, Row, Rev
    <3> QED
      BY <2>1, <2>2, <3>1, <3>2 DEF WatermarkInv, Rev
  <2>6. BatchInv'
    <3> SUFFICES ASSUME NEW f \in batch \ {e}
                 PROVE  e.at <= f.at /\ emitted'[f.id] < f.rev
      BY <2>1 DEF FeedInv, BatchInv
    <3>1. f.id \in Ids /\ f.at \in Nat /\ f.id # e.id
      BY <1>0 DEF FeedInv, BatchInv, TypeOK, Event
    <3> QED
      BY <2>1, <2>2, <2>3, <3>1 DEF FeedInv, BatchInv, Before
  <2>7. ASSUME NEW i \in Ids, rows[i] # NoRow, rows[i].rev > emitted'[i], ~ InBatch(i)'
        PROVE  rows[i].rev > emitted[i] /\ ~ InBatch(i)
    BY <1>0, <2>1, <2>2, <2>3, <2>7 DEF InBatch, TypeOK, Row
  <2>8. SinceSelectInv'
    BY <2>1, <2>7 DEF FeedInv, SinceSelectInv
  <2>9. LossOnlyInToldSecond'
    <3> SUFFICES ASSUME NEW i \in Ids, Unreported(i)' PROVE rows[i].at \in told'
      BY <2>1 DEF LossOnlyInToldSecond
    <3>1. /\ rows[i] # NoRow /\ rows[i] \in Row /\ ~ rows[i].at > e.at
          /\ rows[i].rev > emitted[i] /\ ~ InBatch(i)
      BY <1>0, <2>1, <2>7, LaterThanMark DEF Unreported, InBatch, TypeOK
    <3>2. CASE Changed(i)
      BY <2>1, <2>2, <3>1 DEF FeedInv, SinceSelectInv, Row
    <3>3. CASE ~ Changed(i)
      BY <2>1, <3>1, <3>3 DEF FeedInv, LossOnlyInToldSecond, Unreported, InBatch
    <3> QED
      BY <3>2, <3>3
  <2> QED
    BY <1>0, <2>4, <2>5, <2>6, <2>8, <2>9 DEF FeedInv
<1>7. CASE Crash
  <2>1. /\ UNCHANGED <<now, rows>> /\ txn' = NoTxn
        /\ lastAt' = 0 /\ lastId' = 0 /\ batch' = {}
        /\ emitted' = [i \in Ids |-> 0] /\ told' = {}
    BY <1>7 DEF Crash
  <2>2. ClockInv'
    BY <2>1 DEF FeedInv, ClockInv
  <2>3. \A i \in Ids : rows[i] # NoRow => rows[i] \in Row /\ rows[i].at > 0
    BY <1>0 DEF FeedInv, ClockInv, TypeOK
  <2>4. WatermarkInv'
    <3>1. \A i \in Ids : rows[i] # NoRow => rows[i].rev > 0
      BY DEF FeedInv, ClockInv
    <3> QED
      BY <2>1, <2>3, <3>1 DEF WatermarkInv, Rev, Row
  <2>5. BatchInv' /\ SinceSelectInv'
    BY <2>1 DEF BatchInv, SinceSelectInv
  <2>6. LossOnlyInToldSecond'
    BY <1>0, <2>1, <2>3, LaterThanMark DEF LossOnlyInToldSecond, Unreported
  <2> QED
    BY <1>0, <2>2, <2>4, <2>5, <2>6 DEF FeedInv
<1>8. ASSUME NEW c \in Conns, Subscribe(c) \/ Deliver(c) \/ Disconnect(c) \/ Unsubscribe(c)
      PROVE  FeedInv'
  BY <1>0, <1>8, IdleFeedInv DEF Subscribe, Deliver, Disconnect, Unsubscribe, store
<1>9. ASSUME NEW t \in Tasks, CancelDelivered(t) \/ PollFail(t)
      PROVE  FeedInv'
  BY <1>0, <1>9, IdleFeedInv DEF CancelDelivered, PollFail, store
<1>10. CASE UNCHANGED vars
  BY <1>0, <1>10, IdleFeedInv DEF vars, store
<1> QED
  BY <1>1, <1>2, <1>3, <1>4, <1>5, <1>6, <1>7, <1>8, <1>9, <1>10 DEF Next

(* The feed loses no write but one that falls in a second whose earlier    *)
(* writes it had already emitted.                                          *)
THEOREM NoOtherLoss == Spec => []LossOnlyInToldSecond
<1>1. FeedInv => LossOnlyInToldSecond
  BY DEF FeedInv
<1> QED
  BY <1>1, InitFeedInv, NextFeedInv, PTL DEF Spec

-----------------------------------------------------------------------------
(* What client c was sent and what waits for it. *)
Stream(c) == got[c] \o queue[c]

InOrder(s) == \A m, n \in 1 .. Len(s) : m < n => Before(s[m], s[n])

(* The watermark has reached an event, or not yet. *)
Reached(e) == e.at < lastAt \/ (e.at = lastAt /\ e.id <= lastId)

StreamInv ==
  /\ \A e \in batch : ~ Reached(e)
  /\ \A c \in Conns : InOrder(Stream(c))
  /\ \A c \in Watchers : \A m \in 1 .. Len(Stream(c)) : Reached(Stream(c)[m])
  /\ \A c \in Conns : conn[c] = "closed" => queue[c] = <<>>

(* An event put on the queue is at the end of the stream. *)
LEMMA PutAppends ==
  ASSUME NEW s \in Seq(Event), NEW q \in Seq(Event), NEW e \in Event
  PROVE  s \o Append(q, e) = Append(s \o q, e)
<1>1. <<e>> \in Seq(Event)
  OBVIOUS
<1>2. Append(q, e) = q \o <<e>>
  BY AppendIsConcat
<1>3. s \o q \in Seq(Event)
  BY ConcatProperties
<1>4. Append(s \o q, e) = (s \o q) \o <<e>>
  BY <1>3, AppendIsConcat
<1> QED
  BY <1>1, <1>2, <1>4, ConcatAssociative

(* Delivering an event leaves the stream as it is. *)
LEMMA DeliveryKeepsStream ==
  ASSUME NEW s \in Seq(Event), NEW q \in Seq(Event), q # <<>>
  PROVE  Append(s, Head(q)) \o Tail(q) = s \o q
<1> DEFINE h == <<Head(q)>>
<1>1. Head(q) \in Event /\ Tail(q) \in Seq(Event) /\ h \in Seq(Event)
  BY HeadTailProperties
<1>2. Append(s, Head(q)) = s \o h
  BY <1>1, AppendIsConcat
<1>3. h \o Tail(q) = q
  <2>1. /\ h \o Tail(q) \in Seq(Event)
        /\ Len(h \o Tail(q)) = Len(q)
        /\ \A i \in 1 .. Len(q) : (h \o Tail(q))[i] = q[i]
    BY <1>1, HeadTailProperties, ConcatProperties
  <2> QED
    BY <2>1, SeqEqual
<1>4. (s \o h) \o Tail(q) = s \o (h \o Tail(q))
  BY <1>1, ConcatAssociative
<1> QED
  BY <1>2, <1>3, <1>4

(* A stream stays in order when an event later than all of it is added. *)
LEMMA AppendInOrder ==
  ASSUME NEW s \in Seq(Event), NEW e \in Event, InOrder(s),
         \A m \in 1 .. Len(s) : Before(s[m], e)
  PROVE  InOrder(Append(s, e))
BY AppendProperties DEF InOrder

(* A concatenation begins with its first part. *)
LEMMA PrefixOfConcat ==
  ASSUME NEW s \in Seq(Event), NEW q \in Seq(Event), NEW m \in 1 .. Len(s)
  PROVE  m \in 1 .. Len(s \o q) /\ (s \o q)[m] = s[m]
<1>1. Len(s) \in Nat /\ Len(q) \in Nat /\ Len(s \o q) = Len(s) + Len(q)
  BY ConcatProperties
<1>2. m \in 1 .. Len(s) + Len(q) /\ m <= Len(s)
  BY <1>1
<1> QED
  BY <1>1, <1>2, ConcatProperties

LEMMA InitStreamInv == Init => StreamInv
<1> SUFFICES ASSUME Init PROVE StreamInv
  OBVIOUS
<1>1. \A c \in Conns : Stream(c) = <<>>
  BY DEF Init, Stream
<1> QED
  BY <1>1 DEF Init, StreamInv, InOrder, Watchers

(* A step preserves StreamInv. *)
LEMMA NextStreamInv == TypeOK /\ TypeOK' /\ StreamInv /\ [Next]_vars => StreamInv'
<1> SUFFICES ASSUME TypeOK, TypeOK', StreamInv, [Next]_vars PROVE StreamInv'
  OBVIOUS
<1> USE ConstantsOK
<1>0. \A c \in Conns : /\ Stream(c) \in Seq(Event)
                       /\ got[c] \in Seq(Event) /\ queue[c] \in Seq(Event)
  BY ConcatProperties DEF TypeOK, Stream
<1>1. ASSUME UNCHANGED <<conn, queue, got, lastAt, lastId, batch>>
      PROVE  StreamInv'
  BY <1>1 DEF StreamInv, Stream, Reached, Watchers
<1>2. ASSUME Tick \/ CommitWrite \/ RollbackWrite
      PROVE  StreamInv'
  BY <1>1, <1>2 DEF Tick, CommitWrite, RollbackWrite, streams, watermark
<1>3. ASSUME NEW i \in Ids, BeginWrite(i)
      PROVE  StreamInv'
  BY <1>1, <1>3 DEF BeginWrite, streams, watermark
<1>4. ASSUME NEW t \in Tasks, CancelDelivered(t) \/ PollFail(t)
      PROVE  StreamInv'
  BY <1>1, <1>4 DEF CancelDelivered, PollFail, streams, watermark
<1>5. ASSUME NEW t \in Tasks, PollSelect(t)
      PROVE  StreamInv'
  <2>1. \A e \in batch' : e.at > lastAt
    BY <1>5, ChangedIsLater DEF PollSelect
  <2>2. \A e \in batch' : ~ Reached(e)
    BY <2>1 DEF TypeOK, Reached, Event
  <2>3. UNCHANGED <<conn, queue, got, lastAt, lastId>>
    BY <1>5 DEF PollSelect, streams, watermark
  <2> QED
    BY <2>2, <2>3 DEF StreamInv, Stream, Reached, Watchers
<1>6. CASE EmitOne
  <2>1. PICK e \in batch :
          /\ \A f \in batch \ {e} : Before(e, f)
          /\ lastAt' = e.at /\ lastId' = e.id
          /\ batch' = batch \ {e}
          /\ queue' = [c \in Conns |-> IF c \in Watchers /\ e.id \in Interest[c]
                                       THEN Append(queue[c], e) ELSE queue[c]]
          /\ UNCHANGED <<conn, got>>
    BY <1>6 DEF EmitOne
  <2>2. e \in Event /\ e.at \in Nat /\ e.id \in Nat /\ lastAt \in Nat /\ lastId \in Nat
    BY DEF TypeOK, Event, Ids
  <2>3. ASSUME NEW f \in batch'
        PROVE  ~ Reached(f)'
    <3>1. Before(e, f) /\ f.at \in Nat /\ f.id \in Nat
      BY <2>1 DEF TypeOK, Event, Ids
    <3> QED
      BY <2>1, <2>2, <3>1 DEF Reached, Before
  <2>4. ASSUME NEW f \in Event, Reached(f)
        PROVE  Reached(f)' /\ Before(f, e)
    BY <2>1, <2>2, <2>4 DEF StreamInv, Reached, Before, Event, Ids
  <2>5. ASSUME NEW c \in Conns
        PROVE  Stream(c)' = Stream(c) \/ (c \in Watchers /\ Stream(c)' = Append(Stream(c), e))
    BY <1>0, <2>1, <2>2, PutAppends DEF Stream
  <2>6. ASSUME NEW c \in Conns
        PROVE  InOrder(Stream(c))'
    <3>1. CASE Stream(c)' = Stream(c)
      BY <3>1 DEF StreamInv, InOrder
    <3>2. CASE c \in Watchers /\ Stream(c)' = Append(Stream(c), e)
      <4>1. \A m \in 1 .. Len(Stream(c)) : Before(Stream(c)[m], e)
        BY <1>0, <2>4, <3>2 DEF StreamInv
      <4>2. InOrder(Append(Stream(c), e))
        BY <1>0, <2>2, <4>1, AppendInOrder DEF StreamInv
      <4> QED
        BY <3>2, <4>2 DEF InOrder
    <3> QED
      BY <2>5, <3>1, <3>2
  <2>7. ASSUME NEW c \in Watchers, NEW m \in 1 .. Len(Stream(c)')
        PROVE  Reached(Stream(c)[m])'
    <3>0. c \in Conns
      BY DEF Watchers
    <3>1. CASE Stream(c)' = Stream(c)
      BY <1>0, <2>4, <3>0, <3>1 DEF StreamInv, Reached
    <3>2. CASE Stream(c)' = Append(Stream(c), e)
      <4>1. CASE m \in 1 .. Len(Stream(c))
        <5>1. Stream(c)'[m] = Stream(c)[m] /\ Stream(c)[m] \in Event
          BY <1>0, <2>2, <3>0, <3>2, <4>1, AppendProperties
        <5> QED
          BY <2>4, <4>1, <5>1 DEF StreamInv, Reached
      <4>2. CASE m = Len(Stream(c)) + 1
        <5>1. Stream(c)'[m] = e
          BY <1>0, <2>2, <3>0, <3>2, <4>2, AppendProperties
        <5> QED
          BY <2>1, <2>2, <5>1 DEF Reached
      <4>3. m \in 1 .. Len(Stream(c)) + 1
        BY <1>0, <2>2, <3>0, <3>2, AppendProperties
      <4> QED
        BY <1>0, <3>0, <4>1, <4>2, <4>3
    <3> QED
      BY <2>5, <3>0, <3>1, <3>2
  <2>8. \A c \in Conns : conn'[c] = "closed" => queue'[c] = <<>>
    BY <2>1 DEF StreamInv, Watchers
  <2> QED
    BY <2>1, <2>3, <2>6, <2>7, <2>8 DEF StreamInv, Watchers
<1>7. ASSUME NEW c \in Conns, Subscribe(c)
      PROVE  StreamInv'
  <2>1. /\ conn[c] = "closed" /\ conn' = [conn EXCEPT ![c] = "streaming"]
        /\ got' = [got EXCEPT ![c] = <<>>]
        /\ UNCHANGED <<queue, lastAt, lastId, batch>>
    BY <1>7 DEF Subscribe, watermark
  <2>2. queue[c] = <<>>
    BY <2>1 DEF StreamInv
  <2>3. Stream(c)' = <<>> /\ \A d \in Conns \ {c} : Stream(d)' = Stream(d)
    BY <2>1, <2>2 DEF TypeOK, Stream
  <2>4. \A d \in Conns : InOrder(Stream(d)')
    BY <2>3 DEF StreamInv, InOrder
  <2>5. \A d \in Conns \ {c} : conn'[d] = conn[d]
    BY <2>1 DEF TypeOK
  <2> QED
    BY <2>1, <2>2, <2>3, <2>4, <2>5 DEF TypeOK, StreamInv, InOrder, Reached, Watchers
<1>8. ASSUME NEW c \in Conns, Deliver(c)
      PROVE  StreamInv'
  <2>1. /\ conn[c] = "streaming" /\ queue[c] # <<>>
        /\ got' = [got EXCEPT ![c] = Append(@, Head(queue[c]))]
        /\ queue' = [queue EXCEPT ![c] = Tail(@)]
        /\ UNCHANGED <<conn, lastAt, lastId, batch>>
    BY <1>8 DEF Deliver, watermark
  <2>2. Stream(c)' = Append(got[c], Head(queue[c])) \o Tail(queue[c])
    BY <2>1 DEF TypeOK, Stream
  <2>3. Stream(c)' = Stream(c)
    BY <1>0, <2>1, <2>2, DeliveryKeepsStream DEF Stream
  <2>4. \A d \in Conns \ {c} : got'[d] = got[d] /\ queue'[d] = queue[d]
    BY <2>1 DEF TypeOK
  <2>5. \A d \in Conns : Stream(d)' = Stream(d)
    BY <2>3, <2>4 DEF Stream
  <2> QED
    BY <2>1, <2>4, <2>5 DEF StreamInv, InOrder, Reached, Watchers
<1>9. ASSUME NEW c \in Conns, Disconnect(c)
      PROVE  StreamInv'
  <2>1. /\ conn[c] = "streaming" /\ conn' = [conn EXCEPT ![c] = "gone"]
        /\ UNCHANGED <<queue, got, lastAt, lastId, batch>>
    BY <1>9 DEF Disconnect, watermark
  <2> QED
    BY <2>1 DEF TypeOK, StreamInv, Stream, Reached, Watchers
<1>10. ASSUME NEW c \in Conns, Unsubscribe(c)
       PROVE  StreamInv'
  <2>1. /\ conn' = [conn EXCEPT ![c] = "closed"]
        /\ queue' = [queue EXCEPT ![c] = <<>>]
        /\ UNCHANGED <<got, lastAt, lastId, batch>>
    BY <1>10 DEF Unsubscribe, watermark
  <2>2. queue'[c] = <<>> /\ conn'[c] = "closed"
    BY <2>1 DEF TypeOK
  <2>3. \A d \in Conns \ {c} : Stream(d)' = Stream(d) /\ conn'[d] = conn[d] /\ queue'[d] = queue[d]
    BY <2>1 DEF TypeOK, Stream
  <2>4. Stream(c)' = got[c]
    BY <1>0, <2>1, <2>2, ConcatEmptySeq DEF Stream
  <2>5. \A m \in 1 .. Len(got[c]) : m \in 1 .. Len(Stream(c)) /\ Stream(c)[m] = got[c][m]
    BY <1>0, PrefixOfConcat DEF Stream
  <2>6. InOrder(got[c])
    BY <2>5 DEF StreamInv, InOrder
  <2>7. \A d \in Conns : InOrder(Stream(d)')
    BY <2>3, <2>4, <2>6 DEF StreamInv
  <2>8. \A d \in Watchers' : d # c /\ d \in Watchers
    BY <2>2, <2>3 DEF Watchers
  <2>9. \A d \in Conns : conn'[d] = "closed" => queue'[d] = <<>>
    BY <2>2, <2>3 DEF StreamInv
  <2>10. \A d \in Watchers' : \A m \in 1 .. Len(Stream(d)') : Reached(Stream(d)'[m])
    BY <2>3, <2>8 DEF StreamInv, Watchers
  <2> QED
    BY <2>1, <2>7, <2>9, <2>10 DEF StreamInv, InOrder, Reached
<1>11. CASE Crash
  <2>1. /\ \A c \in Conns : conn'[c] = "closed" /\ queue'[c] = <<>> /\ got'[c] = <<>>
        /\ batch' = {}
    BY <1>11 DEF Crash
  <2>2. \A c \in Conns : Stream(c)' = <<>>
    BY <2>1 DEF Stream
  <2> QED
    BY <2>1, <2>2 DEF StreamInv, InOrder, Watchers
<1>12. CASE UNCHANGED vars
  BY <1>1, <1>12 DEF vars, streams, watermark
<1> QED
  BY <1>2, <1>3, <1>4, <1>5, <1>6, <1>7, <1>8, <1>9, <1>10, <1>11, <1>12 DEF Next

(* On every connection events come in strict order of writing time and id, *)
(* so nothing is sent twice and nothing stale after something newer.       *)
THEOREM StreamsInOrder == Spec => []StreamInOrder
<1>1. StreamInv => StreamInOrder
  BY DEF StreamInv, StreamInOrder, InOrder, Stream
<1>2. TypeOK /\ StreamInv /\ [Next]_vars => TypeOK' /\ StreamInv'
  BY NextType, NextStreamInv
<1> QED
  BY <1>1, <1>2, InitType, InitStreamInv, PTL DEF Spec
-----------------------------------------------------------------------------
(* A poll does not get stuck. *)
LEMMA LeastNat ==
  ASSUME NEW S \in SUBSET Nat, S # {}
  PROVE  \E m \in S : \A n \in S : m <= n
<1>1. PICK m \in S : \A n \in S : ~ (<<n, m>> \in OpToRel(<, Nat))
  BY NatLessThanWellFounded, WFMin
<1>2. \A n \in S : ~ (n < m)
  BY <1>1 DEF OpToRel
<1>3. m \in Nat /\ \A n \in S : n \in Nat
  OBVIOUS
<1> QED
  BY <1>2, <1>3

(* While a poll has rows to emit, every other coroutine of the loop waits  *)
(* for it.  There always is a next row for it to take: its SELECT returns  *)
(* each row once, so the order by time and id is total.                    *)
THEOREM PollHasNext ==
  Spec => [](batch # {} => \E e \in batch : \A f \in batch \ {e} : Before(e, f))
<1>1. FeedInv /\ batch # {} => \E e \in batch : \A f \in batch \ {e} : Before(e, f)
  <2> SUFFICES ASSUME FeedInv, batch # {}
               PROVE  \E e \in batch : \A f \in batch \ {e} : Before(e, f)
    OBVIOUS
  <2>1. \A e \in batch : e.at \in Nat /\ e.id \in Nat
    BY DEF FeedInv, TypeOK, Event, Ids
  <2>2. \A e, f \in batch : f.id = e.id => f = e
    BY DEF FeedInv, BatchInv
  <2>3. PICK at \in {e.at : e \in batch} : \A n \in {e.at : e \in batch} : at <= n
    BY <2>1, LeastNat
  <2> DEFINE first == {e \in batch : e.at = at}
  <2>4. PICK id \in {e.id : e \in first} : \A n \in {e.id : e \in first} : id <= n
    BY <2>1, <2>3, LeastNat
  <2>5. PICK e \in batch : e.at = at /\ e.id = id
    BY <2>4
  <2>6. ASSUME NEW f \in batch \ {e} PROVE Before(e, f)
    <3>1. e.at <= f.at /\ e.id # f.id
      BY <2>2, <2>3, <2>5
    <3>2. f.at = at => e.id <= f.id
      BY <2>4, <2>5
    <3> QED
      BY <2>1, <2>5, <3>1, <3>2 DEF Before
  <2> QED
    BY <2>6
<1> QED
  BY <1>1, InitFeedInv, NextFeedInv, PTL DEF Spec
-----------------------------------------------------------------------------
(* The feed as a broadcast.  Feeding shows under which names the theorems  *)
(* of FeedProofs hold of it.                                               *)
Sent == [c \in Conns |-> IF c \in Watchers THEN got[c] \o queue[c] ELSE <<>>]

LastEvent == [id |-> lastId, at |-> lastAt, rev |-> IF lastId = 0 THEN 0 ELSE emitted[lastId]]

LEMMA InitBroadcasts == Init => Broadcast!Init
<1> SUFFICES ASSUME Init PROVE Broadcast!Init
  OBVIOUS
<1>1. Watchers = {}
  BY DEF Init, Watchers
<1> QED
  BY <1>1 DEF Init, Broadcast!Init, Broadcast!Fresh, Broadcast!Nothing, Broadcast!Ids, Ids

(* What the broadcast does not see. *)
LEMMA UnseenStep ==
  ASSUME UNCHANGED <<Watchers, Sent, lastAt, lastId, emitted>>
  PROVE  UNCHANGED Broadcast!vars
BY DEF Broadcast!vars, Sent

(* A step of the feed is a step of the broadcast, or none. *)
LEMMA NextBroadcasts ==
  FeedInv /\ StreamInv /\ [Next]_vars => [Broadcast!Next]_Broadcast!vars
<1> SUFFICES ASSUME FeedInv, StreamInv, [Next]_vars
             PROVE  Broadcast!Next \/ UNCHANGED Broadcast!vars
  OBVIOUS
<1>0. /\ TypeOK /\ Watchers \subseteq Conns
      /\ \A c \in Conns : got[c] \in Seq(Event) /\ queue[c] \in Seq(Event)
  BY DEF FeedInv, TypeOK, Watchers
<1>1. ASSUME UNCHANGED <<conn, queue, got, watermark>>
      PROVE  UNCHANGED Broadcast!vars
  <2>1. Watchers' = Watchers
    BY <1>1 DEF Watchers
  <2>2. Sent' = Sent
    BY <1>1, <2>1 DEF Sent
  <2> QED
    BY <1>1, <2>1, <2>2, UnseenStep DEF watermark
<1>2. CASE Tick \/ CommitWrite \/ RollbackWrite
  BY <1>1, <1>2 DEF Tick, CommitWrite, RollbackWrite, streams
<1>3. ASSUME NEW i \in Ids, BeginWrite(i)
      PROVE  UNCHANGED Broadcast!vars
  BY <1>1, <1>3 DEF BeginWrite, streams
<1>4. ASSUME NEW t \in Tasks, CancelDelivered(t) \/ PollSelect(t) \/ PollFail(t)
      PROVE  UNCHANGED Broadcast!vars
  BY <1>1, <1>4 DEF CancelDelivered, PollSelect, PollFail, streams
<1>5. ASSUME NEW c \in Conns, Subscribe(c)
      PROVE  Broadcast!Next
  <2>1. /\ conn[c] = "closed" /\ conn' = [conn EXCEPT ![c] = "streaming"]
        /\ got' = [got EXCEPT ![c] = <<>>] /\ UNCHANGED <<queue, lastAt, lastId, emitted>>
    BY <1>5 DEF Subscribe, watermark
  <2>2. c \notin Watchers /\ Watchers' = Watchers \cup {c}
    BY <1>0, <2>1 DEF Watchers, TypeOK
  <2>3. got'[c] \o queue'[c] = <<>>
    BY <1>0, <2>1 DEF StreamInv, TypeOK
  <2>4. Sent' = [Sent EXCEPT ![c] = <<>>]
    BY <1>0, <2>1, <2>2, <2>3 DEF Sent, TypeOK
  <2>5. Broadcast!Subscribe(c)
    BY <2>1, <2>2, <2>4 DEF Broadcast!Subscribe, Sent
  <2> QED
    BY <2>5 DEF Broadcast!Next
<1>6. ASSUME NEW c \in Conns, Deliver(c)
      PROVE  UNCHANGED Broadcast!vars
  <2>1. /\ queue[c] # <<>> /\ got' = [got EXCEPT ![c] = Append(@, Head(queue[c]))]
        /\ queue' = [queue EXCEPT ![c] = Tail(@)]
        /\ UNCHANGED <<conn, lastAt, lastId, emitted>>
    BY <1>6 DEF Deliver, watermark
  <2>2. got'[c] \o queue'[c] = got[c] \o queue[c]
    BY <1>0, <2>1, DeliveryKeepsStream DEF TypeOK
  <2>3. Watchers' = Watchers
    BY <2>1 DEF Watchers
  <2>4. Sent' = Sent
    BY <1>0, <2>1, <2>2, <2>3 DEF Sent, TypeOK
  <2> QED
    BY <2>1, <2>3, <2>4, UnseenStep
<1>7. ASSUME NEW c \in Conns, Disconnect(c)
      PROVE  UNCHANGED Broadcast!vars
  <2>1. /\ conn[c] = "streaming" /\ conn' = [conn EXCEPT ![c] = "gone"]
        /\ UNCHANGED <<queue, got, lastAt, lastId, emitted>>
    BY <1>7 DEF Disconnect, watermark
  <2>2. Watchers' = Watchers
    BY <1>0, <2>1 DEF Watchers, TypeOK
  <2>3. Sent' = Sent
    BY <2>1, <2>2 DEF Sent
  <2> QED
    BY <2>1, <2>2, <2>3, UnseenStep
<1>8. ASSUME NEW c \in Conns, Unsubscribe(c)
      PROVE  Broadcast!Next
  <2>1. /\ conn[c] = "gone" /\ conn' = [conn EXCEPT ![c] = "closed"]
        /\ queue' = [queue EXCEPT ![c] = <<>>] /\ UNCHANGED <<got, lastAt, lastId, emitted>>
    BY <1>8 DEF Unsubscribe, watermark
  <2>2. c \in Watchers /\ Watchers' = Watchers \ {c}
    BY <1>0, <2>1 DEF Watchers, TypeOK
  <2>3. Sent' = [Sent EXCEPT ![c] = <<>>]
    BY <1>0, <2>1, <2>2 DEF Sent, TypeOK
  <2>4. Broadcast!Unsubscribe(c)
    BY <2>1, <2>2, <2>3 DEF Broadcast!Unsubscribe, Sent
  <2> QED
    BY <2>4 DEF Broadcast!Next
<1>9. CASE EmitOne
  <2>1. PICK e \in batch :
          /\ lastAt' = e.at /\ lastId' = e.id
          /\ emitted' = [emitted EXCEPT ![e.id] = e.rev]
          /\ queue' = [c \in Conns |-> IF c \in Watchers /\ e.id \in Interest[c]
                                       THEN Append(queue[c], e) ELSE queue[c]]
          /\ UNCHANGED <<conn, got>>
    BY <1>9 DEF EmitOne
  <2>2. /\ e \in Event /\ e.id \in Ids /\ e.id \in Nat \ {0} /\ e.at \in Nat /\ e.rev \in Nat
        /\ emitted[e.id] \in Nat /\ emitted[e.id] < e.rev /\ ~ Reached(e)
    BY <1>0 DEF FeedInv, BatchInv, StreamInv, TypeOK, Event, Ids
  <2>3. LastEvent' = e
    <3>1. emitted'[e.id] = e.rev
      BY <1>0, <2>1, <2>2 DEF TypeOK
    <3>2. LastEvent' = [id |-> e.id, at |-> e.at, rev |-> e.rev]
      BY <2>1, <2>2, <3>1 DEF LastEvent
    <3> QED
      BY <2>2, <3>2 DEF Event
  <2>4. e \in Broadcast!Event
    BY <2>2 DEF Event, Broadcast!Event, Broadcast!Ids, Ids
  <2>5. Broadcast!Before(LastEvent, e)
    BY <1>0, <2>2 DEF Reached, Broadcast!Before, LastEvent, TypeOK
  <2>6. Watchers' = Watchers
    BY <2>1 DEF Watchers
  <2>7. Sent' = [c \in Conns |-> IF c \in Watchers /\ e.id \in Interest[c]
                                 THEN Append(Sent[c], e) ELSE Sent[c]]
    BY <1>0, <2>1, <2>2, <2>6, PutAppends DEF Sent
  <2>8. Broadcast!Publish
    BY <2>1, <2>2, <2>3, <2>4, <2>5, <2>6, <2>7 DEF Broadcast!Publish, Sent, LastEvent
  <2> QED
    BY <2>8 DEF Broadcast!Next
<1>10. CASE Crash
  <2>1. /\ conn' = [c \in Conns |-> "closed"] /\ lastAt' = 0 /\ lastId' = 0
        /\ emitted' = [i \in Ids |-> 0]
    BY <1>10 DEF Crash
  <2>2. Watchers' = {}
    BY <2>1 DEF Watchers
  <2>3. Broadcast!Restart
    BY <2>1, <2>2 DEF Broadcast!Restart, Broadcast!Fresh, Broadcast!Nothing, Broadcast!Ids, Ids
  <2> QED
    BY <2>3 DEF Broadcast!Next
<1>11. CASE UNCHANGED vars
  BY <1>1, <1>11 DEF vars, streams
<1> QED
  BY <1>2, <1>3, <1>4, <1>5, <1>6, <1>7, <1>8, <1>9, <1>10, <1>11 DEF Next

(* With its polls, tasks, queues, cancellations and failures the change    *)
(* feed implements Feed.                                                   *)
THEOREM RefinesFeed == Spec => ImplementsFeed
<1>1. Init => FeedInv /\ StreamInv /\ Broadcast!Init
  BY InitFeedInv, InitStreamInv, InitBroadcasts
<1>2. FeedInv /\ StreamInv /\ [Next]_vars
        => FeedInv' /\ StreamInv' /\ [Broadcast!Next]_Broadcast!vars
  <2>1. FeedInv /\ FeedInv' => TypeOK /\ TypeOK'
    BY DEF FeedInv
  <2> QED
    BY <2>1, NextFeedInv, NextStreamInv, NextBroadcasts
<1> QED
  BY <1>1, <1>2, PTL DEF Spec, ImplementsFeed, Broadcast!Spec

Feeding == INSTANCE FeedProofs WITH
  open <- Watchers,
  stream <- [c \in Conns |-> IF c \in Watchers THEN got[c] \o queue[c] ELSE <<>>],
  last <- [id |-> lastId, at |-> lastAt, rev |-> IF lastId = 0 THEN 0 ELSE emitted[lastId]],
  newest <- emitted

(* Any two watchers agree on what follows an event that one of them has.   *)
THEOREM NoOneIsLeftOut == Spec => []WatchersAgree
<1>1. Broadcast!Init => Feeding!Init
  BY DEF Broadcast!Init, Broadcast!Fresh, Broadcast!Nothing, Broadcast!Ids,
     Feeding!Init, Feeding!Fresh, Feeding!Nothing, Feeding!Ids
<1>2. [Broadcast!Next]_Broadcast!vars => [Feeding!Next]_Feeding!vars
  BY DEF Broadcast!Next, Broadcast!vars, Broadcast!Subscribe, Broadcast!Unsubscribe,
     Broadcast!Publish, Broadcast!Event, Broadcast!Before, Broadcast!Restart, Broadcast!Fresh,
     Broadcast!Nothing, Broadcast!Ids,
     Feeding!Next, Feeding!vars, Feeding!Subscribe, Feeding!Unsubscribe,
     Feeding!Publish, Feeding!Event, Feeding!Before, Feeding!Restart, Feeding!Fresh,
     Feeding!Nothing, Feeding!Ids
<1>3. ImplementsFeed => Feeding!Spec
  BY <1>1, <1>2, PTL DEF ImplementsFeed, Broadcast!Spec, Feeding!Spec
<1>4. Feeding!Agreement => WatchersAgree
  <2> SUFFICES ASSUME Feeding!Agreement, NEW c \in Watchers, NEW d \in Watchers
               PROVE  SentToo(got[c] \o queue[c], got[d] \o queue[d], Interest[c])
    BY Zenon DEF WatchersAgree
  <2>1. Sent[c] = got[c] \o queue[c] /\ Sent[d] = got[d] \o queue[d]
    BY DEF Sent, Watchers
  <2>2. SentToo(Sent[c], Sent[d], Interest[c])
    BY DEF Feeding!Agreement, Feeding!Before, Before, Sent, SentToo
  <2> QED
    BY <2>1, <2>2
<1> QED
  BY <1>3, <1>4, RefinesFeed, Feeding!StreamsAgree, PTL
=============================================================================
