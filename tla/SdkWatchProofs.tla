---------------------------- MODULE SdkWatchProofs ----------------------------
(***************************************************************************)
(* Theorems about SdkWatch, for any applications, connections, rows and    *)
(* faults, on top of what WatchersProofs shows of the feed.                *)
(***************************************************************************)
EXTENDS SdkWatch, WatchersProofs

(* Of two events of one row the first is the older state. *)
Older(e, f) == e.id = f.id => e.rev < f.rev

Rising(s) == \A m, n \in 1 .. Len(s) : m < n => Older(s[m], s[n])

Apart(s, q) == \A m \in 1 .. Len(s), n \in 1 .. Len(q) : Older(s[m], q[n])

(* News to who knows of revisions k, of what was emitted until e. *)
Fresh(s, k, e) == \A m \in 1 .. Len(s) : k[s[m].id] < s[m].rev /\ s[m].rev <= e[s[m].id]

AppTypeOK ==
  /\ via \in [Apps -> Conns \cup {NoConn}]
  /\ unread \in [Apps -> Seq(Event)]
  /\ known \in [Apps -> [Ids -> Nat]]

(* What is on its way to an application is news to it, in order, and no    *)
(* newer than what the feed has emitted.                                   *)
NewsInv ==
  /\ \A p \in Apps : IF via[p] = NoConn THEN unread[p] = <<>> ELSE via[p] \in ConnsOf[p]
  /\ \A p \in Apps, i \in Ids : known[p][i] <= emitted[i]
  /\ \A p \in Apps, c \in Conns : via[p] = c /\ conn[c] = "streaming" =>
       /\ Fresh(unread[p], known[p], emitted) /\ Fresh(queue[c], known[p], emitted)
       /\ Rising(unread[p]) /\ Rising(queue[c]) /\ Apart(unread[p], queue[c])

FeedFacts == FeedInv /\ StreamInv

-----------------------------------------------------------------------------
(* A step of the applications and the server is one of the feed, or none.  *)
LEMMA WatchersStep == AppTypeOK /\ [WatchNext]_watchVars => [Next]_vars
<1> SUFFICES ASSUME AppTypeOK, [WatchNext]_watchVars PROVE [Next]_vars
  OBVIOUS
<1>1. ASSUME NEW p \in Apps, NEW c \in Conns, Open(p, c)
      PROVE  Next
  BY <1>1 DEF Open, Next
<1>2. ASSUME NEW p \in Apps, Yield(p)
      PROVE  UNCHANGED vars
  BY <1>2 DEF Yield
<1>3. ASSUME NEW p \in Apps, Leave(p) \/ StreamFails(p)
      PROVE  [Next]_vars
  <2>1. via[p] \in Conns /\ (Disconnect(via[p]) \/ UNCHANGED vars)
    BY <1>3 DEF Leave, StreamFails, Close, AppTypeOK
  <2> QED
    BY <2>1 DEF Next
<1>4. ASSUME NEW c \in Conns, Send(c)
      PROVE  Next
  BY <1>4 DEF Send, Next
<1>5. CASE ServerStep
  BY <1>5 DEF ServerStep, Next
<1>6. CASE Restart
  BY <1>6 DEF Restart, Next
<1>7. CASE UNCHANGED watchVars
  BY <1>7 DEF watchVars
<1> QED
  BY <1>1, <1>2, <1>3, <1>4, <1>5, <1>6, <1>7 DEF WatchNext

LEMMA InitAppType == WatchInit => AppTypeOK
BY DEF WatchInit, AppTypeOK

LEMMA NextAppType == TypeOK /\ AppTypeOK /\ [WatchNext]_watchVars => AppTypeOK'
<1> SUFFICES ASSUME TypeOK, AppTypeOK, [WatchNext]_watchVars PROVE AppTypeOK'
  OBVIOUS
<1> USE DEF AppTypeOK
<1>1. ASSUME NEW p \in Apps, NEW c \in Conns, Open(p, c)
      PROVE  AppTypeOK'
  BY <1>1 DEF Open
<1>2. ASSUME NEW p \in Apps, Yield(p)
      PROVE  AppTypeOK'
  <2>1. Head(unread[p]) \in Event /\ Tail(unread[p]) \in Seq(Event)
    BY <1>2, HeadTailProperties DEF Yield
  <2>2. unread' \in [Apps -> Seq(Event)]
    BY <1>2, <2>1 DEF Yield
  <2> DEFINE e == Head(unread[p])
             rev == IF Reading(p) THEN e.rev ELSE known[p][e.id]
  <2>3. e.id \in Ids /\ rev \in Nat
    BY <2>1 DEF Event
  <2>4. known' = [known EXCEPT ![p][e.id] = rev]
    BY <1>2 DEF Yield
  <2> HIDE DEF e, rev
  <2>5. known' \in [Apps -> [Ids -> Nat]]
    BY <2>3, <2>4
  <2> QED
    BY <1>2, <2>2, <2>5 DEF Yield
<1>3. ASSUME NEW p \in Apps, Leave(p) \/ StreamFails(p)
      PROVE  AppTypeOK'
  <2>1. /\ via' = [via EXCEPT ![p] = NoConn] /\ unread' = [unread EXCEPT ![p] = <<>>]
        /\ known' = known
    BY <1>3 DEF Leave, StreamFails, Close
  <2>2. <<>> \in Seq(Event)
    OBVIOUS
  <2> QED
    BY <2>1, <2>2
<1>4. ASSUME NEW c \in Conns, Send(c)
      PROVE  AppTypeOK'
  <2>1. Head(queue[c]) \in Event
    BY <1>4, HeadTailProperties DEF Send, Deliver, TypeOK
  <2>2. unread' \in [Apps -> Seq(Event)]
    BY <1>4, <2>1, AppendProperties DEF Send
  <2> QED
    BY <1>4, <2>2 DEF Send
<1>5. CASE Restart
  BY <1>5 DEF Restart
<1>6. CASE UNCHANGED sdkVars
  BY <1>6 DEF sdkVars
<1> QED
  BY <1>1, <1>2, <1>3, <1>4, <1>5, <1>6 DEF WatchNext, watchVars

LEMMA InitFeedFacts == WatchInit => FeedFacts
BY InitFeedInv, InitStreamInv DEF WatchInit, FeedFacts

LEMMA NextFeedFacts == FeedFacts /\ AppTypeOK /\ [WatchNext]_watchVars => FeedFacts'
<1> SUFFICES ASSUME FeedFacts, AppTypeOK, [WatchNext]_watchVars PROVE FeedFacts'
  OBVIOUS
<1>1. [Next]_vars
  BY WatchersStep
<1>2. FeedInv'
  BY <1>1, NextFeedInv DEF FeedFacts
<1> QED
  BY <1>1, <1>2, NextStreamInv DEF FeedFacts, FeedInv

(* The feed under its applications is the feed of Watchers: what is proved *)
(* of Spec holds of WatchSpec too.                                         *)
THEOREM AppsUseTheFeed == WatchSpec => Spec
<1>1. WatchInit => Init /\ AppTypeOK /\ FeedFacts
  BY InitAppType, InitFeedFacts DEF WatchInit
<1>2. AppTypeOK /\ FeedFacts /\ [WatchNext]_watchVars => [Next]_vars /\ AppTypeOK' /\ FeedFacts'
  BY WatchersStep, NextAppType, NextFeedFacts DEF FeedFacts, FeedInv
<1> QED
  BY <1>1, <1>2, PTL DEF WatchSpec, Spec

(* The variables keep their types. *)
THEOREM WatchTypeCorrect == WatchSpec => []WatchTypeOK
<1>1. AppTypeOK /\ FeedFacts => WatchTypeOK
  BY DEF AppTypeOK, FeedFacts, FeedInv, WatchTypeOK
<1>2. AppTypeOK /\ FeedFacts /\ [WatchNext]_watchVars => AppTypeOK' /\ FeedFacts'
  BY NextAppType, NextFeedFacts DEF FeedFacts, FeedInv
<1> QED
  BY <1>1, <1>2, InitAppType, InitFeedFacts, PTL DEF WatchSpec

-----------------------------------------------------------------------------
(* Sequences of events. *)

LEMMA AppendRising ==
  ASSUME NEW s \in Seq(Event), NEW e \in Event, Rising(s), \A m \in 1 .. Len(s) : Older(s[m], e)
  PROVE  Rising(Append(s, e))
BY AppendProperties DEF Rising

LEMMA AppendFresh ==
  ASSUME NEW s \in Seq(Event), NEW e \in Event, NEW k, NEW n, Fresh(s, k, n),
         k[e.id] < e.rev, e.rev <= n[e.id]
  PROVE  Fresh(Append(s, e), k, n)
BY AppendProperties DEF Fresh

(* An event that moves from the head of q to the end of s. *)
LEMMA MoveHead ==
  ASSUME NEW s \in Seq(Event), NEW q \in Seq(Event), q # <<>>, NEW k, NEW n,
         Rising(s), Rising(q), Apart(s, q), Fresh(s, k, n), Fresh(q, k, n)
  PROVE  LET t == Append(s, Head(q)) IN
           /\ Rising(t) /\ Rising(Tail(q)) /\ Apart(t, Tail(q))
           /\ Fresh(t, k, n) /\ Fresh(Tail(q), k, n)
<1> DEFINE e == Head(q)
           r == Tail(q)
           t == Append(s, e)
<1>1. /\ e \in Event /\ r \in Seq(Event) /\ Len(r) = Len(q) - 1 /\ e = q[1] /\ Len(q) \in Nat \ {0}
      /\ \A m \in 1 .. Len(r) : r[m] = q[m + 1] /\ m + 1 \in 1 .. Len(q)
  BY HeadTailProperties, LenProperties
<1>2. /\ Len(t) = Len(s) + 1 /\ t[Len(s) + 1] = e /\ Len(s) \in Nat
      /\ \A m \in 1 .. Len(s) : t[m] = s[m]
  BY <1>1, AppendProperties, LenProperties
<1> HIDE DEF e, r, t
<1>3. Rising(r)
  BY <1>1 DEF Rising
<1>4. Fresh(r, k, n) /\ k[e.id] < e.rev /\ e.rev <= n[e.id]
  <2>1. \A j \in 1 .. Len(q) : k[q[j].id] < q[j].rev /\ q[j].rev <= n[q[j].id]
    BY DEF Fresh
  <2>2. 1 \in 1 .. Len(q)
    BY <1>1
  <2>3. k[e.id] < e.rev /\ e.rev <= n[e.id]
    BY <1>1, <2>1, <2>2
  <2>4. ASSUME NEW m \in 1 .. Len(r)
        PROVE  k[r[m].id] < r[m].rev /\ r[m].rev <= n[r[m].id]
    <3>1. r[m] = q[m + 1] /\ m + 1 \in 1 .. Len(q)
      BY <1>1
    <3> QED
      BY <2>1, <3>1
  <2> QED
    BY <2>3, <2>4 DEF Fresh
<1>5. \A m \in 1 .. Len(s) : Older(s[m], e)
  BY <1>1 DEF Apart
<1>6. Rising(t) /\ Fresh(t, k, n)
  BY <1>1, <1>4, <1>5, AppendRising, AppendFresh DEF t
<1>7. \A m \in 1 .. Len(r) : Older(e, r[m])
  BY <1>1 DEF Rising
<1>8. \A m \in 1 .. Len(s), j \in 1 .. Len(r) : Older(s[m], r[j])
  BY <1>1 DEF Apart
<1>9. Apart(t, r)
  BY <1>2, <1>7, <1>8 DEF Apart
<1> QED
  BY <1>3, <1>4, <1>6, <1>9 DEF e, r, t

(* An event yielded is known, and what follows is news still. *)
LEMMA YieldHead ==
  ASSUME NEW s \in Seq(Event), NEW q \in Seq(Event), s # <<>>,
         NEW k \in [Ids -> Nat], NEW n \in [Ids -> Nat],
         Rising(s), Apart(s, q), Fresh(s, k, n), Fresh(q, k, n)
  PROVE  LET e == Head(s)
             j == [k EXCEPT ![e.id] = e.rev] IN
           /\ Rising(Tail(s)) /\ Apart(Tail(s), q)
           /\ Fresh(Tail(s), j, n) /\ Fresh(q, j, n)
           /\ e.id \in Ids /\ e.rev <= n[e.id]
<1> DEFINE e == Head(s)
           r == Tail(s)
           j == [k EXCEPT ![e.id] = e.rev]
<1>1. /\ e \in Event /\ r \in Seq(Event) /\ e = s[1] /\ Len(s) \in Nat \ {0}
      /\ \A m \in 1 .. Len(r) : r[m] = s[m + 1] /\ m + 1 \in 1 .. Len(s) /\ r[m] \in Event
      /\ \A m \in 1 .. Len(q) : q[m] \in Event
  BY HeadTailProperties, LenProperties
<1>2. e.id \in Ids /\ e.rev \in Nat
  BY <1>1 DEF Event
<1>3. \A i \in Ids : j[i] = IF i = e.id THEN e.rev ELSE k[i]
  BY <1>2
<1>4. \A m \in 1 .. Len(s) : k[s[m].id] < s[m].rev /\ s[m].rev <= n[s[m].id]
  BY DEF Fresh
<1>5. \A m \in 1 .. Len(q) : k[q[m].id] < q[m].rev /\ q[m].rev <= n[q[m].id]
  BY DEF Fresh
<1>6. 1 \in 1 .. Len(s)
  BY <1>1
<1> HIDE DEF e, r, j
<1>7. Rising(r)
  BY <1>1 DEF Rising
<1>8. Apart(r, q)
  BY <1>1 DEF Apart
<1>9. ASSUME NEW m \in 1 .. Len(r)
      PROVE  j[r[m].id] < r[m].rev /\ r[m].rev <= n[r[m].id]
  <2>0. Len(r) \in Nat /\ 1 < m + 1
    BY <1>1, LenProperties
  <2>1. r[m] = s[m + 1] /\ m + 1 \in 1 .. Len(s) /\ r[m].id \in Ids /\ 1 < m + 1
    BY <1>1, <2>0 DEF Event
  <2>2. r[m].id = e.id => e.rev < r[m].rev
    BY <1>1, <1>6, <2>1 DEF Rising, Older
  <2> QED
    BY <1>3, <1>4, <2>1, <2>2
<1>10. ASSUME NEW m \in 1 .. Len(q)
       PROVE  j[q[m].id] < q[m].rev /\ q[m].rev <= n[q[m].id]
  <2>1. q[m].id \in Ids
    BY <1>1 DEF Event
  <2>2. q[m].id = e.id => e.rev < q[m].rev
    BY <1>1, <1>6 DEF Apart, Older
  <2> QED
    BY <1>3, <1>5, <2>1, <2>2
<1>11. e.rev <= n[e.id]
  BY <1>1, <1>4, <1>6
<1>12. Fresh(r, j, n) /\ Fresh(q, j, n)
  BY <1>9, <1>10 DEF Fresh
<1> QED
  BY <1>2, <1>7, <1>8, <1>11, <1>12 DEF e, r, j

(* A row's event that the feed has just emitted is newer than all before. *)
LEMMA NewestEvent ==
  ASSUME NEW s \in Seq(Event), NEW k \in [Ids -> Nat], NEW n \in [Ids -> Nat], NEW e \in Event,
         Fresh(s, k, n), n[e.id] < e.rev
  PROVE  /\ Fresh(s, k, [n EXCEPT ![e.id] = e.rev])
         /\ \A m \in 1 .. Len(s) : Older(s[m], e)
<1>1. e.id \in Ids /\ e.rev \in Nat
  BY DEF Event
<1>2. \A i \in Ids : [n EXCEPT ![e.id] = e.rev][i] = IF i = e.id THEN e.rev ELSE n[i]
  BY <1>1
<1>3. ASSUME NEW m \in 1 .. Len(s)
      PROVE  /\ k[s[m].id] < s[m].rev /\ s[m].rev <= [n EXCEPT ![e.id] = e.rev][s[m].id]
             /\ Older(s[m], e)
  <2>0. s[m] \in Event
    BY ElementOfSeq
  <2>1. s[m] \in Event /\ s[m].id \in Ids /\ s[m].rev \in Nat
    BY <2>0 DEF Event
  <2>2. k[s[m].id] < s[m].rev /\ s[m].rev <= n[s[m].id]
    BY DEF Fresh
  <2> QED
    BY <1>1, <1>2, <2>1, <2>2 DEF Older
<1> QED
  BY <1>3 DEF Fresh

-----------------------------------------------------------------------------
LEMMA InitNewsInv == WatchInit => NewsInv
BY DEF WatchInit, Init, NewsInv

(* A step preserves NewsInv. *)
LEMMA NextNewsInv == FeedFacts /\ AppTypeOK /\ NewsInv /\ [WatchNext]_watchVars => NewsInv'
<1> SUFFICES ASSUME FeedFacts, AppTypeOK, NewsInv, [WatchNext]_watchVars PROVE NewsInv'
  OBVIOUS
<1> USE SdkWatchConstantsOK
<1>0. /\ conn \in [Conns -> {"closed", "streaming", "gone"}] /\ queue \in [Conns -> Seq(Event)]
      /\ emitted \in [Ids -> Nat] /\ batch \in SUBSET Event
      /\ via \in [Apps -> Conns \cup {NoConn}] /\ unread \in [Apps -> Seq(Event)]
      /\ known \in [Apps -> [Ids -> Nat]]
  BY DEF FeedFacts, FeedInv, TypeOK, AppTypeOK
<1>1. ASSUME UNCHANGED <<conn, queue, emitted, sdkVars>>
      PROVE  NewsInv'
  BY <1>1 DEF NewsInv, sdkVars
<1>2. ASSUME Tick \/ CommitWrite \/ RollbackWrite, UNCHANGED sdkVars
      PROVE  NewsInv'
  BY <1>1, <1>2 DEF Tick, CommitWrite, RollbackWrite, streams, watermark
<1>3. ASSUME NEW i \in Ids, BeginWrite(i), UNCHANGED sdkVars
      PROVE  NewsInv'
  BY <1>1, <1>3 DEF BeginWrite, streams, watermark
<1>4. ASSUME NEW t \in Tasks, CancelDelivered(t) \/ PollSelect(t) \/ PollFail(t), UNCHANGED sdkVars
      PROVE  NewsInv'
  BY <1>1, <1>4 DEF CancelDelivered, PollSelect, PollFail, streams, watermark
<1>5. ASSUME EmitOne, UNCHANGED sdkVars
      PROVE  NewsInv'
  <2>1. PICK e \in batch :
          /\ queue' = [c \in Conns |-> IF c \in Watchers /\ e.id \in Interest[c]
                                       THEN Append(queue[c], e) ELSE queue[c]]
          /\ emitted' = [emitted EXCEPT ![e.id] = e.rev]
          /\ UNCHANGED conn
    BY <1>5 DEF EmitOne
  <2>2. e \in Event /\ e.id \in Ids /\ e.rev \in Nat /\ emitted[e.id] < e.rev
    BY <1>0 DEF FeedFacts, FeedInv, BatchInv, Event
  <2>3. \A i \in Ids : emitted'[i] = IF i = e.id THEN e.rev ELSE emitted[i]
    BY <1>0, <2>1, <2>2
  <2>4. ASSUME NEW p \in Apps, NEW i \in Ids
        PROVE  known'[p][i] <= emitted'[i]
    <3>1. known'[p][i] = known[p][i] /\ known[p][i] <= emitted[i]
      BY <1>5 DEF NewsInv, sdkVars
    <3>2. known[p][i] \in Nat /\ emitted[i] \in Nat
      BY <1>0
    <3> QED
      BY <2>2, <2>3, <3>1, <3>2
  <2>5. ASSUME NEW p \in Apps, NEW c \in Conns, via[p] = c, conn[c] = "streaming"
        PROVE  /\ Fresh(unread[p], known[p], emitted') /\ Fresh(queue'[c], known[p], emitted')
               /\ Rising(queue'[c]) /\ Apart(unread[p], queue'[c])
    <3>1. /\ Fresh(unread[p], known[p], emitted) /\ Fresh(queue[c], known[p], emitted)
          /\ Rising(queue[c]) /\ Apart(unread[p], queue[c])
      BY <2>5 DEF NewsInv
    <3>2. unread[p] \in Seq(Event) /\ queue[c] \in Seq(Event) /\ known[p] \in [Ids -> Nat]
      BY <1>0
    <3>3. /\ Fresh(unread[p], known[p], emitted') /\ Fresh(queue[c], known[p], emitted')
          /\ \A m \in 1 .. Len(unread[p]) : Older(unread[p][m], e)
          /\ \A m \in 1 .. Len(queue[c]) : Older(queue[c][m], e)
      BY <1>0, <2>1, <2>2, <3>1, <3>2, NewestEvent
    <3>4. CASE queue'[c] = queue[c]
      BY <3>1, <3>3, <3>4
    <3>5. CASE queue'[c] = Append(queue[c], e)
      <4>1. Rising(queue'[c])
        BY <2>2, <3>1, <3>2, <3>3, <3>5, AppendRising
      <4>2. known[p][e.id] < e.rev /\ e.rev <= emitted'[e.id]
        BY <1>0, <2>2, <2>3, <3>2 DEF NewsInv
      <4>3. Fresh(queue'[c], known[p], emitted')
        BY <2>2, <3>2, <3>3, <3>5, <4>2, AppendFresh
      <4>4. Apart(unread[p], queue'[c])
        BY <2>2, <3>1, <3>2, <3>3, <3>5, AppendProperties DEF Apart
      <4> QED
        BY <3>3, <4>1, <4>3, <4>4
    <3> QED
      BY <2>1, <3>4, <3>5
  <2> QED
    BY <1>5, <2>1, <2>4, <2>5 DEF NewsInv, sdkVars
<1>6. ASSUME NEW c \in Conns, Unsubscribe(c), UNCHANGED sdkVars
      PROVE  NewsInv'
  <2>1. /\ conn' = [conn EXCEPT ![c] = "closed"] /\ queue' = [queue EXCEPT ![c] = <<>>]
        /\ emitted' = emitted
    BY <1>6 DEF Unsubscribe, watermark
  <2> QED
    BY <1>0, <1>6, <2>1 DEF NewsInv, sdkVars
<1>7. ASSUME NEW p \in Apps, NEW c \in Conns, Open(p, c)
      PROVE  NewsInv'
  <2>1. /\ conn[c] = "closed" /\ conn' = [conn EXCEPT ![c] = "streaming"]
        /\ queue' = queue /\ emitted' = emitted
        /\ via[p] = NoConn /\ via' = [via EXCEPT ![p] = c] /\ UNCHANGED <<unread, known>>
    BY <1>7 DEF Open, Subscribe, watermark
  <2>2. queue[c] = <<>> /\ unread[p] = <<>>
    BY <2>1 DEF FeedFacts, StreamInv, NewsInv
  <2>3. /\ via'[p] = c /\ conn'[c] = "streaming"
        /\ \A q \in Apps : q # p => via'[q] = via[q]
        /\ \A d \in Conns : d # c => conn'[d] = conn[d]
    BY <1>0, <2>1
  <2>4. c # NoConn /\ c \in ConnsOf[p]
    BY <1>7 DEF Open
  <2>5. \A q \in Apps : q # p => via[q] # c
    BY <2>4 DEF NewsInv
  <2> QED
    BY <2>1, <2>2, <2>3, <2>4, <2>5 DEF NewsInv, Fresh, Rising, Apart

<1>8. ASSUME NEW p \in Apps, Yield(p)
      PROVE  NewsInv'
  <2> DEFINE e == Head(unread[p])
             r == Tail(unread[p])
             k == [known[p] EXCEPT ![e.id] = e.rev]
  <2>1. unread[p] # <<>> /\ unread[p] \in Seq(Event) /\ known[p] \in [Ids -> Nat]
    BY <1>0, <1>8 DEF Yield
  <2>2. via[p] \in Conns
    BY <1>0, <2>1 DEF NewsInv
  <2>3. e \in Event /\ e.id \in Ids /\ e.rev \in Nat
    <3>1. e \in Event
      BY <2>1, HeadTailProperties
    <3> QED
      BY <3>1 DEF Event
  <2>4. /\ unread' = [unread EXCEPT ![p] = r]
        /\ UNCHANGED <<conn, queue, emitted, via>>
        /\ known' = IF Reading(p) THEN [known EXCEPT ![p] = k] ELSE known
    <3>1. /\ unread' = [unread EXCEPT ![p] = r] /\ UNCHANGED <<vars, via>>
          /\ known' = [known EXCEPT ![p][e.id] = IF Reading(p) THEN e.rev ELSE @]
      BY <1>8 DEF Yield
    <3>2. CASE Reading(p)
      <4>1. known' = [known EXCEPT ![p][e.id] = e.rev]
        BY <3>1, <3>2
      <4>2. known' = [known EXCEPT ![p] = k]
        BY <1>0, <2>3, <4>1
      <4> QED
        BY <3>1, <3>2, <4>2 DEF vars, streams, watermark
    <3>3. CASE ~ Reading(p)
      <4>1. known' = [known EXCEPT ![p][e.id] = known[p][e.id]]
        BY <3>1, <3>3
      <4>2. known' = known
        BY <1>0, <2>3, <4>1
      <4> QED
        BY <3>1, <3>3, <4>2 DEF vars, streams, watermark
    <3> QED
      BY <3>2, <3>3
  <2>5. /\ unread'[p] = r
        /\ \A q \in Apps : q # p => unread'[q] = unread[q] /\ known'[q] = known[q]
    BY <1>0, <2>4
  <2>6. CASE ~ Reading(p)
    BY <2>2, <2>4, <2>5, <2>6 DEF NewsInv, Reading
  <2>7. CASE Reading(p)
    <3>1. /\ Rising(unread[p]) /\ Apart(unread[p], queue[via[p]]) /\ Rising(queue[via[p]])
          /\ Fresh(unread[p], known[p], emitted) /\ Fresh(queue[via[p]], known[p], emitted)
          /\ queue[via[p]] \in Seq(Event)
      BY <1>0, <2>2, <2>7 DEF Reading, NewsInv
    <3>2. /\ Rising(r) /\ Apart(r, queue[via[p]]) /\ Fresh(r, k, emitted)
          /\ Fresh(queue[via[p]], k, emitted) /\ e.rev <= emitted[e.id]
      BY <1>0, <2>1, <3>1, YieldHead
    <3>3. known'[p] = k /\ k \in [Ids -> Nat]
      BY <1>0, <2>1, <2>3, <2>4, <2>7
    <3>4. \A i \in Ids : k[i] <= emitted[i]
      BY <1>0, <2>1, <2>3, <3>2 DEF NewsInv
    <3> HIDE DEF e, r, k
    <3> QED
      BY <2>2, <2>4, <2>5, <3>1, <3>2, <3>3, <3>4 DEF NewsInv
  <2> QED
    BY <2>6, <2>7
<1>9. ASSUME NEW p \in Apps, Leave(p) \/ StreamFails(p)
      PROVE  NewsInv'
  <2>1. /\ via[p] # NoConn /\ via' = [via EXCEPT ![p] = NoConn]
        /\ unread' = [unread EXCEPT ![p] = <<>>] /\ known' = known
        /\ UNCHANGED <<queue, emitted>>
        /\ conn' = conn \/ conn' = [conn EXCEPT ![via[p]] = "gone"]
    BY <1>9 DEF Leave, StreamFails, Close, Disconnect, vars, streams, watermark
  <2>2. /\ via'[p] = NoConn /\ unread'[p] = <<>>
        /\ \A q \in Apps : q # p => via'[q] = via[q] /\ unread'[q] = unread[q]
        /\ \A c \in Conns : conn'[c] = "streaming" => conn[c] = "streaming"
    BY <1>0, <2>1
  <2> QED
    BY <2>1, <2>2 DEF NewsInv
<1>10. ASSUME NEW c \in Conns, Send(c)
       PROVE  NewsInv'
  <2>1. /\ conn[c] = "streaming" /\ queue[c] # <<>> /\ queue' = [queue EXCEPT ![c] = Tail(@)]
        /\ UNCHANGED <<conn, emitted, via, known>>
        /\ unread' = [q \in Apps |-> IF via[q] = c THEN Append(unread[q], Head(queue[c]))
                                     ELSE unread[q]]
    BY <1>10 DEF Send, Deliver, watermark
  <2>2. /\ queue'[c] = Tail(queue[c])
        /\ \A d \in Conns : d # c => queue'[d] = queue[d]
        /\ \A q \in Apps : unread'[q] = IF via[q] = c THEN Append(unread[q], Head(queue[c]))
                                        ELSE unread[q]
    BY <1>0, <2>1
  <2>3. ASSUME NEW q \in Apps, via[q] = c
        PROVE  /\ Rising(unread'[q]) /\ Rising(queue'[c]) /\ Apart(unread'[q], queue'[c])
               /\ Fresh(unread'[q], known[q], emitted) /\ Fresh(queue'[c], known[q], emitted)
    <3>1. /\ Rising(unread[q]) /\ Rising(queue[c]) /\ Apart(unread[q], queue[c])
          /\ Fresh(unread[q], known[q], emitted) /\ Fresh(queue[c], known[q], emitted)
          /\ unread[q] \in Seq(Event) /\ queue[c] \in Seq(Event)
      BY <1>0, <2>1, <2>3 DEF NewsInv
    <3>2. unread'[q] = Append(unread[q], Head(queue[c])) /\ queue'[c] = Tail(queue[c])
      BY <2>2, <2>3
    <3> QED
      BY <2>1, <3>1, <3>2, MoveHead
  <2> QED
    BY <2>1, <2>2, <2>3 DEF NewsInv
<1>11. CASE Restart
  BY <1>0, <1>11 DEF Restart, Crash, NewsInv
<1>12. CASE UNCHANGED watchVars
  BY <1>1, <1>12 DEF watchVars, vars, streams, watermark
<1> QED
  BY <1>2, <1>3, <1>4, <1>5, <1>6, <1>7, <1>8, <1>9, <1>10, <1>11, <1>12
     DEF WatchNext, ServerStep

(* What a client is about to be told is news to it, over all the streams   *)
(* it opens while the service lives.                                       *)
LEMMA NewsInvImplies == FeedFacts /\ AppTypeOK /\ NewsInv => NewsOnly
<1> SUFFICES ASSUME FeedFacts, AppTypeOK, NewsInv, NEW p \in Apps, Reading(p)
             PROVE  LET stream == unread[p] \o queue[via[p]] IN
                      /\ \A n \in 1 .. Len(stream) : stream[n].rev > known[p][stream[n].id]
                      /\ \A m, n \in 1 .. Len(stream) :
                           m < n /\ stream[m].id = stream[n].id => stream[m].rev < stream[n].rev
  BY DEF NewsOnly
<1> DEFINE s == unread[p]
           q == queue[via[p]]
           t == s \o q
<1>1. /\ s \in Seq(Event) /\ q \in Seq(Event) /\ known[p] \in [Ids -> Nat]
      /\ Rising(s) /\ Rising(q) /\ Apart(s, q)
      /\ Fresh(s, known[p], emitted) /\ Fresh(q, known[p], emitted)
  BY DEF FeedFacts, FeedInv, TypeOK, AppTypeOK, Reading, NewsInv
<1>2. /\ Len(s) \in Nat /\ Len(q) \in Nat /\ Len(t) = Len(s) + Len(q) /\ t \in Seq(Event)
      /\ \A n \in 1 .. Len(t) : t[n] = IF n <= Len(s) THEN s[n] ELSE q[n - Len(s)]
  BY <1>1, ConcatProperties, LenProperties
<1> HIDE DEF s, q, t
<1>3. ASSUME NEW n \in 1 .. Len(t)
      PROVE  /\ t[n] \in Event
             /\ n <= Len(s) => n \in 1 .. Len(s) /\ t[n] = s[n]
             /\ ~ n <= Len(s) => n - Len(s) \in 1 .. Len(q) /\ t[n] = q[n - Len(s)]
  BY <1>2, ElementOfSeq
<1>4. ASSUME NEW n \in 1 .. Len(t)
      PROVE  t[n].rev > known[p][t[n].id]
  <2>1. t[n].rev \in Nat /\ t[n].id \in Ids /\ known[p][t[n].id] \in Nat
    BY <1>1, <1>3 DEF Event
  <2>2. known[p][t[n].id] < t[n].rev
    BY <1>1, <1>3 DEF Fresh
  <2> QED
    BY <2>1, <2>2
<1>5. ASSUME NEW m \in 1 .. Len(t), NEW n \in 1 .. Len(t), m < n, t[m].id = t[n].id
      PROVE  t[m].rev < t[n].rev
  <2>1. CASE n <= Len(s)
    <3>1. m <= Len(s)
      BY <1>2, <1>5, <2>1
    <3> QED
      BY <1>1, <1>3, <1>5, <2>1, <3>1 DEF Rising, Older
  <2>2. CASE m <= Len(s) /\ ~ n <= Len(s)
    BY <1>1, <1>3, <1>5, <2>2 DEF Apart, Older
  <2>3. CASE ~ m <= Len(s)
    <3>1. ~ n <= Len(s) /\ m - Len(s) < n - Len(s)
      BY <1>2, <1>5, <2>3
    <3> QED
      BY <1>1, <1>3, <1>5, <2>3, <3>1 DEF Rising, Older
  <2> QED
    BY <2>1, <2>2, <2>3
<1> QED
  BY <1>4, <1>5 DEF s, q, t

(* As long as the service is not restarted, no application is told again   *)
(* what it has heard, or an older state of a key than it knows, through    *)
(* any number of streams.                                                  *)
THEOREM OnlyNewsIsTold == WatchSpec => []NewsOnly
<1> DEFINE Inv == FeedFacts /\ AppTypeOK /\ NewsInv
<1>1. WatchInit => Inv
  BY InitFeedFacts, InitAppType, InitNewsInv
<1>2. Inv /\ [WatchNext]_watchVars => Inv'
  BY NextFeedFacts, NextAppType, NextNewsInv DEF FeedFacts, FeedInv
<1>3. Inv => NewsOnly
  BY NewsInvImplies
<1> QED
  BY <1>1, <1>2, <1>3, PTL DEF WatchSpec
-----------------------------------------------------------------------------
(* NothingDropped: what moves on the way to an application. *)

LEMMA RangeOfAppend ==
  ASSUME NEW s \in Seq(Event), NEW e \in Event
  PROVE  Range(Append(s, e)) = Range(s) \cup {e}
<1>1. /\ Append(s, e) \in Seq(Event) /\ Len(s) \in Nat /\ Len(Append(s, e)) = Len(s) + 1
      /\ Append(s, e)[Len(s) + 1] = e /\ \A m \in 1 .. Len(s) : Append(s, e)[m] = s[m]
  BY AppendProperties, LenProperties
<1>2. /\ Range(s) = {s[m] : m \in 1 .. Len(s)}
      /\ Range(Append(s, e)) = {Append(s, e)[m] : m \in 1 .. Len(Append(s, e))}
  BY <1>1, RangeEquality
<1>3. \A m \in 1 .. Len(Append(s, e)) : m \in 1 .. Len(s) \/ m = Len(s) + 1
  BY <1>1
<1>4. Len(s) + 1 \in 1 .. Len(Append(s, e)) /\ \A m \in 1 .. Len(s) : m \in 1 .. Len(Append(s, e))
  BY <1>1
<1> HIDE <1>2
<1>5. \A x : x \in Range(s) => x \in Range(Append(s, e))
  BY <1>1, <1>2, <1>4
<1>6. \A x : x \in Range(Append(s, e)) => x \in Range(s) \/ x = e
  BY <1>1, <1>2, <1>3
<1>7. e \in Range(Append(s, e))
  BY <1>1, <1>2, <1>4
<1> QED
  BY <1>5, <1>6, <1>7

LEMMA RangeOfHeadTail ==
  ASSUME NEW s \in Seq(Event), s # <<>>
  PROVE  Range(s) = {Head(s)} \cup Range(Tail(s))
<1>1. /\ Head(s) = s[1] /\ Tail(s) \in Seq(Event) /\ Len(s) \in Nat \ {0}
      /\ Len(Tail(s)) = Len(s) - 1 /\ \A m \in 1 .. Len(Tail(s)) : Tail(s)[m] = s[m + 1]
  BY HeadTailProperties, LenProperties
<1>2. /\ Range(s) = {s[m] : m \in 1 .. Len(s)}
      /\ Range(Tail(s)) = {Tail(s)[m] : m \in 1 .. Len(Tail(s))}
  BY <1>1, RangeEquality
<1>3. 1 \in 1 .. Len(s) /\ \A m \in 1 .. Len(Tail(s)) : m + 1 \in 1 .. Len(s)
  BY <1>1
<1>4. \A x : x = Head(s) \/ x \in Range(Tail(s)) => x \in Range(s)
  BY <1>1, <1>2, <1>3
<1>5. ASSUME NEW m \in 1 .. Len(s)
      PROVE  s[m] = Head(s) \/ s[m] \in Range(Tail(s))
  <2>1. m = 1 \/ (m - 1 \in 1 .. Len(Tail(s)) /\ m = (m - 1) + 1)
    BY <1>1
  <2> QED
    BY <1>1, <1>2, <2>1
<1>6. \A x : x \in Range(s) => x = Head(s) \/ x \in Range(Tail(s))
  BY <1>2, <1>5
<1> QED
  BY <1>4, <1>6

(* A step that leaves alone what p's events go through. *)
LEMMA UntouchedStep ==
  ASSUME NEW p, NEW i, NEW r, OnItsWay(p, i, r), via'[p] = via[p],
         queue'[via[p]] = queue[via[p]], unread'[p] = unread[p], known'[p] = known[p],
         UNCHANGED <<rows, lastAt, lastId, batch>>
  PROVE  OnItsWay(p, i, r)'
BY DEF OnItsWay, Findable, Changed

(* A commit replaces what a poll would find by a later state. *)
LEMMA CommitDropsNothing ==
  ASSUME FeedFacts, CommitWrite, NEW p, NEW i \in Ids, NEW r \in Nat, OnItsWay(p, i, r),
         UNCHANGED sdkVars
  PROVE  OnItsWay(p, i, r)'
<1>1. /\ TypeOK /\ TypeOK' /\ ClockInv /\ txn # NoTxn /\ txn \in Txn
      /\ rows' = [rows EXCEPT ![txn.id] = [at |-> txn.at, rev |-> Rev(txn.id) + 1]]
      /\ UNCHANGED <<queue, lastAt, lastId, batch>>
  <2>1. TypeOK /\ ClockInv /\ [Next]_vars
    BY DEF FeedFacts, FeedInv, Next
  <2> QED
    BY <2>1, NextType DEF CommitWrite, TypeOK, streams, watermark
<1>2. CASE ~ (Findable(i) /\ rows[i].rev >= r)
  BY <1>1, <1>2 DEF OnItsWay, sdkVars
<1>3. CASE Findable(i) /\ rows[i].rev >= r
  <2>1. rows[i] # NoRow /\ rows[i].at > lastAt /\ rows[i] \in Row
    BY <1>1, <1>3, ChangedIsLater DEF Findable, TypeOK
  <2>2. \A e \in batch : e.at < rows[i].at /\ e.at \in Nat
    BY <1>1, <1>3 DEF Findable, TypeOK, Event
  <2>3. rows'[i] # NoRow /\ rows'[i].at >= rows[i].at /\ rows'[i].rev >= rows[i].rev
    <3>1. CASE i # txn.id
      BY <1>1, <2>1, <3>1 DEF TypeOK, Row
    <3>2. CASE i = txn.id
      <4>1. rows'[i] = [at |-> txn.at, rev |-> rows[i].rev + 1]
        BY <1>1, <2>1, <3>2 DEF TypeOK, Rev
      <4>2. txn.at \in Nat /\ rows[i].at <= txn.at
        BY <1>1, <2>1 DEF ClockInv, Txn
      <4>3. rows'[i] \in Row
        BY <2>1, <4>1, <4>2 DEF Row
      <4> QED
        BY <2>1, <4>1, <4>2, <4>3, ConstantsOK DEF Row
    <3> QED
      BY <3>1, <3>2
  <2>4. rows'[i] \in Row
    BY <1>1, <2>3 DEF TypeOK
  <2>5. rows'[i].at > lastAt' /\ rows'[i].rev >= r /\ \A e \in batch' : e.at < rows'[i].at
    <3>1. /\ rows[i].at \in Nat /\ rows[i].rev \in Nat /\ rows'[i].at \in Nat
          /\ rows'[i].rev \in Nat /\ lastAt \in Nat /\ rows[i].rev >= r
      BY <1>1, <1>3, <2>1, <2>4 DEF Row, TypeOK
    <3>2. lastAt' = lastAt /\ batch' = batch
      BY <1>1
    <3> QED
      BY <2>1, <2>2, <2>3, <3>1, <3>2
  <2>6. Changed(i)'
    BY <1>1, <2>3, <2>5, LaterThanMark
  <2> QED
    BY <2>5, <2>6 DEF OnItsWay, Findable
<1> QED
  BY <1>2, <1>3

(* What a poll finds is in its batch. *)
LEMMA SelectDropsNothing ==
  ASSUME FeedFacts, NEW t \in Tasks, PollSelect(t), NEW p, NEW i \in Ids, NEW r \in Nat,
         OnItsWay(p, i, r), UNCHANGED sdkVars
  PROVE  OnItsWay(p, i, r)'
<1>1. /\ batch = {} /\ UNCHANGED <<rows, queue, lastAt, lastId>>
      /\ batch' = {[id |-> j, at |-> rows[j].at, rev |-> rows[j].rev] : j \in {k \in Ids : Changed(k)}}
  BY DEF PollSelect, LoopFree, store, streams, watermark
<1>2. CASE ~ (Findable(i) /\ rows[i].rev >= r)
  BY <1>1, <1>2 DEF OnItsWay, sdkVars
<1>3. CASE Findable(i) /\ rows[i].rev >= r
  <2>1. [id |-> i, at |-> rows[i].at, rev |-> rows[i].rev] \in batch'
    BY <1>1, <1>3 DEF Findable
  <2> QED
    BY <1>3, <2>1 DEF OnItsWay
<1> QED
  BY <1>2, <1>3

(* An event emitted is put on the queue of everyone who watches its row,   *)
(* and the watermark stays below what this poll did not find.              *)
LEMMA EmissionDropsNothing ==
  ASSUME FeedFacts, AppTypeOK, EmitOne, NEW p \in Apps, NEW i \in Ids, NEW r \in Nat,
         Listens(p, i), OnItsWay(p, i, r), UNCHANGED sdkVars
  PROVE  OnItsWay(p, i, r)'
<1>0. TypeOK /\ TypeOK'
  <2>1. TypeOK /\ [Next]_vars
    BY DEF FeedFacts, FeedInv, Next
  <2> QED
    BY <2>1, NextType
<1>1. PICK e \in batch :
        /\ lastAt' = e.at /\ batch' = batch \ {e} /\ UNCHANGED <<rows, conn>>
        /\ queue' = [c \in Conns |-> IF c \in Watchers /\ e.id \in Interest[c]
                                     THEN Append(queue[c], e) ELSE queue[c]]
  BY DEF EmitOne, store
<1>2. e \in Event /\ e.at \in Nat
  BY <1>0 DEF TypeOK, Event
<1>3. via[p] \in Conns /\ via[p] \in Watchers /\ i \in Interest[via[p]] /\ queue[via[p]] \in Seq(Event)
  BY <1>0 DEF Listens, Reading, AppTypeOK, Watchers, TypeOK
<1>4. Range(queue'[via[p]]) = IF e.id \in Interest[via[p]] THEN Range(queue[via[p]]) \cup {e}
                              ELSE Range(queue[via[p]])
  BY <1>1, <1>2, <1>3, RangeOfAppend
<1>5. CASE Findable(i) /\ rows[i].rev >= r
  <2>1. rows[i] # NoRow /\ e.at < rows[i].at /\ \A f \in batch : f.at < rows[i].at
    BY <1>5 DEF Findable, Changed
  <2>2. rows[i] \in Row /\ rows[i].at \in Nat
    BY <1>0, <2>1 DEF TypeOK, Row
  <2>3. Changed(i)'
    BY <1>0, <1>1, <1>2, <2>1, <2>2, LaterThanMark
  <2> QED
    BY <1>1, <1>5, <2>1, <2>3 DEF OnItsWay, Findable
<1>6. CASE e.id = i /\ e.rev >= r
  <2>1. e \in Range(queue'[via[p]])
    BY <1>3, <1>4, <1>6
  <2> QED
    BY <1>6, <2>1 DEF OnItsWay, sdkVars
<1>7. CASE /\ ~ (Findable(i) /\ rows[i].rev >= r)
           /\ ~ (e.id = i /\ e.rev >= r)
  <2>1. \/ \E f \in batch \cup Range(queue[via[p]]) \cup Range(unread[p]) : f.id = i /\ f.rev >= r
        \/ known[p][i] >= r
    BY <1>7 DEF OnItsWay
  <2>2. CASE known[p][i] >= r
    BY <2>2 DEF OnItsWay, sdkVars
  <2>3. CASE \E f \in batch \cup Range(queue[via[p]]) \cup Range(unread[p]) : f.id = i /\ f.rev >= r
    <3>1. PICK f \in batch \cup Range(queue[via[p]]) \cup Range(unread[p]) : f.id = i /\ f.rev >= r
      BY <2>3
    <3>2. f \in batch' \cup Range(queue'[via[p]]) \cup Range(unread[p])
      BY <1>1, <1>4, <1>7, <3>1
    <3> QED
      BY <3>1, <3>2 DEF OnItsWay, sdkVars
  <2> QED
    BY <2>1, <2>2, <2>3
<1> QED
  BY <1>5, <1>6, <1>7

(* An event taken off the queue of p's stream is sent to p. *)
LEMMA SendDropsNothing ==
  ASSUME FeedFacts, AppTypeOK, NEW c \in Conns, Send(c), NEW p \in Apps, NEW i \in Ids,
         NEW r \in Nat, Listens(p, i), OnItsWay(p, i, r)
  PROVE  OnItsWay(p, i, r)'
<1>1. /\ queue[c] # <<>> /\ queue' = [queue EXCEPT ![c] = Tail(@)]
      /\ UNCHANGED <<rows, lastAt, lastId, batch, via, known>>
      /\ unread' = [q \in Apps |-> IF via[q] = c THEN Append(unread[q], Head(queue[c]))
                                   ELSE unread[q]]
  BY DEF Send, Deliver, store, watermark
<1>2. /\ queue \in [Conns -> Seq(Event)] /\ via[p] \in Conns /\ unread[p] \in Seq(Event)
  BY DEF FeedFacts, FeedInv, TypeOK, AppTypeOK, Listens, Reading
<1>3. CASE via[p] # c
  BY <1>1, <1>2, <1>3, UntouchedStep
<1>4. CASE via[p] = c
  <2>1. Head(queue[c]) \in Event
    BY <1>1, <1>2, HeadTailProperties
  <2>2. Range(queue[c]) = {Head(queue[c])} \cup Range(queue'[c])
    BY <1>1, <1>2, RangeOfHeadTail
  <2>3. Range(unread'[p]) = Range(unread[p]) \cup {Head(queue[c])}
    BY <1>1, <1>2, <1>4, <2>1, RangeOfAppend
  <2>4. Findable(i)' <=> Findable(i)
    BY <1>1 DEF Findable, Changed
  <2>5. batch' \cup Range(queue'[c]) \cup Range(unread'[p])
          = batch \cup Range(queue[c]) \cup Range(unread[p])
    BY <1>1, <2>2, <2>3
  <2> QED
    BY <1>1, <1>4, <2>4, <2>5 DEF OnItsWay
<1> QED
  BY <1>3, <1>4

(* What p reads it knows, and it never unlearns. *)
LEMMA YieldDropsNothing ==
  ASSUME FeedFacts, AppTypeOK, NewsInv, NEW q \in Apps, Yield(q), NEW p \in Apps, NEW i \in Ids,
         NEW r \in Nat, Listens(p, i), OnItsWay(p, i, r)
  PROVE  OnItsWay(p, i, r)'
<1>0. /\ via[p] \in Conns /\ Reading(p) /\ conn[via[p]] = "streaming" /\ unread[p] \in Seq(Event)
      /\ known \in [Apps -> [Ids -> Nat]] /\ unread \in [Apps -> Seq(Event)]
  BY DEF FeedFacts, FeedInv, TypeOK, AppTypeOK, Listens, Reading
<1> DEFINE e == Head(unread[q])
           v == IF Reading(q) THEN e.rev ELSE known[q][e.id]
<1>1. /\ unread[q] # <<>> /\ unread' = [unread EXCEPT ![q] = Tail(@)]
      /\ known' = [known EXCEPT ![q][e.id] = v]
      /\ UNCHANGED <<rows, lastAt, lastId, batch, queue, via>>
  BY DEF Yield, vars, store, streams, watermark
<1>2. CASE q # p
  <2>1. unread'[p] = unread[p] /\ known'[p] = known[p]
    BY <1>0, <1>1, <1>2
  <2> QED
    BY <1>1, <2>1, UntouchedStep
<1>3. CASE q = p
  <2>1. e \in Event /\ e.id \in Ids /\ e.rev \in Nat
    <3>1. e \in Event
      BY <1>0, <1>1, HeadTailProperties
    <3> QED
      BY <3>1 DEF Event
  <2>2. known'[p] = [known[p] EXCEPT ![e.id] = e.rev] /\ known[p] \in [Ids -> Nat]
    <3>1. v = e.rev
      BY <1>0, <1>3
    <3> HIDE DEF e, v
    <3> QED
      BY <1>0, <1>1, <1>3, <2>1, <3>1
  <2>3. known[p][e.id] < e.rev
    <3>1. Fresh(unread[p], known[p], emitted)
      BY <1>0 DEF NewsInv
    <3>2. Len(unread[p]) \in Nat \ {0} /\ e = unread[p][1]
      BY <1>0, <1>1, <1>3, HeadTailProperties, LenProperties
    <3> QED
      BY <3>1, <3>2 DEF Fresh
  <2>4. Range(unread[p]) = {e} \cup Range(unread'[p])
    BY <1>0, <1>1, <1>3, RangeOfHeadTail
  <2> HIDE DEF e, v
  <2>5. known'[p][i] \in Nat /\ known[p][i] \in Nat /\ known'[p][i] >= known[p][i]
        /\ (e.id = i => known'[p][i] = e.rev)
    BY <2>1, <2>2, <2>3
  <2>6. Findable(i)' <=> Findable(i)
    BY <1>1 DEF Findable, Changed
  <2>7. CASE known[p][i] >= r
    BY <2>5, <2>7 DEF OnItsWay
  <2>8. CASE Findable(i) /\ rows[i].rev >= r
    BY <1>1, <2>6, <2>8 DEF OnItsWay
  <2>9. CASE e.id = i /\ e.rev >= r
    BY <2>5, <2>9 DEF OnItsWay
  <2>10. ASSUME NEW f \in batch \cup Range(queue[via[p]]) \cup Range(unread[p]), f.id = i, f.rev >= r, f # e
         PROVE  OnItsWay(p, i, r)'
    <3>1. f \in batch' \cup Range(queue'[via'[p]]) \cup Range(unread'[p])
      BY <1>1, <2>4, <2>10
    <3> QED
      BY <2>10, <3>1 DEF OnItsWay
  <2> QED
    BY <2>7, <2>8, <2>9, <2>10 DEF OnItsWay
<1> QED
  BY <1>2, <1>3

LEMMA NextDropsNothing ==
  ASSUME FeedFacts, AppTypeOK, NewsInv, [WatchNext]_watchVars, NEW p \in Apps, NEW i \in Ids,
         NEW r \in Nat, Listens(p, i), OnItsWay(p, i, r), Listens(p, i)'
  PROVE  OnItsWay(p, i, r)'
<1> USE SdkWatchConstantsOK
<1>0. /\ via \in [Apps -> Conns \cup {NoConn}] /\ unread \in [Apps -> Seq(Event)]
      /\ queue \in [Conns -> Seq(Event)] /\ conn \in [Conns -> {"closed", "streaming", "gone"}]
      /\ via[p] \in Conns /\ conn[via[p]] = "streaming" /\ via'[p] # NoConn
      /\ conn'[via'[p]] = "streaming"
  BY DEF FeedFacts, FeedInv, TypeOK, AppTypeOK, Listens, Reading
<1>1. ASSUME UNCHANGED <<queue, rows, lastAt, lastId, batch, sdkVars>>
      PROVE  OnItsWay(p, i, r)'
  BY <1>1, UntouchedStep DEF sdkVars
<1>2. ASSUME Tick \/ RollbackWrite, UNCHANGED sdkVars
      PROVE  OnItsWay(p, i, r)'
  BY <1>1, <1>2 DEF Tick, RollbackWrite, streams, watermark
<1>3. ASSUME NEW j \in Ids, BeginWrite(j), UNCHANGED sdkVars
      PROVE  OnItsWay(p, i, r)'
  BY <1>1, <1>3 DEF BeginWrite, streams, watermark
<1>4. ASSUME NEW t \in Tasks, CancelDelivered(t) \/ PollFail(t), UNCHANGED sdkVars
      PROVE  OnItsWay(p, i, r)'
  BY <1>1, <1>4 DEF CancelDelivered, PollFail, store, streams, watermark
<1>5. ASSUME NEW c \in Conns, Unsubscribe(c), UNCHANGED sdkVars
      PROVE  OnItsWay(p, i, r)'
  <2>1. /\ conn[c] = "gone" /\ queue' = [queue EXCEPT ![c] = <<>>]
        /\ UNCHANGED <<rows, lastAt, lastId, batch>>
    BY <1>5 DEF Unsubscribe, store, watermark
  <2>2. queue'[via[p]] = queue[via[p]]
    BY <1>0, <2>1
  <2> QED
    BY <1>5, <2>1, <2>2, UntouchedStep DEF sdkVars
<1>6. ASSUME NEW q \in Apps, NEW c \in Conns, Open(q, c)
      PROVE  OnItsWay(p, i, r)'
  <2>1. /\ via[q] = NoConn /\ via' = [via EXCEPT ![q] = c]
        /\ UNCHANGED <<unread, known, queue, rows, lastAt, lastId, batch>>
    BY <1>6 DEF Open, Subscribe, store, watermark
  <2>2. via'[p] = via[p]
    BY <1>0, <2>1
  <2> QED
    BY <2>1, <2>2, UntouchedStep
<1>7. ASSUME NEW q \in Apps, Leave(q) \/ StreamFails(q)
      PROVE  OnItsWay(p, i, r)'
  <2>1. /\ via' = [via EXCEPT ![q] = NoConn] /\ unread' = [unread EXCEPT ![q] = <<>>]
        /\ UNCHANGED <<known, queue, rows, lastAt, lastId, batch>>
    BY <1>7 DEF Leave, StreamFails, Close, Disconnect, vars, store, streams, watermark
  <2>2. q # p /\ via'[p] = via[p] /\ unread'[p] = unread[p]
    BY <1>0, <2>1
  <2> QED
    BY <2>1, <2>2, UntouchedStep
<1>8. CASE Restart
  <2>1. conn' = [c \in Conns |-> "closed"] /\ via' = via
    BY <1>8 DEF Restart, Crash
  <2> QED
    BY <1>0, <2>1
<1>9. CASE UNCHANGED watchVars
  BY <1>1, <1>9 DEF watchVars, vars, store, streams, watermark
<1> QED
  BY <1>2, <1>3, <1>4, <1>5, <1>6, <1>7, <1>8, <1>9, CommitDropsNothing, SelectDropsNothing,
     EmissionDropsNothing, SendDropsNothing, YieldDropsNothing
     DEF WatchNext, ServerStep

(* While an application keeps its stream, no step of anyone drops what is  *)
(* on its way to it, on however many connections and for however many rows.*)
THEOREM NothingIsDropped == WatchSpec => NothingDropped
<1> DEFINE Inv == FeedFacts /\ AppTypeOK /\ NewsInv
<1>1. WatchInit => Inv
  BY InitFeedFacts, InitAppType, InitNewsInv
<1>2. Inv /\ [WatchNext]_watchVars => Inv'
  BY NextFeedFacts, NextAppType, NextNewsInv DEF FeedFacts, FeedInv
<1>3. Inv /\ [WatchNext]_watchVars
        => [\A p \in Apps, i \in Ids, r \in 1 .. MaxWrites :
              Listens(p, i) /\ OnItsWay(p, i, r) => (Listens(p, i) => OnItsWay(p, i, r))']_watchVars
  BY NextDropsNothing, ConstantsOK
<1> QED
  BY <1>1, <1>2, <1>3, PTL DEF WatchSpec, NothingDropped
=============================================================================
