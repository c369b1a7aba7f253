----------------------------- MODULE FeedProofs -----------------------------
(***************************************************************************)
(* What follows from being a broadcast, for any connections, rows and      *)
(* interests.  WatchersProofs shows that the change feed is one.           *)
(***************************************************************************)
EXTENDS Feed, SequenceTheorems, TLAPS

(* The event is the last one, l, or before it, and no newer than n says. *)
Published(e, l, n) == (e = l \/ Before(e, l)) /\ e.rev <= n[e.id]

(* All that is in a stream has been published. *)
PublishedInv == \A c \in open : \A m \in 1 .. Len(stream[c]) : Published(stream[c][m], last, newest)

BroadcastInv == TypeOK /\ PublishedInv /\ Agreement /\ EverNewer

-----------------------------------------------------------------------------
LEMMA InitBroadcast == Init => BroadcastInv
<1> SUFFICES ASSUME Init PROVE BroadcastInv
  OBVIOUS
<1>1. TypeOK
  BY DEF Init, Fresh, Nothing, TypeOK
<1> QED
  BY <1>1 DEF Init, Fresh, BroadcastInv, PublishedInv, Agreement, EverNewer

(* A step that opens or closes a subscription, none of which holds events. *)
LEMMA QuietStep ==
  ASSUME BroadcastInv, TypeOK', UNCHANGED <<last, newest>>, NEW c \in Conns, stream'[c] = <<>>,
         \A d \in open' : d = c \/ (d \in open /\ stream'[d] = stream[d])
  PROVE  BroadcastInv'
<1>1. Len(stream'[c]) = 0
  OBVIOUS
<1>2. PublishedInv'
  BY <1>1 DEF BroadcastInv, PublishedInv, Published
<1>3. Agreement'
  BY <1>1 DEF BroadcastInv, Agreement
<1>4. EverNewer'
  BY <1>1 DEF BroadcastInv, EverNewer
<1> QED
  BY <1>2, <1>3, <1>4 DEF BroadcastInv

(* What has been published is before what is published next, of an older   *)
(* state if it is of the same row, and stays published.                    *)
LEMMA PublishedBefore ==
  ASSUME TypeOK, Publish, NEW e \in Event, Published(e, last, newest)
  PROVE  Before(e, last') /\ (e.id = last'.id => e.rev < last'.rev) /\ Published(e, last', newest')
<1>1. /\ last'.id \in Ids /\ last'.id \in Nat /\ last'.at \in Nat /\ last'.rev \in Nat
      /\ Before(last, last') /\ last'.rev > newest[last'.id]
      /\ newest' = [newest EXCEPT ![last'.id] = last'.rev]
  BY DEF Publish, Event, Ids
<1>2. /\ e.id \in Ids /\ e.id \in Nat /\ e.at \in Nat /\ e.rev \in Nat
      /\ newest[e.id] \in Nat /\ newest[last'.id] \in Nat
  BY <1>1 DEF TypeOK, Event, Ids
<1>3. last.id \in Nat /\ last.at \in Nat
  BY DEF TypeOK
<1>4. Before(e, last')
  BY <1>1, <1>2, <1>3 DEF Published, Before
<1>5. e.id = last'.id => e.rev < last'.rev
  BY <1>1, <1>2 DEF Published
<1>6. newest'[e.id] = IF e.id = last'.id THEN last'.rev ELSE newest[e.id]
  BY <1>1, <1>2 DEF TypeOK
<1>7. e.rev <= newest'[e.id]
  BY <1>1, <1>2, <1>5, <1>6 DEF Published
<1> QED
  BY <1>4, <1>5, <1>7 DEF Published

LEMMA PublishStep ==
  ASSUME BroadcastInv, Publish, NEW e, e = last'
  PROVE  BroadcastInv'
<1>0. open' = open
  BY DEF Publish
<1>1. /\ e \in Event /\ Before(last, e)
      /\ newest' = [newest EXCEPT ![e.id] = e.rev]
      /\ stream' = [c \in Conns |-> IF c \in open /\ e.id \in Interest[c]
                                    THEN Append(stream[c], e) ELSE stream[c]]
  BY DEF Publish
<1>2. /\ e.id \in Ids /\ e.id \in Nat /\ e.at \in Nat /\ e.rev \in Nat
      /\ TypeOK /\ open \subseteq Conns /\ \A c \in Conns : stream[c] \in Seq(Event)
  <2>1. e.id \in Ids /\ e.id \in Nat /\ e.at \in Nat /\ e.rev \in Nat
    BY <1>1 DEF Event, Ids
  <2> QED
    BY <2>1 DEF BroadcastInv, TypeOK
<1>3. TypeOK'
  <2>1. stream' \in [Conns -> Seq(Event)]
    BY <1>1, <1>2, AppendProperties
  <2>2. newest' \in [Ids -> Nat]
    BY <1>1, <1>2 DEF TypeOK
  <2>3. e \in [id : Nat, at : Nat, rev : Nat]
    BY <1>1 DEF Event, Ids
  <2> QED
    BY <1>0, <1>1, <1>2, <2>1, <2>2, <2>3 DEF TypeOK
(* What a stream holds: what it held, and the event if it is of interest.  *)
<1>4. ASSUME NEW c \in open
      PROVE  /\ c \in Conns /\ stream[c] \in Seq(Event) /\ Len(stream[c]) \in Nat
             /\ \A m \in 1 .. Len(stream[c]) :
                  /\ m \in 1 .. Len(stream'[c]) /\ stream'[c][m] = stream[c][m]
                  /\ stream[c][m] \in Event /\ Before(stream[c][m], e)
                  /\ stream[c][m].id = e.id => stream[c][m].rev < e.rev
                  /\ Published(stream[c][m], last', newest')
             /\ e.id \in Interest[c] =>
                  /\ Len(stream'[c]) = Len(stream[c]) + 1
                  /\ stream'[c][Len(stream[c]) + 1] = e
             /\ e.id \notin Interest[c] => stream'[c] = stream[c]
  <2>1. c \in Conns /\ stream[c] \in Seq(Event) /\ Len(stream[c]) \in Nat
    BY <1>2, LenProperties DEF TypeOK
  <2>2. IF e.id \in Interest[c] THEN stream'[c] = Append(stream[c], e)
        ELSE stream'[c] = stream[c]
    BY <1>1, <2>1
  <2>3. ASSUME NEW m \in 1 .. Len(stream[c])
        PROVE  /\ m \in 1 .. Len(stream'[c]) /\ stream'[c][m] = stream[c][m]
               /\ stream[c][m] \in Event /\ Published(stream[c][m], last, newest)
    <3>1. stream[c][m] \in Event
      BY <2>1, ElementOfSeq
    <3>2. Published(stream[c][m], last, newest)
      BY DEF BroadcastInv, PublishedInv
    <3>3. m \in 1 .. Len(stream'[c]) /\ stream'[c][m] = stream[c][m]
      BY <1>1, <2>1, <2>2, AppendProperties
    <3> QED
      BY <3>1, <3>2, <3>3
  <2>4. \A m \in 1 .. Len(stream[c]) :
          /\ Before(stream[c][m], e) /\ Published(stream[c][m], last', newest')
          /\ stream[c][m].id = e.id => stream[c][m].rev < e.rev
    BY <1>2, <2>3, PublishedBefore
  <2>5. e.id \in Interest[c] =>
          Len(stream'[c]) = Len(stream[c]) + 1 /\ stream'[c][Len(stream[c]) + 1] = e
    BY <1>1, <2>1, <2>2, AppendProperties
  <2> QED
    BY <2>1, <2>2, <2>3, <2>4, <2>5
<1>5. ASSUME NEW c \in open, NEW m \in 1 .. Len(stream'[c])
      PROVE  \/ m \in 1 .. Len(stream[c]) /\ stream'[c][m] = stream[c][m]
             \/ e.id \in Interest[c] /\ m = Len(stream[c]) + 1 /\ stream'[c][m] = e
  BY <1>4
<1>6. PublishedInv'
  <2>1. Published(e, last', newest')
    <3>1. newest'[e.id] = e.rev
      BY <1>1, <1>2 DEF TypeOK
    <3> QED
      BY <1>2, <3>1 DEF Published
  <2> QED
    BY <1>0, <1>4, <1>5, <2>1 DEF PublishedInv
<1>7. Agreement'
  <2> SUFFICES ASSUME NEW c \in open, NEW d \in open,
                      NEW m \in 1 .. Len(stream'[c]), NEW n \in 1 .. Len(stream'[d]),
                      Before(stream'[c][m], stream'[d][n]), stream'[d][n].id \in Interest[c]
               PROVE  \E k \in 1 .. Len(stream'[c]) : stream'[c][k] = stream'[d][n]
    BY <1>0 DEF Agreement
  <2>1. CASE n = Len(stream[d]) + 1 /\ stream'[d][n] = e
    <3>1. Len(stream[c]) + 1 \in 1 .. Len(stream'[c]) /\ stream'[c][Len(stream[c]) + 1] = e
      BY <1>4, <2>1
    <3> QED
      BY <2>1, <3>1
  <2>2. CASE n \in 1 .. Len(stream[d]) /\ stream'[d][n] = stream[d][n]
    <3>1. stream'[c][m] # e
      <4>1. Before(stream[d][n], e) /\ stream[d][n] \in Event
        BY <1>4, <2>2
      <4>2. ~ Before(e, stream[d][n])
        BY <1>2, <4>1 DEF Before, Event, Ids
      <4> QED
        BY <2>2, <4>2
    <3>2. m \in 1 .. Len(stream[c]) /\ stream'[c][m] = stream[c][m]
      BY <1>5, <3>1
    <3>3. PICK k \in 1 .. Len(stream[c]) : stream[c][k] = stream[d][n]
      BY <2>2, <3>2 DEF BroadcastInv, Agreement
    <3> QED
      BY <1>4, <2>2, <3>3
  <2> QED
    BY <1>5, <2>1, <2>2
<1>8. EverNewer'
  <2> SUFFICES ASSUME NEW c \in open, NEW m \in 1 .. Len(stream'[c]), NEW n \in 1 .. Len(stream'[c]),
                      m < n, stream'[c][m].id = stream'[c][n].id
               PROVE  stream'[c][m].rev < stream'[c][n].rev
    BY <1>0 DEF EverNewer
  <2>1. m \in 1 .. Len(stream[c]) /\ stream'[c][m] = stream[c][m]
    BY <1>4, <1>5
  <2>2. CASE stream'[c][n] = e
    BY <1>4, <2>1, <2>2
  <2>3. CASE n \in 1 .. Len(stream[c]) /\ stream'[c][n] = stream[c][n]
    BY <2>1, <2>3 DEF BroadcastInv, EverNewer
  <2> QED
    BY <1>5, <2>2, <2>3
<1> QED
  BY <1>3, <1>6, <1>7, <1>8 DEF BroadcastInv

(* A step preserves BroadcastInv. *)
LEMMA NextBroadcast == BroadcastInv /\ [Next]_vars => BroadcastInv'
<1> SUFFICES ASSUME BroadcastInv, [Next]_vars PROVE BroadcastInv'
  OBVIOUS
<1>1. ASSUME NEW c \in Conns, Subscribe(c) \/ Unsubscribe(c)
      PROVE  BroadcastInv'
  <2>1. /\ UNCHANGED <<last, newest>> /\ stream' = [stream EXCEPT ![c] = <<>>]
        /\ open' = open \cup {c} \/ open' = open \ {c}
    BY <1>1 DEF Subscribe, Unsubscribe
  <2>2. TypeOK'
    BY <2>1 DEF BroadcastInv, TypeOK
  <2>3. stream'[c] = <<>> /\ \A d \in open : d = c \/ stream'[d] = stream[d]
    BY <2>1 DEF BroadcastInv, TypeOK
  <2> QED
    BY <2>1, <2>2, <2>3, QuietStep
<1>2. CASE Publish
  BY <1>2, PublishStep
<1>3. CASE Restart
  <2>1. TypeOK'
    BY <1>3 DEF Restart, Fresh, Nothing, TypeOK
  <2> QED
    BY <1>3, <2>1 DEF Restart, Fresh, BroadcastInv, PublishedInv, Agreement, EverNewer
<1>4. CASE UNCHANGED vars
  BY <1>4 DEF vars, BroadcastInv, TypeOK, PublishedInv, Published, Agreement, EverNewer
<1> QED
  BY <1>1, <1>2, <1>3, <1>4 DEF Next

(* Subscriptions agree on what is published after anything they have.      *)
THEOREM StreamsAgree == Spec => []Agreement
<1>1. BroadcastInv => Agreement
  BY DEF BroadcastInv
<1> QED
  BY <1>1, InitBroadcast, NextBroadcast, PTL DEF Spec

(* No stream takes a row back to an older state. *)
THEOREM StatesGoForward == Spec => []EverNewer
<1>1. BroadcastInv => EverNewer
  BY DEF BroadcastInv
<1> QED
  BY <1>1, InitBroadcast, NextBroadcast, PTL DEF Spec
=============================================================================
