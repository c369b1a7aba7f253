--------------------------------- MODULE Feed ---------------------------------
(***************************************************************************)
(* What the change feed promises to whoever watches it, without its polls, *)
(* tasks, queues and sockets: it is a broadcast.  An event is published to *)
(* all subscriptions that are open and interested in its row, at once.     *)
(* Events are published in the order of their stamps, and of one row each  *)
(* is of a newer state than the one before.  Only a restart starts over.   *)
(*                                                                         *)
(* It does not promise that every write is published: the feed loses some. *)
(***************************************************************************)
EXTENDS Naturals, Sequences

CONSTANTS
  Conns,     \* connections, each used for one subscription after another
  NumRows,   \* the ids of rows are 1 .. NumRows
  Interest   \* Interest[c]: ids of the rows that c is interested in

Ids == 1 .. NumRows
Event == [id : Ids, at : Nat, rev : Nat]

VARIABLES
  open,      \* the connections that are subscribed
  stream,    \* what each subscription was sent so far, or will be
  last,      \* the last event published since the service started
  newest     \* the last revision of each row published since then

vars == <<open, stream, last, newest>>

Nothing == [id |-> 0, at |-> 0, rev |-> 0]

Fresh ==
  /\ open = {}
  /\ stream = [c \in Conns |-> <<>>]
  /\ last = Nothing
  /\ newest = [i \in Ids |-> 0]

Init == Fresh

Before(e, f) == e.at < f.at \/ (e.at = f.at /\ e.id < f.id)

Subscribe(c) ==
  /\ c \notin open
  /\ open' = open \cup {c}
  /\ stream' = [stream EXCEPT ![c] = <<>>]
  /\ UNCHANGED <<last, newest>>

Unsubscribe(c) ==
  /\ c \in open
  /\ open' = open \ {c}
  /\ stream' = [stream EXCEPT ![c] = <<>>]
  /\ UNCHANGED <<last, newest>>

Publish ==
  /\ last' \in Event
  /\ Before(last, last')
  /\ last'.rev > newest[last'.id]
  /\ newest' = [newest EXCEPT ![last'.id] = last'.rev]
  /\ stream' = [c \in Conns |-> IF c \in open /\ last'.id \in Interest[c]
                                THEN Append(stream[c], last') ELSE stream[c]]
  /\ UNCHANGED open

Restart == Fresh'

Next ==
  \/ \E c \in Conns : Subscribe(c) \/ Unsubscribe(c)
  \/ Publish
  \/ Restart

Spec == Init /\ [][Next]_vars

-----------------------------------------------------------------------------
(* Type invariant. *)
TypeOK ==
  /\ open \in SUBSET Conns
  /\ stream \in [Conns -> Seq(Event)]
  /\ last \in [id : Nat, at : Nat, rev : Nat]
  /\ newest \in [Ids -> Nat]

(* What any subscription is sent after something that another one has, the *)
(* other one is sent too, if it is interested in the row.                  *)
Agreement ==
  \A c, d \in open :
    \A m \in 1 .. Len(stream[c]), n \in 1 .. Len(stream[d]) :
      Before(stream[c][m], stream[d][n]) /\ stream[d][n].id \in Interest[c]
        => \E k \in 1 .. Len(stream[c]) : stream[c][k] = stream[d][n]

(* The events of one row in a stream are of ever newer states of it. *)
EverNewer ==
  \A c \in open : \A m, n \in 1 .. Len(stream[c]) :
    m < n /\ stream[c][m].id = stream[c][n].id => stream[c][m].rev < stream[c][n].rev
=============================================================================
