------------------------------- MODULE SdkWatch -------------------------------
(***************************************************************************)
(* Applications that iterate over client.watch() of the Python SDK         *)
(* (src/sdk/src/fleet_config/watch.py), on the change feed of Watchers.    *)
(*                                                                         *)
(* An iterator reads one stream to its end and then stops or raises: it    *)
(* does not connect again.  The application may call watch() again; the    *)
(* server may still have the old stream among its watchers then.  Events   *)
(* on the way to an iterator can be read after the service has died.       *)
(***************************************************************************)
EXTENDS Watchers, Functions

CONSTANTS
  Apps,    \* applications with an iterator each
  ConnsOf, \* ConnsOf[p]: the connections p makes, to one URL
  NoConn   \* the iterator has no stream

ASSUME SdkWatchConstantsOK ==
  /\ ConnsOf \in [Apps -> SUBSET Conns]
  /\ \A p, q \in Apps : p # q => ConnsOf[p] \cap ConnsOf[q] = {}
  /\ NoConn \notin Conns

VARIABLES
  via,    \* the connection of each iterator
  unread, \* the events sent to it that it has not read
  known   \* history: the last revision of each row that p heard of from this process

sdkVars == <<via, unread, known>>
watchVars == <<vars, sdkVars>>

WatchInit ==
  /\ Init
  /\ via = [p \in Apps |-> NoConn]
  /\ unread = [p \in Apps |-> <<>>]
  /\ known = [p \in Apps |-> [i \in Ids |-> 0]]

Reading(p) == via[p] # NoConn /\ conn[via[p]] = "streaming"

-----------------------------------------------------------------------------
(* The iterator. *)

(* watch() and the first next(): the request, its answer's headers. *)
Open(p, c) ==
  /\ via[p] = NoConn
  /\ c \in ConnsOf[p]
  /\ Subscribe(c)
  /\ via' = [via EXCEPT ![p] = c]
  /\ UNCHANGED <<unread, known>>

(* A data line is parsed and yielded to the application. *)
Yield(p) ==
  /\ unread[p] # <<>>
  /\ LET e == Head(unread[p]) IN
       known' = [known EXCEPT ![p][e.id] = IF Reading(p) THEN e.rev ELSE @]
  /\ unread' = [unread EXCEPT ![p] = Tail(@)]
  /\ UNCHANGED <<vars, via>>

(* The stream is closed by the application's side: what is on its way is   *)
(* dropped.  The server learns of it later.                                *)
Close(p) ==
  /\ via' = [via EXCEPT ![p] = NoConn]
  /\ unread' = [unread EXCEPT ![p] = <<>>]
  /\ UNCHANGED known
  /\ IF conn[via[p]] = "streaming" THEN Disconnect(via[p]) ELSE UNCHANGED vars

(* The application leaves its loop. *)
Leave(p) == via[p] # NoConn /\ Close(p)

(* Nothing is sent for the 5 s that the client waits for any answer, or    *)
(* the connection broke: httpx raises, or the body is over.                *)
StreamFails(p) == via[p] # NoConn /\ unread[p] = <<>> /\ Close(p)

-----------------------------------------------------------------------------
(* The server. *)

Send(c) ==
  /\ Deliver(c)
  /\ unread' = [p \in Apps |-> IF via[p] = c THEN Append(unread[p], Head(queue[c]))
                               ELSE unread[p]]
  /\ UNCHANGED <<via, known>>

ServerStep ==
  \/ Tick \/ CommitWrite \/ RollbackWrite \/ EmitOne
  \/ \E i \in Ids : BeginWrite(i)
  \/ \E c \in Conns : Unsubscribe(c)
  \/ \E t \in Tasks : CancelDelivered(t) \/ PollSelect(t) \/ PollFail(t)

Restart ==
  /\ Crash
  /\ known' = [p \in Apps |-> [i \in Ids |-> 0]]
  /\ UNCHANGED <<via, unread>>

WatchNext ==
  \/ \E p \in Apps, c \in Conns : Open(p, c)
  \/ \E p \in Apps : Yield(p) \/ Leave(p) \/ StreamFails(p)
  \/ \E c \in Conns : Send(c)
  \/ ServerStep /\ UNCHANGED sdkVars
  \/ Restart

WatchSpec == WatchInit /\ [][WatchNext]_watchVars

(* The event loop goes on, and applications call next() again. *)
WatchFairness ==
  /\ WF_watchVars(EmitOne /\ UNCHANGED sdkVars)
  /\ \A t \in Tasks : WF_watchVars(PollSelect(t) /\ UNCHANGED sdkVars)
  /\ \A c \in Conns : WF_watchVars(Send(c))
  /\ \A p \in Apps : WF_watchVars(Yield(p))

FairWatchSpec == WatchSpec /\ WatchFairness

-----------------------------------------------------------------------------
(* Type invariant. *)
WatchTypeOK ==
  /\ TypeOK
  /\ via \in [Apps -> Conns \cup {NoConn}]
  /\ unread \in [Apps -> Seq(Event)]
  /\ known \in [Apps -> [Ids -> Nat]]

(* As long as the service is not restarted an application is never told    *)
(* again what it has heard, nor an older state of a key than it knows,     *)
(* however often its streams end and it watches again: the feed's          *)
(* watermark outlives streams and pollers.                                 *)
NewsOnly ==
  \A p \in Apps : Reading(p) =>
    LET stream == unread[p] \o queue[via[p]] IN
      /\ \A n \in 1 .. Len(stream) : stream[n].rev > known[p][stream[n].id]
      /\ \A m, n \in 1 .. Len(stream) :
           m < n /\ stream[m].id = stream[n].id => stream[m].rev < stream[n].rev

(* Revision r of row i, or a later one, is known to p or on its way: in    *)
(* the table where a poll will find it, in the poll under way, in the      *)
(* queue of p's stream, or sent.                                           *)
OnItsWay(p, i, r) ==
  \/ Findable(i) /\ rows[i].rev >= r
  \/ \E e \in batch \cup Range(queue[via[p]]) \cup Range(unread[p]) : e.id = i /\ e.rev >= r
  \/ known[p][i] >= r

Listens(p, i) == Reading(p) /\ i \in Interest[via[p]]

(* Nothing that is on its way to an application is dropped by any step of  *)
(* the poller, the streams, the writers or other applications, failures of *)
(* polls included, as long as the application keeps its stream.            *)
NothingDropped ==
  [][\A p \in Apps, i \in Ids, r \in 1 .. MaxWrites :
       Listens(p, i) /\ OnItsWay(p, i, r) => (Listens(p, i) => OnItsWay(p, i, r))']_watchVars

PollerDied == poller # NoTask /\ task[poller] = "failed"

(* An application that keeps its stream hears of every change that the     *)
(* next poll can find, or of a later state, unless the poller has died;    *)
(* that its own earlier stream is still being cleared away does not hinder *)
(* it.                                                                     *)
ChangesAreHeard ==
  \A p \in Apps, i \in Ids, r \in 1 .. MaxWrites :
    (Reading(p) /\ i \in Interest[via[p]] /\ Findable(i) /\ rows[i].rev = r)
      ~> (~ Reading(p) \/ known[p][i] >= r \/ PollerDied)
=============================================================================
