------------------------------- MODULE Watchers -------------------------------
(***************************************************************************)
(* The change feed: WatcherRegistry (src/src/watchers.py), the endpoint    *)
(* that streams from it (src/src/main.py) and the updated_at column it     *)
(* polls (src/src/models/config_key.py).                                   *)
(*                                                                         *)
(* Everything in the registry runs on one event loop.  Neither acquiring   *)
(* its uncontended lock nor putting on an unbounded queue suspends, so a   *)
(* poll runs from its SELECT to its last event without any other coroutine *)
(* in between: while `batch` holds rows still to be emitted, the loop is   *)
(* busy.  The handlers that write the table run in threads and the clients *)
(* in processes of their own; they, and a crash, interleave with all of it.*)
(***************************************************************************)
EXTENDS Naturals, Sequences, FiniteSets

CONSTANTS
  Conns,      \* watch connections, each used for one request after another
  Tasks,      \* asyncio tasks that may run _poll_loop
  NumRows,    \* the ids of the config_keys table are 1 .. NumRows
  Interest,   \* Interest[c]: ids of the rows in the namespace c watches
  Faults,     \* which failures may happen: "select" and "crash"
  MaxTime,    \* bound: last second of the clock
  MaxWrites,  \* bound: writes of one row
  NoRow, NoTxn, NoTask

Ids == 1 .. NumRows

(* A row as the feed sees it: when it was last written, and how often. *)
Row == [at : Nat, rev : Nat]
Event == [id : Ids, at : Nat, rev : Nat]
Txn == [id : Ids, at : Nat]

ASSUME ConstantsOK ==
  /\ NumRows \in Nat /\ MaxTime \in Nat /\ MaxWrites \in Nat
  /\ Interest \in [Conns -> SUBSET Ids]
  /\ Faults \subseteq {"select", "crash"}
  /\ NoRow \notin Row /\ NoTxn \notin Txn /\ NoTask \notin Tasks

VARIABLES
  now,      \* the clock, in the whole seconds of CURRENT_TIMESTAMP
  rows,     \* the committed rows
  txn,      \* the transaction that holds SQLite's write lock
  conn,     \* each connection: closed, streaming, or gone (client left, still registered)
  queue,    \* the asyncio.Queue of each registered watcher
  got,      \* history: the events the client of each connection was sent
  task,     \* each task: free, running, cancelling (cancel requested) or failed
  poller,   \* _poller_task
  lastAt,   \* _last_emitted_at, 0 for datetime.min
  lastId,   \* _last_emitted_id
  batch,    \* rows of the poll under way that are not emitted yet
  emitted,  \* history: the last revision of each row this process emitted
  told      \* history: the seconds whose writes this process emitted events for

store == <<now, rows, txn>>
streams == <<conn, queue, got>>
registry == <<task, poller>>
watermark == <<lastAt, lastId, emitted, told>>
vars == <<store, streams, registry, watermark, batch>>

Init ==
  /\ now = 1
  /\ rows = [i \in Ids |-> NoRow]
  /\ txn = NoTxn
  /\ conn = [c \in Conns |-> "closed"]
  /\ queue = [c \in Conns |-> <<>>]
  /\ got = [c \in Conns |-> <<>>]
  /\ task = [t \in Tasks |-> "free"]
  /\ poller = NoTask
  /\ lastAt = 0
  /\ lastId = 0
  /\ batch = {}
  /\ emitted = [i \in Ids |-> 0]
  /\ told = {}

-----------------------------------------------------------------------------
(* The table and its clock. *)

Tick ==
  /\ now < MaxTime
  /\ now' = now + 1
  /\ UNCHANGED <<rows, txn, streams, registry, watermark, batch>>

Rev(i) == IF rows[i] = NoRow THEN 0 ELSE rows[i].rev

(* Variant: updated_at is left unset. *)
BeginUnstamped(i) ==
  /\ txn = NoTxn
  /\ Rev(i) < MaxWrites
  /\ \A j \in Ids : j < i => rows[j] # NoRow
  /\ txn' = [id |-> i, at |-> NoTxn]
  /\ UNCHANGED <<now, rows, streams, registry, watermark, batch>>

(* An INSERT or UPDATE takes the write lock, then stamps updated_at.  Ids  *)
(* are handed out in order of insertion.                                   *)
BeginWrite(i) ==
  /\ txn = NoTxn
  /\ Rev(i) < MaxWrites
  /\ \A j \in Ids : j < i => rows[j] # NoRow
  /\ txn' = [id |-> i, at |-> now]
  /\ UNCHANGED <<now, rows, streams, registry, watermark, batch>>

(* The commit may come later than the stamp: it waits for readers. *)
CommitWrite ==
  /\ txn # NoTxn
  /\ rows' = [rows EXCEPT ![txn.id] = [at |-> txn.at, rev |-> Rev(txn.id) + 1]]
  /\ txn' = NoTxn
  /\ UNCHANGED <<now, streams, registry, watermark, batch>>

RollbackWrite ==
  /\ txn # NoTxn
  /\ txn' = NoTxn
  /\ UNCHANGED <<now, rows, streams, registry, watermark, batch>>

-----------------------------------------------------------------------------
(* Subscriptions. *)

LoopFree == batch = {}

Watchers == {c \in Conns : conn[c] # "closed"}

(* There is no task, or it ended by an exception. *)
PollerDone == poller # NoTask => task[poller] = "failed"

(* create_task(_poll_loop()); a failed task it replaces is forgotten. *)
StartPoller(t) ==
  /\ task[t] = "free"
  /\ task' = [s \in Tasks |-> IF s = t THEN "running"
                              ELSE IF s = poller THEN "free" ELSE task[s]]
  /\ poller' = t

(* Variant: every subscription starts a poller of its own. *)
SubscribeStartsAlways(c) ==
  /\ LoopFree
  /\ conn[c] = "closed"
  /\ conn' = [conn EXCEPT ![c] = "streaming"]
  /\ got' = [got EXCEPT ![c] = <<>>]
  /\ \E t \in Tasks :
       /\ task[t] = "free"
       /\ task' = [task EXCEPT ![t] = "running"]
       /\ poller' = t
  /\ UNCHANGED <<store, queue, watermark, batch>>

(* Variant: the feed starts over for whoever subscribes. *)
SubscribeStartsOver(c) ==
  /\ LoopFree
  /\ conn[c] = "closed"
  /\ conn' = [conn EXCEPT ![c] = "streaming"]
  /\ got' = [got EXCEPT ![c] = <<>>]
  /\ \/ ~ PollerDone /\ UNCHANGED registry
     \/ PollerDone /\ \E t \in Tasks : StartPoller(t)
  /\ lastAt' = 0 /\ lastId' = 0
  /\ UNCHANGED <<store, queue, emitted, told, batch>>

(* GET /api/v1/watch: the headers go out and the generator subscribes. *)
Subscribe(c) ==
  /\ LoopFree
  /\ conn[c] = "closed"
  /\ conn' = [conn EXCEPT ![c] = "streaming"]
  /\ got' = [got EXCEPT ![c] = <<>>]
  /\ \/ ~ PollerDone /\ UNCHANGED registry
     \/ PollerDone /\ \E t \in Tasks : StartPoller(t)
  /\ UNCHANGED <<store, queue, watermark, batch>>

(* The generator takes an event off its queue and yields it to the client. *)
Deliver(c) ==
  /\ LoopFree
  /\ conn[c] = "streaming"
  /\ queue[c] # <<>>
  /\ got' = [got EXCEPT ![c] = Append(@, Head(queue[c]))]
  /\ queue' = [queue EXCEPT ![c] = Tail(@)]
  /\ UNCHANGED <<store, conn, registry, watermark, batch>>

(* The client goes away; the server has not noticed. *)
Disconnect(c) ==
  /\ conn[c] = "streaming"
  /\ conn' = [conn EXCEPT ![c] = "gone"]
  /\ UNCHANGED <<store, queue, got, registry, watermark, batch>>

(* Variant: whoever leaves cancels the poller. *)
UnsubscribeStopsPoller(c) ==
  /\ LoopFree
  /\ conn[c] = "gone"
  /\ poller # NoTask
  /\ conn' = [conn EXCEPT ![c] = "closed"]
  /\ queue' = [queue EXCEPT ![c] = <<>>]
  /\ task' = [task EXCEPT ![poller] = IF @ = "running" THEN "cancelling" ELSE "free"]
  /\ poller' = NoTask
  /\ UNCHANGED <<store, got, watermark, batch>>

(* The generator's finally.  The last watcher to leave takes the poller    *)
(* out of the registry and requests its cancellation, which does nothing   *)
(* to a task that has failed.                                              *)
Unsubscribe(c) ==
  /\ LoopFree
  /\ conn[c] = "gone"
  /\ conn' = [conn EXCEPT ![c] = "closed"]
  /\ queue' = [queue EXCEPT ![c] = <<>>]
  /\ \/ /\ Watchers # {c} \/ poller = NoTask
        /\ UNCHANGED registry
     \/ /\ Watchers = {c} /\ poller # NoTask
        /\ task' = [task EXCEPT ![poller] =
                      IF @ = "running" THEN "cancelling" ELSE "free"]
        /\ poller' = NoTask
  /\ UNCHANGED <<store, got, watermark, batch>>

(* The task wakes from its sleep in CancelledError. *)
CancelDelivered(t) ==
  /\ LoopFree
  /\ task[t] = "cancelling"
  /\ task' = [task EXCEPT ![t] = "free"]
  /\ UNCHANGED <<store, streams, poller, watermark, batch>>

-----------------------------------------------------------------------------
(* Polling. *)

Before(e, f) == e.at < f.at \/ (e.at = f.at /\ e.id < f.id)

(* SQLite compares the column's text, 'YYYY-MM-DD HH:MM:SS', with the text *)
(* the driver binds for the watermark, 'YYYY-MM-DD HH:MM:SS.000000'.  The  *)
(* two are never equal, and within one second the shorter is the smaller.  *)
StoredText(at) == 2 * at
BoundText(at) == 2 * at + 1

(* Variant: the watermark forgets its second and takes it all again. *)
ChangedInclusive(i) ==
  /\ rows[i] # NoRow
  /\ StoredText(rows[i].at) + 1 >= BoundText(lastAt)

Changed(i) ==
  /\ rows[i] # NoRow
  /\ \/ StoredText(rows[i].at) > BoundText(lastAt)
     \/ StoredText(rows[i].at) = BoundText(lastAt) /\ i > lastId

(* The SELECT of _emit_changes. *)
PollSelect(t) ==
  /\ LoopFree
  /\ task[t] = "running"
  /\ batch' = {[id |-> i, at |-> rows[i].at, rev |-> rows[i].rev] :
                 i \in {j \in Ids : Changed(j)}}
  /\ UNCHANGED <<store, streams, registry, watermark>>

(* The SELECT raises: the database is locked or the pool is exhausted.     *)
(* Nothing in _poll_loop catches it; the task ends.                        *)
PollFail(t) ==
  /\ LoopFree
  /\ "select" \in Faults
  /\ task[t] = "running"
  /\ task' = [task EXCEPT ![t] = "failed"]
  /\ UNCHANGED <<store, streams, poller, watermark, batch>>

(* Variant: the watermark is the time of the emission. *)
EmitMarksNow ==
  \E e \in batch :
    /\ \A f \in batch \ {e} : Before(e, f)
    /\ queue' = [c \in Conns |-> IF c \in Watchers /\ e.id \in Interest[c]
                                 THEN Append(queue[c], e) ELSE queue[c]]
    /\ lastAt' = now
    /\ lastId' = e.id
    /\ batch' = batch \ {e}
    /\ emitted' = [emitted EXCEPT ![e.id] = e.rev]
    /\ told' = told \cup {e.at}
    /\ UNCHANGED <<store, conn, got, registry>>

(* Variant: a queue that holds an event already is full. *)
EmitIfRoom ==
  \E e \in batch :
    /\ \A f \in batch \ {e} : Before(e, f)
    /\ queue' = [c \in Conns |-> IF c \in Watchers /\ e.id \in Interest[c] /\ queue[c] = <<>>
                                 THEN Append(queue[c], e) ELSE queue[c]]
    /\ lastAt' = e.at
    /\ lastId' = e.id
    /\ batch' = batch \ {e}
    /\ emitted' = [emitted EXCEPT ![e.id] = e.rev]
    /\ told' = told \cup {e.at}
    /\ UNCHANGED <<store, conn, got, registry>>

(* One turn of _emit_changes' loop, in the order of the SELECT. *)
EmitOne ==
  \E e \in batch :
    /\ \A f \in batch \ {e} : Before(e, f)
    /\ queue' = [c \in Conns |-> IF c \in Watchers /\ e.id \in Interest[c]
                                 THEN Append(queue[c], e) ELSE queue[c]]
    /\ lastAt' = e.at
    /\ lastId' = e.id
    /\ batch' = batch \ {e}
    /\ emitted' = [emitted EXCEPT ![e.id] = e.rev]
    /\ told' = told \cup {e.at}
    /\ UNCHANGED <<store, conn, got, registry>>

(* The process dies and is restarted.  The table survives, the watermark   *)
(* does not: what was emitted will be emitted again.                       *)
Crash ==
  /\ "crash" \in Faults
  /\ txn' = NoTxn
  /\ conn' = [c \in Conns |-> "closed"]
  /\ queue' = [c \in Conns |-> <<>>]
  /\ got' = [c \in Conns |-> <<>>]
  /\ task' = [t \in Tasks |-> "free"]
  /\ poller' = NoTask
  /\ lastAt' = 0
  /\ lastId' = 0
  /\ batch' = {}
  /\ emitted' = [i \in Ids |-> 0]
  /\ told' = {}
  /\ UNCHANGED <<now, rows>>

-----------------------------------------------------------------------------
Next ==
  \/ Tick \/ CommitWrite \/ RollbackWrite \/ EmitOne \/ Crash
  \/ \E i \in Ids : BeginWrite(i)
  \/ \E c \in Conns : Subscribe(c) \/ Deliver(c) \/ Disconnect(c) \/ Unsubscribe(c)
  \/ \E t \in Tasks : CancelDelivered(t) \/ PollSelect(t) \/ PollFail(t)

Spec == Init /\ [][Next]_vars

(* The event loop keeps running what is ready, and sleeps end. *)
LoopFairness ==
  /\ WF_vars(EmitOne)
  /\ \A t \in Tasks : WF_vars(PollSelect(t))
  /\ \A c \in Conns : WF_vars(Deliver(c))

FairSpec == Spec /\ LoopFairness

-----------------------------------------------------------------------------
(* Type invariant. *)
TypeOK ==
  /\ now \in Nat
  /\ rows \in [Ids -> Row \cup {NoRow}]
  /\ txn \in Txn \cup {NoTxn}
  /\ conn \in [Conns -> {"closed", "streaming", "gone"}]
  /\ queue \in [Conns -> Seq(Event)]
  /\ got \in [Conns -> Seq(Event)]
  /\ task \in [Tasks -> {"free", "running", "cancelling", "failed"}]
  /\ poller \in Tasks \cup {NoTask}
  /\ lastAt \in Nat
  /\ lastId \in Nat
  /\ batch \in SUBSET Event
  /\ emitted \in [Ids -> Nat]
  /\ told \in SUBSET Nat

(* However clients come and go while a cancelled poller is still winding   *)
(* down, exactly one task polls while the registry has a poller, it is the *)
(* registry's own, and the registry has one exactly while it has watchers. *)
OnePoller ==
  /\ \A t \in Tasks : task[t] = "running" => t = poller
  /\ poller # NoTask => task[poller] \in {"running", "failed"}
  /\ poller = NoTask <=> Watchers = {}

(* What a client was sent and what waits for it is in strict order of time *)
(* of writing and then of id: nothing is sent twice on a connection, and   *)
(* no older state of the table follows a newer one.                        *)
StreamInOrder ==
  \A c \in Conns :
    LET stream == got[c] \o queue[c] IN
      \A m, n \in 1 .. Len(stream) : m < n => Before(stream[m], stream[n])

(* Watchers agree: what any of them is sent after something that another   *)
(* has, sent or waiting, the other is sent too if it watches the row, and  *)
(* whatever namespaces they watch, and whenever they came.                 *)
SentToo(s, t, ids) ==
  \A m \in 1 .. Len(s), n \in 1 .. Len(t) :
    Before(s[m], t[n]) /\ t[n].id \in ids => \E k \in 1 .. Len(s) : s[k] = t[n]

WatchersAgree ==
  \A c, d \in Watchers : SentToo(got[c] \o queue[c], got[d] \o queue[d], Interest[c])

(* The registry, its poller and its queues are a broadcast. *)
Broadcast == INSTANCE Feed WITH
  open <- Watchers,
  stream <- [c \in Conns |-> IF c \in Watchers THEN got[c] \o queue[c] ELSE <<>>],
  last <- [id |-> lastId, at |-> lastAt, rev |-> IF lastId = 0 THEN 0 ELSE emitted[lastId]],
  newest <- emitted

ImplementsFeed == Broadcast!Spec

(* The committed state of row i has not been emitted and no poll will.     *)
Unreported(i) ==
  /\ rows[i] # NoRow
  /\ rows[i].rev > emitted[i]
  /\ ~ Changed(i)
  /\ ~ \E e \in batch : e.id = i /\ e.rev = rows[i].rev

(* A write goes unreported only when it falls in a second whose earlier    *)
(* writes had been emitted already: a slow commit, a restart or a poller   *)
(* that stopped for a while lose no other.                                 *)
LossOnlyInToldSecond ==
  \A i \in Ids : Unreported(i) => rows[i].at \in told

(* "Events are delivered on every write" (docs/PRD.md:149): no write is    *)
(* beyond the reach of every poll to come.                                 *)
NoWriteUnreported == \A i \in Ids : ~ Unreported(i)

(* The next poll finds the state of row i: it is newer than the watermark  *)
(* and than whatever the poll under way will leave the watermark at.       *)
Findable(i) == Changed(i) /\ \A e \in batch : e.at < rows[i].at

(* The revisions of row i that were sent on connection c. *)
Seen(c, i) == {got[c][n].rev : n \in {m \in 1 .. Len(got[c]) : got[c][m].id = i}}

(* A client that stays connected is sent every change of a row it watches  *)
(* that the next poll can find, or a later state of that row.              *)
ChangesReachClients ==
  \A c \in Conns, i \in Ids, r \in 1 .. MaxWrites :
    (conn[c] = "streaming" /\ i \in Interest[c] /\ Findable(i) /\ rows[i].rev = r)
      ~> (conn[c] # "streaming" \/ \E s \in Seen(c, i) : s >= r)
=============================================================================
