# Verification of fleet-config

TLA+ modules, TLC runs and TLAPS proofs for fleet-config, a FastAPI service that
keeps configuration keys and feature flags in SQLite and streams changes of the
keys over server-sent events, with a Python SDK.  Everything here is read off
the source; paths are relative to the repository (`src/...`).

To check a run: `tlc -config ConfigStoreRaces.cfg MCConfigStore`.
To check the proofs: `tlapm ConfigStoreProofs.tla`, and likewise `WatchersProofs`,
`FeedProofs`, `FlagStoreProofs`, `SdkClientProofs`, `SdkWatchProofs` and `DemoProofs`.

## Inventory

| Component | State it keeps | Operations | What is hard | What makes it correct |
|---|---|---|---|---|
| **Config store** `src/src/routers/configs.py`, `models/config_key.py` | table `config_keys`, unique on (namespace, key) | POST, GET, list, PUT, DELETE | read-modify-write without lock or version check, in a pool of threads; failure between commit and answer; restart | versions follow updates; a deleted key stays deleted; responses show what was written |
| **Change feed** `src/src/watchers.py`, `main.py` | watchers and their queues, poll task, watermark (time, id), all in memory | subscribe, stream, unsubscribe, poll | clients come and go while a task is being cancelled; slow commits; clock resolution; failing poll; restart | one poller; each stream in order and without repeats; every change delivered |
| **Feature flags** `routers/flags.py`, `models/feature_flag.py` | table `feature_flags`, unique on name | POST, GET, PUT (only the fields sent), DELETE (disables) | the races of the config store, on several columns; explicit nulls | a write changes what it asked to change and no more; a disabled flag stays off; a failed update leaves no trace |
| **Rollout evaluation** `evaluate_flag` in `flags.py` | none | one pure function | 0 and 100 percent shortcuts, integer bucket against float percentage | the share of the buckets the percentage says; agents move only with the rollout |
| **SDK client** `sdk/.../client.py` | an HTTP client | set (POST, on 409 PUT), get, delete, list, evaluate | two requests that are not one; requests that outlive the call that timed out; errors after the commit; deleted keys | a `set_config` that returns has set the key, and it stays set; a 404 means deleted |
| **SDK watch stream** `sdk/.../watch.py` | one HTTP response | iterate | 5 s read timeout on an idle feed, no reconnection; the old stream may outlive the new one's start; events under way when a stream ends | nothing told twice or out of order, over all streams; what a standing stream must be told |
| **Startup** `main.py`, `database.py`, `alembic/` | the schema and `alembic_version` | migrate to head, then create_all | DDL that commits by itself; a crash in between | the schema is never behind its version; a start that failed can be repeated unless it tore a migration |
| **Health, readiness** `main.py` | none | constant answer, `SELECT 1` | nothing | |
| **Demo** `demos/multi_agent_demo.py` | events of workers and coordinator, a database of its own | start the service, a coordinator and two workers, stop, clean up | worker woken by the first key reads the second too early; the database of a killed run; the service dies under the run | success means that this run's keys were read; a run ends; nothing is left behind |
| **Bootstrap** `bootstrap-swarm.sh` | none here | creates issues and labels elsewhere | | |

Interaction: the handlers run in threads and share only the database; the feed
reads the same table from the event loop by polling `updated_at`; the SDK and
the demo are HTTP clients of both.  Nothing notifies the feed of a write.

Authentication, the audit log, version history, rollback, rule matching and a
cache are described in `docs/` and absent from the source.

## Modules

| Module | Role |
|---|---|
| `KeyLifecycle` | abstract specification: the life of a key |
| `ConfigStore` | the config router over its table |
| `MCConfigStore` | instances of it |
| `ConfigStoreProofs` | theorems about it |
| `Feed` | abstract specification: a broadcast of the changes of rows |
| `FeedProofs` | theorems about it |
| `Watchers` | the change feed over a table with a clock |
| `MCWatchers` | instances of it |
| `WatchersProofs` | theorems about it |
| `FlagBoard` | abstract specification: calls that set fields of flags |
| `Rollout` | whether a flag is on for a bucket |
| `FlagStore` | the flag router over its table, with `Rollout` |
| `MCFlagStore` | an instance of it |
| `FlagStoreProofs` | theorems about `FlagStore` and `Rollout` |
| `SdkClient` | the SDK's calls: extends `ConfigStore` with callers and requests under way |
| `MCSdkClient` | an instance of it |
| `SdkClientProofs` | theorems about it, over those of `ConfigStoreProofs` |
| `SdkWatch` | the SDK's iterators: extends `Watchers` with applications |
| `MCSdkWatch` | an instance of it |
| `SdkWatchProofs` | theorems about it, over those of `WatchersProofs` |
| `Startup` | the start of the service over its database file |
| `Demo` | the multi-agent demo: extends `Startup` with the runs of its agents |
| `MCDemo` | an instance of it, with the service's three migrations |
| `DemoProofs` | theorems about `Startup` and `Demo` |

### ConfigStore

`rows` is the table, one row or `NoRow` for each key; `req[c]` is the request
that client `c` has in a handler, with the row it loaded (`snap`), and `resp[c]`
the last answer it got.  A handler is the steps the database makes of it:

| Step | Code |
|---|---|
| `CreateConflict`, `CreateLoad`, `NotFound`, `UpdateLoad`, `DeleteLoad` | the first SELECT with its early return (`configs.py` 55-62, 96-98, 110-112) |
| `CreateCommit`, `CreateIntegrityError`, `UpdateCommit`, `DeleteCommit` | the statement that `commit()` flushes (66, 103, 116) |
| `Refresh` | `db.refresh` and the response (67-68, 104-105, 117-118) |
| `ReadConfig`, `ListConfigs` | a single SELECT (71-86) |
| `DbError`, `Crash` | an OperationalError of any of these; a restart |

Two facts about the libraries shape it.  The Python sqlite3 driver opens a
transaction before an INSERT or UPDATE and not before a SELECT, so nothing
isolates the load from the commit.  SQLAlchemy sends only the columns whose new
value differs (`!=`) from the loaded one, with the primary key alone in the
WHERE clause: `UpdatedRow`.  `EqClass` says which JSON values Python finds equal.

`updates`, `overlapped`, `gone` and `aware` are history variables: the UPDATEs
committed for a key, the keys that ever had two PUTs in their handlers at once,
the keys whose DELETE was answered, and that set as each client's last request
found it.  What the races spoil (`VersionRegression`) is stated as holding where
there was none: `VersionCountsUpdates`, `ReadsBackOwnWrite` and `VersionRisesInTurn` speak of the keys
outside `overlapped`, whatever errors and restarts there were.

### Watchers

All of the registry runs on one event loop.  Its lock is never contended
and its queues are unbounded, so neither `async with` nor `put` suspends: a poll
runs from SELECT to last event with no other coroutine in between.  In the
module a poll is `PollSelect` and then one `EmitOne` for each row of `batch`;
every action of another coroutine requires `batch = {}` (`LoopFree`).  Writers
(threads), clients (`Disconnect`), the clock and `Crash` are not so restrained.

| Step | Code |
|---|---|
| `BeginWrite`, `CommitWrite`, `RollbackWrite` | a write transaction of any handler, stamping `updated_at` (`config_key.py` 27-32) |
| `Subscribe`, `StartPoller` | `watchers.py` 49-57 |
| `Deliver`, `Disconnect` | `main.py` 45-57 |
| `Unsubscribe`, `CancelDelivered` | `watchers.py` 59-72, 82-88 |
| `PollSelect`, `PollFail`, `EmitOne` | `watchers.py` 90-130 |

`updated_at` is SQLite's CURRENT_TIMESTAMP, text in whole seconds, and the
watermark is bound as text with microseconds.  `StoredText` and `BoundText` keep
just the order of these texts: the two are never equal, and in one second the
stored one is smaller.  SQLite evaluates the stamp after the transaction has the
write lock, so there is one transaction at a time and stamps follow commit order.
`emitted` and `told` are history variables.

A delete is an UPDATE and an event like any other; a row's `rev` counts both.
`cancel()` and the awaiting of the cancelled task are one step in `Unsubscribe`
and one in `CancelDelivered`: between them a new watcher may start a new task.
That `unsubscribe` re-raises the exception of a failed task changes no state.

`Feed` is what this amounts to for those who watch, without tasks, queues, clock
or table: each subscription has a stream, one event at a time goes to every
open subscription that is interested in its row, each later than the last
one, and a restart clears everything.  `ImplementsFeed` is the refinement: a
stream is what a connection got and what is queued for it, the last event is the
watermark, and a failed poll, a cancelled task or a write is no step of `Feed`.

### FlagStore and Rollout

`flags` is the table, `req`, `snap` and `resp` are as in `ConfigStore`, and so are
the steps:

| Step | Code |
|---|---|
| `CreateConflict`, `CreateLoad`, `NotFound`, `UpdateLoad`, `DeleteLoad` | the first SELECT with its early return (`flags.py` 84-86, 101-104, 114-118, 130-134) |
| `CreateCommit`, `CreateIntegrityError`, `UpdateCommit`, `UpdateIntegrityError` | the statement that `commit()` flushes (95, 123, 136), accepted or not |
| `Refresh` | `db.refresh` and the response (96-97, 124-125, 137-138) |
| `ReadFlag`, `EvaluateFlag` | a single SELECT and what is computed from it (100-105, 141-152) |
| `DbError`, `Crash` | an OperationalError of any of these; a restart |

The body of a PUT is a function from the fields the client set, which is what
`model_dump(exclude_unset=True)` returns; null is a value like any other.  Each of
the three columns is in the UPDATE by itself if it differs from the loaded one
(`UpdatedColumn`), and a null in `enabled` or `rollout_pct` fails the whole
statement (`SatisfiesNotNull`, `feature_flag.py` 18-19).  DELETE is a PUT of
`enabled = false`.  Values of `rules` that Python finds equal are one value here:
what their difference leads to is the subject of `EqualValuePut`, on the same code pattern.

A bucket is an integer and a percentage a float.  `Rollout` counts percentages in
`Parts` of a percent, for any `Parts`; the hash is the constant `Bucket`, so no
property depends on it.

`held`, `quiet` and `off` are history variables: the fields of a request that the
flag has had as sent at some moment since the load; the DELETEs that met no PUT under way that
enables the flag; and the flags with such a DELETE answered.

`FlagBoard` is what the router promises the callers of a write: a call lists
fields; those that are not as asked when it starts are set together, at one
moment before it is answered with success, and nothing else is; a call that failed
had this effect once or not at all.  `ImplementsBoard` is the refinement: a
request is a call from its load on, what it still has to write is what it sent
and did not find (`Waiting`), and nothing after its commit.

### SdkClient

`call[p]` is the last call of process `p`; `sent[c]` is a request that waits in
the server, at a place `c` that becomes the client of a `ConfigStore` handler when
it is taken up.  A call is open until its answer is looked at; a call that timed
out has raised and forgets its place, and the request goes on there.

| Step | Code |
|---|---|
| `Get`, `Set`, `Delete` | the call and its first request (`client.py` 17-18, 24-28, 41-42) |
| `FallBack` | the POST of `set_config` was answered 409: the PUT (31-37) |
| `Return`, `Raise` | the status is accepted, or becomes `ConfigNotFound` or `ServiceError` (19-22, 29-39, 43-45, 80-84) |
| `TimeOut` | httpx raises: no answer in `timeout` seconds, or no connection (15) |
| `TakeUp`, `GoOn` | the handlers of `ConfigStore` |
| `Restart` | its `Crash`; calls without an answer lose their place |

`Restart` leaves an answer that had been sent.  `list_configs` and `evaluate_flag`
are one request and change nothing.  Values are of type `str`, so Python's `==`
tells them all apart (`SdkConstantsOK`).  `shown` and `rivals` are history
variables: whether, since a set was called, its key has shown its value or been
deleted; and the values of the sets it may have overlapped or that came later.
A set overlaps every write of its key that was under way when it was called,
including those whose callers had given up long before.

### SdkWatch

`via[p]` is the connection of application `p`'s iterator, `unread[p]` what was
sent on it and not read yet.  An application may call `watch()` again whenever
its iterator has ended, while the server still has the old connection
registered (`conn` "gone"): `ConnsOf[p]` are the connections it can have at once.

| Step | Code |
|---|---|
| `Open` | the request of `__iter__`, with the subscription of the server (`watch.py` 19-24) |
| `Yield` | one data line (25-35) |
| `Leave` | the application breaks out of its loop; the `with` block closes the stream |
| `StreamFails` | 5 s without data (`client.py` 15), or the service is gone: httpx raises or the body ends |
| `Send` | `Deliver` of `Watchers` |
| `Restart` | its `Crash`; what is in the socket can still be read |

How long a stream was silent is not in the model: `StreamFails` may come whenever
nothing is unread.  Whether an iterator stops or raises makes no difference to
the feed.  `known` is a history variable: the last revision of each row that the
application heard of from this process of the service.  (docs/SDK.md describes
an iterator that connects again by itself; this one does not.)

### Startup

`db` is the SQLite file: its tables and the version in `alembic_version`.
`service` is the process, from "down" through "upgrading" and "migrated" to
"ready", or "failed".

| Step | Code |
|---|---|
| `Start` | the process is launched and connects (`env.py` 27-37) |
| `Apply`, `Collide` | `upgrade()` of the next migration: its CREATE TABLE succeeds, or the table exists (`versions/*.py`) |
| `StartFails` | any other exception of `lifespan`, at any statement: no configuration, a locked database, a full disk (`main.py` 26-35) |
| `Stamp` | `alembic_version` is written and committed |
| `Upgraded` | `command.upgrade(config, "head")` returns (`main.py` 25-28) |
| `EnsureSchema` | `create_all` (`main.py` 34, `database.py`) |
| `Down` | the process is killed or stops, at any point |

Two facts about the libraries shape it.  On SQLite the driver commits DDL at
once.  Alembic does not hold several migrations in one transaction there, so each version is
stamped by itself.  `torn` is a history variable: a process ended between the two, killed (`Down`) or
by an exception of the stamp itself (`StartFails`).
`main.py` 26 reads an `alembic.ini` that is not in the repository (it is ignored
by git); the module takes it to name `src/alembic` and the service's database.
Downgrades and offline mode are not reached by the service.

### Demo

`main` is the program counter of `main` and the coordinator, which are one
coroutine; `worker[w]` is that of each `worker_agent`; `ready`, `finished` are the
`asyncio.Event`s.  Runs follow each other on one database file.

| Step | Code |
|---|---|
| `Launch`, `Healthy`, `GiveUp` | `start_service`, `wait_for_service` (`multi_agent_demo.py` 57-81, 221-229) |
| `WorkersReady`, `PostFlag`, `Evaluate`, `PostKey`, `PostConflict`, `RequestFails`, `WorkersDone`, `WaitTimeout` | `coordinator` (168-217) |
| `Gathered`, `GatherRaises`, `CancelWorkers`, `StopService`, `Unlink` | `main` (231-245) |
| `Connect`, `ConnectFails`, `Wake`, `EndOfStream`, `ReadKey`, `ReadFails` | `worker_agent` (108-165) |
| `Poll`, `Overlook`, `PollFails` | the feed as a client sees it: what `Watchers` has in detail |
| `ServiceFails`, `ServiceDies`, `Kill` | the start of the service fails by an exception; the service dies under the run; the demo and the service are killed together |

The module has its own small feed and table because the demo meets only three
rows: a flag, and two keys that are absent, left by an earlier run ("old") or of
this run ("new").  A poll emits to all watchers what it finds, in one step, and a
key written in the second of one already emitted may never be found
(`Overlook`).  A worker that sees `finished` leaves without reading: when a run
succeeds at least one worker has read the keys, not both.

## What the runs show

| Run | Bounds | Shows |
|---|---|---|
| `ConfigStoreRaces` | 1 key, 2 writers, 1 reader, 3 values of which two equal, 3 updates, errors and restarts | `TypeOK`; `VersionTracksUpdates`; `DeletedKeyStaysGone`; `VersionCountsUpdates`, `ReadsBackOwnWrite` and `VersionRisesInTurn` while PUTs do not overlap; the store implements `KeyLifecycle` |
| `SdkCalls` | 2 processes, 1 key, 3 places in the server, 2 values, 2 updates, timeouts, errors and restarts | `SdkTypeOK`, `ReturnedSetWasShown`, `AcknowledgedSetHolds`, `NotFoundMeansDeleted` |
| `WatchersFeed` | 2 watchers, 3 tasks, 2 rows of 2 writes, 3 seconds, failing SELECTs and restarts | `TypeOK`, `OnePoller`, `StreamInOrder`, `LossOnlyInToldSecond`, `WatchersAgree`; the feed implements `Feed` |
| `SdkWatching` | 1 application, 2 connections, 2 tasks, 2 rows of 2 writes, 2 seconds, failing SELECTs and restarts, fair | `WatchTypeOK`, `NewsOnly`, `NothingDropped`, `ChangesAreHeard` |
| `FlagRaces` | 1 flag, 2 writers, 1 reader, 3 agents, half percents, 2 bodies of POST and 5 of PUT, errors and restarts | `TypeOK`, `AcknowledgedWasInEffect`, `ColumnsChangeKnowingly`, `KilledFlagStaysOff`, `RolloutReachesItsShare`, `AgentsMoveWithRollout`; the router implements `FlagBoard` |
| `DemoRuns` | 3 runs, 2 workers, 3 migrations, every fault, fair | `DemoTypeOK`, `SchemaFollowsVersion`, `RestartsUnlessTorn`, `SuccessIsGenuine`, `NobodyWaitsInVain`, `EndsOnceReady` |
| `VersionRegression` | 2 writers | **violated**: a stale PUT takes the version back (docs/BACKLOG.md:92) |
| `EqualValuePut` | 1 writer, 1 and true | **violated**: a PUT of an equal value leaves the old one (docs/API.md:117) |
| `SetAfterDelete` | 1 process, 1 place in the server | **violated**: `set_config` of a deleted key raises (docs/SDK.md:221) |
| `LostWrite` | 1 watcher, 1 row, 2 seconds | **violated**: a write in a second already told is never emitted (docs/PRD.md:149) |
| `SilentWatchers` | 1 watcher, failing SELECT, fair | **violated**: connected clients are sent nothing more (docs/PRD.md:149) |
| `DemoCleanup` | 2 runs, only kills | **violated**: after a torn migration no service starts, and the demo leaves the database to all runs to come (demos/README.md:23) |

Why the bounds are enough.  Keys do not interact (no handler touches two rows),
so one is as good as many, and the theorems below hold for any number.  Two
writers show every pairwise race of load, commit and refresh; three updates let
a version fall and rise again.  Two rows and three seconds give a watermark
before, at and after a write, and ties of time broken by id; three tasks are a
failed or cancelled one, its successor, and one more.  `Tick`, `UpdateLoad` and
`BeginWrite` carry the bounds `MaxTime`, `MaxUpdates` and `MaxWrites`; none of
them stops a step that is already under way.  Deadlock is checked in all passing
runs but `DemoRuns`, where the demo may stop for good: after `MaxRuns` runs, or
waiting for a worker that lost the service before its stream stood.  `WatchersFeed` identifies states up to a renaming of tasks, `FlagRaces` up to
one of its writers; neither has a liveness property.  The flags of `FlagRaces` take 0, 1, 98.5 and 100 percent, and its
agents have buckets 0, 1 and 99; `RolloutReachesItsShare` looks at all 100 buckets.  The
bodies of PUT enable, disable with another field, change one field alone, clear
the rules, and send a null that is refused with a field that is valid.

What a POST is answered that loses the race with another is in the model and has
no run: its INSERT breaks the unique constraint in `commit()`, nothing catches that, and
the answer is 500 (`CreateIntegrityError`), where docs/ARCHITECTURE.md:349 lists 409 for
a duplicate.  `SetAfterDelete` needs no race: a POST answers 409 for any row,
an inactive one too, and a PUT 404 for an inactive one, so `set_config` of a deleted
key fails both ways, and does so for ever (`DeletedForGood`).  `NotFoundMeansDeleted` is the
other side: there is no other cause of that 404.  The caller in the trace may give up
on its earlier calls; it need not.

Two SDK callers and a third place in the server give a call that races another
while a request of a third that timed out is still on its way; `updates` and the
sets that may still add to them are bounded together (`SetsPending`).  `SdkCalls`
identifies states that differ in a renaming of callers, places and values, and by
`SdkView` those that differ in what no later step and no property looks at:
versions, history of `ConfigStore`'s own properties, answers nobody waits for.
An application with two connections has a new stream while the old one is being
cleared away, which is all that can happen to it; two tasks are a cancelled or
failed poller and its successor.  Three runs of the demo are one that is torn or
leaves keys behind, one that meets this, and one after it.

Fairness.  `LoopFairness` (only in `FairSpec`): a poll under way goes on, a
running poll loop polls again, and an event queued for a streaming client is
sent.  asyncio runs whatever is ready and `sleep(1)` ends, so each is weakly
fair.  Nothing is assumed of clients, writers, cancellation or the clock.
`ChangesReachClients` speaks only of changes that the watermark has not passed
(`Findable`); the others are what `LostWrite` and `LossOnlyInToldSecond` are about.
`WatchFairness` adds that an application with an unread event asks for the next;
`ChangesAreHeard` excepts a poller that died, which is what `SilentWatchers` shows.
`DemoFairness`: the coroutines of the demo go on, its timers fire (they are
steps of `Main`), and the feed polls.  Nothing is assumed of the service's start, which may fail, of its
death or of kills.  `EndsOnceReady` begins when all streams stand, because before
that nobody looks at a worker that has raised, and the coordinator waits for its
event without a timeout (line 170).

## What is proved

For all values of the constants under each module's assumptions (`ConstantsOK`,
`FlagConstantsOK`, `PartsOK`, `SdkConstantsOK`, `SdkWatchConstantsOK`, `SchemaConstantsOK`,
`DemoConstantsOK`: a typed `EqClass`, `NamespaceOf`, `Interest` and `Bucket`, fault sets from the known names, null values
outside the types, migrations that create at most one table each and none twice),
with no bound on clients, keys, flags, connections, tasks, rows, migrations or runs:

* `ConfigStoreProofs`: `TypeCorrect`, `VersionsTrackUpdates`,
  `DeletedKeysStayGone`, `SerialPutsCount`, `SerialPutsReadBack`, `SerialVersionsRise`, `RefinesLifecycle`,
  `DeletedForGood`.  No safety invariant is inductive by
  itself.  `HandlerInv` says what a client in a handler knows: the key of a PUT
  or DELETE has a row, which never goes away.  `VersionInv` adds that a loaded row, too, has a
  version within the updates, so committing loaded + 1 stays within them.
  `DeletionInv` adds that the row of an answered DELETE is inactive, that a
  DELETE past its commit has made it so, and that whoever read the table
  after the answer is not in a handler for that key with an active row.
  `SerialInv` is about keys outside `overlapped`: at most one PUT is in its
  handler, and until its commit the row is as it loaded it.  The
  refinement maps each commit to the abstract step of its key, a DELETE of a key
  already deleted and all other steps to stuttering.  `SerialVersionsRise`, an action property, takes from `SerialInv` that the
  version is one more than the updates before and after the step, and from the
  refinement that updates are never taken back; `DeletedForGood` says of each key, as
  a formula of two boxes, that once it is deleted it stays so.
* `WatchersProofs`: `TypeCorrect`, `NeverTwoPollers`, `NoOtherLoss`,
  `StreamsInOrder`, `RefinesFeed`, `NoOneIsLeftOut`, `PollHasNext`.  `OnePoller` is inductive with `TypeOK`.  `NoOtherLoss` rests on `FeedInv`: stamps
  never lie ahead of the clock and a transaction's stamp is no older than any
  row's (`ClockInv`), the watermark is a second that was told and all told
  seconds are behind it (`WatermarkInv`), the rows of a poll under way are the
  changed ones (`BatchInv`), and writes committed since its SELECT are no older
  than what it selected (`SinceSelectInv`).  `StreamsInOrder` rests on
  `StreamInv`: what was sent and what is queued is in order and not beyond the
  watermark, and everything in `batch` is beyond it.  `RefinesFeed` needs both:
  the steps that publish are those of `EmitOne`, whose event is later than the last one
  because it is in `batch`, and newer than the one before of its row because of
  `BatchInv`; every other step leaves the streams, queue behind what was got, as they
  are, or opens or ends one.  `NoOneIsLeftOut` is then a fact about broadcasts, taken
  from `FeedProofs` under the refinement's names.  `PollHasNext` is the
  safety side of the poll's progress: while `batch` is not empty all else on the loop
  waits, and the order by time and id has a first row there (`LeastNat`; no two rows
  of `batch` have the same id).
* `FeedProofs`: `StreamsAgree` (if one subscription was sent an event, another
  that was sent something earlier and is interested was sent it too) and
  `StatesGoForward`, of any broadcast.
* `FlagStoreProofs`: `TypeCorrect`, `WritesTakeEffect`, `NoUnaskedChange`,
  `KilledStaysOff`, `RolloutIsExact`, `RolloutShare`, `NoReshuffle`, `RefinesBoard`.  `FlagInv` adds to the type
  that a PUT or DELETE in its handler has a flag that does not go away, and that
  every field it found as wanted counts as held; the commit writes the others.
  `KillInv` adds to `KilledFlagStaysOff` that a DELETE that met no enabling PUT
  still meets none, and that its flag is disabled from its commit on, or from its
  load if it found it disabled and so will write nothing.  `NoUnaskedChange` and
  `NoReshuffle` are action properties: `StepOfFlag` says that a stored flag
  changes only in `UpdateCommit`.  The rollout rests on `ShortcutsAgree` (the cases 0 and
  100 percent say what the comparison says) and `RoundingUp`; `RolloutShare` counts the buckets:
  a percentage is given to exactly as many as it says, rounded up, and a higher one to
  these and others.  `RefinesBoard` has a lemma for each kind of step: a load is `Call`, an
  answer `Acknowledge`, `Fail` or `Ask`, a restart `Forget`, and a commit is `Apply`, or nothing
  if every field was found as wanted.  That `Apply` finds its flag is in `FlagInv`.

* `SdkClientProofs`: `SdkTypeCorrect`, `ReturnedSetsWereShown`,
  `AcknowledgedSetsHold`, `NotFoundIsDeleted`, `ClientsUseTheStore`, `ClientsKeepTheLifecycle`.  `ClientsUseTheStore` says that
  the server under its SDK clients implements `Spec` of `ConfigStore`, so all of
  `ConfigStoreProofs` holds of it, `ClientsKeepTheLifecycle` for one.  `SlotInv` ties a call to the request in its
  place.  `PromiseInv` has three parts: every write under way whose value may still
  appear is among what a set of that key expects (`FlightInv`); a set whose
  request has had its effect has been shown, and a PUT in its handler has either
  been shown or finds its key active (`ShownInv`); and from its effect on the key
  has its value or a rival's (`HoldInv`).  `RefusedInv`: a call that is past its POST, or was
  answered 409, has a key with a row, and a 404 came to a PUT for an inactive one.
* `SdkWatchProofs`: `WatchTypeCorrect`, `OnlyNewsIsTold`, `NothingIsDropped`, `AppsUseTheFeed` (the
  feed under its applications implements `Spec` of `Watchers`).  `NewsInv`: what
  an application knows, and what is unread or queued for it, is no newer than
  what was emitted, each part rising by row and news to the one before; `BatchInv`
  of `WatchersProofs` says that what is emitted next is newer still.
  `NothingIsDropped` is the safety half of `ChangesAreHeard`: a change an application is
  to hear of is in the table where the next poll finds it, in the poll under way, in
  the queue, or on the wire (`OnItsWay`), and each step takes it from one place
  to a later one or leaves it.  A write over it makes way for a later revision; that the watermark does
  not pass it is `SinceSelectInv` and the strictness of `Findable`.
* `DemoProofs`: `DemoTypeCorrect`, `SchemasFollowVersions`, `StartsCanBeRepeated`,
  `SuccessesAreGenuine`, `NobodyIsLeftWaiting`.  `SchemaInv` says exactly which tables there are in each
  state of the process: those of the stamped migrations, or one migration's more if
  it is applied and not stamped or the file is torn.  `StartsCanBeRepeated` follows:
  the file of a start that is not torn has the tables of the stamped migrations, and no
  other migration creates one of those.  `DemoStartup` shows that every step of
  the demo is, for the file and the process, one of `StartupNext`; it needs that
  the file is removed only while nothing runs (`IdleInv`).  `RunInv` says that both
  keys are of this run when the coordinator waits, that a worker that read an
  old key implies a row that is old still, and that `finished` implies a worker
  that read both.  `NobodyIsLeftWaiting` is the safety half of `EndsOnceReady`.  Its invariants
  are `StreamsInv` (from the first request on every worker has its stream or has ended, and the
  second key is never there without the first) and `WakeInv`: if any worker
  was woken, each that still listens has an event coming or the end of
  its stream, and before the first key nobody is woken.

Only model-checked: the liveness properties `ChangesAreHeard` and
`EndsOnceReady`.  The prover has no rule for fairness and ENABLED; what it can
say of them is that the way to the goal stays open, which is `NothingIsDropped`,
`PollHasNext` and `NobodyIsLeftWaiting`.  The properties of the runs that find a
violation (`VersionNeverFalls` and the others) are false of the code, so there is
nothing to prove; `SerialVersionsRise` and `NoOtherLoss` say how far two of them hold.

## Not modelled

Left out of the modelled parts: request validation and formatting; the content
of events beyond row, time and revision; the connection pool and lock waits,
which appear as `DbError` and `PollFail`; a clock that steps back; how long a
synchronous SELECT keeps the event loop; the size of queues, which the code does
not limit.  The demo is not composed with `ConfigStore` and `Watchers` themselves:
the product would be out of TLC's reach, and the demo has one writer.

Not modelled at all: health and readiness (a constant, and one `SELECT 1`),
`bootstrap-swarm.sh` (not part of the service), the features the documents describe
and the source lacks.

What could come next: a clock that steps back in `Watchers`, with what
`LossOnlyInToldSecond` then becomes; the demo's feed shown to be an abstraction of
`Watchers`.
