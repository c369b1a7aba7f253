--------------------------------- MODULE Demo ---------------------------------
(***************************************************************************)
(* The multi-agent demo (src/demos/multi_agent_demo.py) with the service   *)
(* it starts.  A run launches the service on demo_coordination.db and,     *)
(* when it is healthy, two workers, each with a watch stream; the          *)
(* coordinator waits for the streams, creates a flag and writes two keys;  *)
(* a worker that is sent an event reads both keys and sets the event       *)
(* "finished"; the run ends by stopping the service and removing the       *)
(* database.  A run that is killed leaves its database to the next one.    *)
(*                                                                         *)
(* main and the coordinator are one coroutine, with main as its program    *)
(* counter.  Of the config router and the change feed the module keeps     *)
(* what a client of them sees; the service dies with a run that is killed, *)
(* as when the machine or the process group goes down.                     *)
(***************************************************************************)
EXTENDS Startup, FiniteSets

CONSTANTS
  Workers,    \* the worker agents
  DemoFaults, \* "kill", "start", "service", "slow", "http" and "feed"
  MaxRuns     \* bound: runs of the demo

ConfigKeys == {"task", "worker_count"}

MainStates == {"idle", "starting", "ready", "flag", "evaluate", "task", "worker_count",
               "wait", "gather", "cancel", "stop", "unlink", "ended"}

WorkerStates == {"none", "new", "listening", "task", "worker_count",
                 "read", "left", "raised", "cancelled"}

ASSUME DemoConstantsOK ==
  /\ IsFiniteSet(Workers)
  /\ DemoFaults \subseteq {"kill", "start", "service", "slow", "http", "feed"}
  /\ MaxRuns \in Nat

VARIABLES
  main,    \* where main and its coordinator are
  result,  \* how the run ends: "none" yet, "ok", "error", or "unhealthy"
  worker,  \* where each worker_agent is
  ready,   \* the workers whose event "ready" is set
  finished,\* the event the workers share
  flag,    \* the flag has a row
  rows,    \* the config keys: "none", of an "old" run, or of this one ("new")
  polled,  \* the keys that the poll loop has emitted or will never find
  polling, \* the poll loop runs
  events,  \* the workers with an event that they have not read yet
  stale,   \* history: the workers that read a key of an old run
  runs     \* the runs so far

agentVars == <<worker, ready, finished, stale>>
dataVars == <<flag, rows>>
feedVars == <<polled, polling, events>>
demoVars == <<startupVars, main, result, agentVars, dataVars, feedVars, runs>>

DemoInit ==
  /\ StartupInit
  /\ main = "idle" /\ result = "none"
  /\ worker = [w \in Workers |-> "none"]
  /\ ready = {} /\ finished = FALSE /\ stale = {}
  /\ flag = FALSE /\ rows = [k \in ConfigKeys |-> "none"]
  /\ polled = {} /\ polling = FALSE /\ events = {}
  /\ runs = 0

Serving == service = "ready"
Present == {k \in ConfigKeys : rows[k] # "none"}
Watching == {w \in Workers : worker[w] \in {"listening", "task", "worker_count"}}

-----------------------------------------------------------------------------
(* The service, as its clients see it. *)

(* What its process kept in memory is lost; of the events under way those  *)
(* already in a socket can still be read.                                  *)
ServiceGone ==
  /\ Down
  /\ polled' = {} /\ polling' = FALSE
  /\ events' \in SUBSET events
  /\ UNCHANGED <<db, dataVars>>

(* Variant: an event goes to one watcher. *)
PollOne ==
  /\ Serving /\ polling /\ Present \ polled # {}
  /\ polled' = polled \cup Present
  /\ \E w \in Watching : events' = events \cup {w}
  /\ UNCHANGED <<startupVars, main, result, agentVars, dataVars, polling, runs>>

(* A poll emits what it finds to all watchers. *)
Poll ==
  /\ Serving /\ polling /\ Present \ polled # {}
  /\ polled' = polled \cup Present
  /\ events' = events \cup Watching
  /\ UNCHANGED <<startupVars, main, result, agentVars, dataVars, polling, runs>>

(* A key written in the second of one that was emitted may never be found. *)
Overlook ==
  /\ polled # {}
  /\ \E k \in Present \ polled : polled' = polled \cup {k}
  /\ UNCHANGED <<startupVars, main, result, agentVars, dataVars, polling, events, runs>>

(* An exception of the SELECT ends the poll loop. *)
PollFails ==
  /\ "feed" \in DemoFaults
  /\ polling
  /\ polling' = FALSE
  /\ UNCHANGED <<startupVars, main, result, agentVars, dataVars, polled, events, runs>>

ServiceStep ==
  /\ Lifespan
  /\ UNCHANGED <<main, result, agentVars, dataVars, feedVars, runs>>

(* Its start fails of itself. *)
ServiceFails ==
  /\ "start" \in DemoFaults
  /\ StartFails
  /\ UNCHANGED <<main, result, agentVars, dataVars, feedVars, runs>>

(* The service dies under the run.  Nothing restarts it. *)
ServiceDies ==
  /\ "service" \in DemoFaults
  /\ service \notin {"down", "failed"}
  /\ ServiceGone
  /\ UNCHANGED <<main, result, agentVars, runs>>

-----------------------------------------------------------------------------
(* main and coordinator *)

To(pc) == main' = pc /\ UNCHANGED <<startupVars, result, agentVars, feedVars, runs>>

(* start_service, outside the try block. *)
Launch ==
  /\ main \in {"idle", "ended"}
  /\ runs < MaxRuns
  /\ runs' = runs + 1
  /\ main' = "starting" /\ result' = "none"
  /\ worker' = [w \in Workers |-> "none"]
  /\ ready' = {} /\ finished' = FALSE /\ stale' = {}
  /\ rows' = [k \in ConfigKeys |-> IF rows[k] = "none" THEN "none" ELSE "old"]
  /\ events' = {}
  /\ Start
  /\ UNCHANGED <<flag, polled, polling>>

(* wait_for_service gets its answer; main creates the workers. *)
Healthy ==
  /\ main = "starting" /\ Serving
  /\ main' = "ready"
  /\ worker' = [w \in Workers |-> "new"]
  /\ UNCHANGED <<startupVars, result, ready, finished, stale, dataVars, feedVars, runs>>

(* It raises after 60 attempts, or when one gets no answer in 5 s.  No      *)
(* finally block is entered, and what is left of the process goes with the *)
(* event loop.                                                             *)
GiveUp ==
  /\ main = "starting"
  /\ service \in {"down", "failed"} \/ "slow" \in DemoFaults
  /\ main' = "ended" /\ result' = "unhealthy"
  /\ ServiceGone
  /\ UNCHANGED <<agentVars, runs>>

(* Any exception leads to the finally block. *)
Fail ==
  /\ main' = "cancel" /\ result' = "error"
  /\ UNCHANGED <<startupVars, agentVars, feedVars, runs>>

WorkersReady ==
  /\ main = "ready" /\ ready = Workers
  /\ To("flag")
  /\ UNCHANGED dataVars

(* 201, or a 409 that is tolerated. *)
PostFlag ==
  /\ main = "flag" /\ Serving
  /\ flag' = TRUE
  /\ To("evaluate")
  /\ UNCHANGED rows

Evaluate ==
  /\ main = "evaluate" /\ Serving /\ flag
  /\ To("task")
  /\ UNCHANGED dataVars

After(k) == IF k = "task" THEN "worker_count" ELSE "wait"

(* Variant: a 409 for a key is tolerated as it is for the flag. *)
PostReused(k) ==
  /\ main = k /\ Serving
  /\ rows' = [rows EXCEPT ![k] = IF @ = "none" THEN "new" ELSE @]
  /\ To(After(k))
  /\ UNCHANGED flag

PostKey(k) ==
  /\ main = k /\ Serving
  /\ rows[k] = "none"
  /\ rows' = [rows EXCEPT ![k] = "new"]
  /\ To(After(k))
  /\ UNCHANGED flag

PostConflict(k) ==
  /\ main = k /\ Serving
  /\ rows[k] # "none"
  /\ Fail
  /\ UNCHANGED dataVars

(* No answer in 5 s, or no connection: the request may have been handled. *)
RequestFails ==
  /\ main \in {"flag", "evaluate"} \cup ConfigKeys
  /\ ~ Serving \/ "http" \in DemoFaults
  /\ \/ UNCHANGED dataVars
     \/ Serving /\ main = "flag" /\ flag' = TRUE /\ UNCHANGED rows
     \/ /\ Serving /\ main \in ConfigKeys /\ rows[main] = "none"
        /\ rows' = [rows EXCEPT ![main] = "new"] /\ UNCHANGED flag
  /\ Fail

WorkersDone ==
  /\ main = "wait" /\ finished
  /\ To("gather")
  /\ UNCHANGED dataVars

(* wait_for(workers_done.wait(), timeout=10) *)
WaitTimeout ==
  /\ main = "wait" /\ ~ finished
  /\ Fail
  /\ UNCHANGED dataVars

(* gather returns when all workers have ended, and raises with the first   *)
(* that raises.                                                            *)
Gathered ==
  /\ main = "gather"
  /\ \A w \in Workers : worker[w] \in {"read", "left"}
  /\ main' = "cancel" /\ result' = "ok"
  /\ UNCHANGED <<startupVars, agentVars, dataVars, feedVars, runs>>

GatherRaises ==
  /\ main = "gather"
  /\ \E w \in Workers : worker[w] = "raised"
  /\ Fail
  /\ UNCHANGED dataVars

(* The finally block: cancel, stop_service, unlink. *)
CancelWorkers ==
  /\ main = "cancel"
  /\ main' = "stop"
  /\ worker' = [w \in Workers |-> IF worker[w] \in {"read", "left", "raised"} THEN worker[w]
                                  ELSE "cancelled"]
  /\ UNCHANGED <<startupVars, result, ready, finished, stale, dataVars, feedVars, runs>>

StopService ==
  /\ main = "stop"
  /\ main' = "unlink"
  /\ ServiceGone
  /\ UNCHANGED <<result, agentVars, runs>>

Unlink ==
  /\ main = "unlink"
  /\ main' = "ended"
  /\ db' = NoDatabase /\ torn' = FALSE
  /\ flag' = FALSE /\ rows' = [k \in ConfigKeys |-> "none"]
  /\ UNCHANGED <<service, applied, result, agentVars, feedVars, runs>>

-----------------------------------------------------------------------------
(* worker_agent *)

Worker(w, pc) == worker' = [worker EXCEPT ![w] = pc]

(* The stream's headers are there, and with them its subscription, which   *)
(* starts a poll loop if none runs.  "finished" is looked at first.        *)
Connect(w) ==
  /\ worker[w] = "new" /\ Serving
  /\ Worker(w, IF finished THEN "left" ELSE "listening")
  /\ ready' = ready \cup {w}
  /\ polling' = TRUE
  /\ UNCHANGED <<startupVars, main, result, finished, stale, dataVars, polled, events, runs>>

ConnectFails(w) ==
  /\ worker[w] = "new" /\ ~ Serving
  /\ Worker(w, "raised")
  /\ UNCHANGED <<startupVars, main, result, ready, finished, stale, dataVars, feedVars, runs>>

(* A chunk with an event: the loop looks at "finished" before the event. *)
Wake(w) ==
  /\ worker[w] = "listening" /\ w \in events
  /\ events' = events \ {w}
  /\ Worker(w, IF finished THEN "left" ELSE "task")
  /\ UNCHANGED <<startupVars, main, result, ready, finished, stale, dataVars, polled, polling, runs>>

EndOfStream(w) ==
  /\ worker[w] = "listening" /\ w \notin events /\ ~ Serving
  /\ Worker(w, "left")
  /\ UNCHANGED <<startupVars, main, result, ready, finished, stale, dataVars, feedVars, runs>>

ReadKey(w, k) ==
  /\ worker[w] = k /\ Serving
  /\ rows[k] # "none"
  /\ Worker(w, IF k = "task" THEN "worker_count" ELSE "read")
  /\ finished' = (finished \/ k = "worker_count")
  /\ stale' = IF rows[k] = "old" THEN stale \cup {w} ELSE stale
  /\ UNCHANGED <<startupVars, main, result, ready, dataVars, feedVars, runs>>

(* 404, no answer, or no connection. *)
ReadFails(w, k) ==
  /\ worker[w] = k
  /\ rows[k] = "none" \/ ~ Serving \/ "http" \in DemoFaults
  /\ Worker(w, "raised")
  /\ UNCHANGED <<startupVars, main, result, ready, finished, stale, dataVars, feedVars, runs>>

-----------------------------------------------------------------------------
(* The demo and its service are killed. *)
Kill ==
  /\ "kill" \in DemoFaults
  /\ main \notin {"idle", "ended"}
  /\ main' = "idle" /\ result' = "none"
  /\ worker' = [w \in Workers |-> "none"]
  /\ ready' = {} /\ finished' = FALSE /\ stale' = {}
  /\ Down
  /\ polled' = {} /\ polling' = FALSE /\ events' = {}
  /\ UNCHANGED <<db, dataVars, runs>>

Main ==
  \/ Healthy \/ GiveUp
  \/ WorkersReady \/ PostFlag \/ Evaluate
  \/ \E k \in ConfigKeys : PostKey(k) \/ PostConflict(k)
  \/ RequestFails
  \/ WorkersDone \/ WaitTimeout \/ Gathered \/ GatherRaises
  \/ CancelWorkers \/ StopService \/ Unlink

WorkerAgent(w) ==
  \/ Connect(w) \/ ConnectFails(w)
  \/ Wake(w) \/ EndOfStream(w)
  \/ \E k \in ConfigKeys : ReadKey(w, k) \/ ReadFails(w, k)

DemoNext ==
  \/ Launch \/ Main
  \/ \E w \in Workers : WorkerAgent(w)
  \/ ServiceStep \/ Poll \/ Overlook \/ PollFails
  \/ ServiceFails \/ ServiceDies \/ Kill

DemoSpec == DemoInit /\ [][DemoNext]_demoVars

(* The coroutines and the poll loop go on, and the timers fire. *)
DemoFairness ==
  /\ WF_demoVars(Main)
  /\ \A w \in Workers : WF_demoVars(WorkerAgent(w))
  /\ WF_demoVars(Poll)

FairDemoSpec == DemoSpec /\ DemoFairness

-----------------------------------------------------------------------------
(* Type invariant. *)
DemoTypeOK ==
  /\ StartupTypeOK
  /\ main \in MainStates
  /\ result \in {"none", "ok", "error", "unhealthy"}
  /\ worker \in [Workers -> WorkerStates]
  /\ ready \in SUBSET Workers /\ finished \in BOOLEAN /\ stale \in SUBSET Workers
  /\ flag \in BOOLEAN /\ rows \in [ConfigKeys -> {"none", "old", "new"}]
  /\ polled \in SUBSET ConfigKeys /\ polling \in BOOLEAN /\ events \in SUBSET Workers
  /\ runs \in Nat

(* A run reports success only if a worker has read both keys as this run   *)
(* wrote them and no worker has read one of an earlier run or failed: not  *)
(* over the database of a killed run, not when a worker is woken by the    *)
(* first key and misses the second, not when the service dies under it.    *)
SuccessIsGenuine ==
  result = "ok" =>
    /\ stale = {}
    /\ \A w \in Workers : worker[w] \in {"read", "left"}
    /\ \E w \in Workers : worker[w] = "read"

(* gather has no timeout.  When it waits for a worker that has not ended,  *)
(* that worker is at a request, or its stream brings an event or its end:  *)
(* there is no worker that one poll left out while it woke another.        *)
NobodyWaitsInVain ==
  main = "gather" => \A w \in Workers :
    /\ worker[w] \notin {"none", "new", "cancelled"}
    /\ worker[w] = "listening" => w \in events \/ ~ Serving

(* Once all streams stand a run comes to its end, whatever fails: if no    *)
(* worker is woken the coordinator's timeout ends it, and if one worker    *)
(* was woken the others are too, so that gather, which has no timeout,     *)
(* returns.                                                                *)
EndsOnceReady == main = "flag" ~> main \in {"ended", "idle"}

(* "Shuts down the service and cleans up the demo database"                *)
(* (demos/README.md:23): a run that ends leaves neither.                   *)
DemoCleansUp == main = "ended" => service = "down" /\ db = NoDatabase
=============================================================================
