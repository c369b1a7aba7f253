------------------------------ MODULE DemoProofs ------------------------------
(***************************************************************************)
(* Theorems about Startup and Demo, for any migrations, workers, faults    *)
(* and number of runs.                                                     *)
(***************************************************************************)
EXTENDS Demo, TLAPS

(* How far the schema, its version and the process are apart. *)
SchemaInv ==
  /\ StartupTypeOK
  /\ db = NoDatabase => service = "down" /\ ~ applied /\ ~ torn
  /\ db # NoDatabase /\ ~ applied /\ ~ torn => db.tables = TablesUpTo(db.version)
  /\ applied => /\ service = "upgrading" /\ ~ torn /\ db.version < HeadRev
                /\ db.tables = TablesUpTo(db.version + 1)
  /\ torn => /\ db.version < HeadRev /\ Creates[db.version + 1] # {}
             /\ db.tables = TablesUpTo(db.version + 1)
  /\ service \in {"migrated", "ready"} => db.version = HeadRev

(* What can happen to a database and the process that uses it. *)
Remove == db' = NoDatabase /\ torn' = FALSE /\ UNCHANGED <<service, applied>>

StartupNext ==
  \/ Start
  \/ Lifespan
  \/ StartFails
  \/ Down /\ UNCHANGED db
  \/ Remove /\ service = "down"

-----------------------------------------------------------------------------
(* The tables of the first migrations. *)
LEMMA TablesGrow ==
  /\ TablesUpTo(0) = {}
  /\ TablesUpTo(HeadRev) = Tables
  /\ \A n \in 0 .. HeadRev : TablesUpTo(n) \subseteq Tables
  /\ \A n \in 0 .. HeadRev : n < HeadRev =>
       /\ TablesUpTo(n + 1) = TablesUpTo(n) \cup Creates[n + 1]
       /\ TablesUpTo(n) \cap Creates[n + 1] = {}
       /\ n + 1 \in 1 .. HeadRev
<1> USE SchemaConstantsOK
<1>1. TablesUpTo(0) = {}
  BY DEF TablesUpTo
<1>2. TablesUpTo(HeadRev) = Tables
  BY DEF TablesUpTo, Tables
<1>3. ASSUME NEW n \in 0 .. HeadRev
      PROVE  TablesUpTo(n) \subseteq Tables
  BY DEF TablesUpTo, Tables
<1>4. ASSUME NEW n \in 0 .. HeadRev, n < HeadRev
      PROVE  /\ TablesUpTo(n + 1) = TablesUpTo(n) \cup Creates[n + 1]
             /\ TablesUpTo(n) \cap Creates[n + 1] = {}
             /\ n + 1 \in 1 .. HeadRev
  <2>1. n + 1 \in 1 .. HeadRev /\ 1 .. (n + 1) = (1 .. n) \cup {n + 1}
    BY <1>4
  <2>2. TablesUpTo(n + 1) = TablesUpTo(n) \cup Creates[n + 1]
    BY <2>1 DEF TablesUpTo
  <2>3. \A m \in 1 .. n : m \in 1 .. HeadRev /\ m # n + 1
    BY <1>4
  <2>4. TablesUpTo(n) \cap Creates[n + 1] = {}
    BY <2>1, <2>3 DEF TablesUpTo
  <2> QED
    BY <2>1, <2>2, <2>4
<1> QED
  BY <1>1, <1>2, <1>3, <1>4

LEMMA InitSchemaInv == StartupInit => SchemaInv
BY DEF StartupInit, SchemaInv, StartupTypeOK

LEMMA NextSchemaInv == SchemaInv /\ [StartupNext]_startupVars => SchemaInv'
<1> SUFFICES ASSUME SchemaInv, [StartupNext]_startupVars
             PROVE  SchemaInv'
  OBVIOUS
<1> USE SchemaConstantsOK
<1>0. /\ db # NoDatabase => db \in Database /\ db.version \in 0 .. HeadRev
                            /\ db.tables \in SUBSET Tables
      /\ applied \in BOOLEAN /\ torn \in BOOLEAN
  BY DEF SchemaInv, StartupTypeOK, Database
<1>1. CASE Start
  <2>1. CASE db = NoDatabase
    <3>1. /\ [tables |-> {}, version |-> 0] \in Database
          /\ db' = [tables |-> {}, version |-> 0]
      BY <1>1, <2>1 DEF Start, Database
    <3>2. db' # NoDatabase /\ db'.tables = {} /\ db'.version = 0
      BY <3>1
    <3> QED
      BY <1>1, <2>1, <3>1, <3>2, TablesGrow DEF Start, SchemaInv, StartupTypeOK
  <2>2. CASE db # NoDatabase
    BY <1>1, <2>2 DEF Start, SchemaInv, StartupTypeOK
  <2> QED
    BY <2>1, <2>2
<1>2. CASE Apply
  <2>1. /\ db # NoDatabase /\ ~ applied /\ db.version < HeadRev
        /\ Creates[db.version + 1] \cap db.tables = {}
    BY <1>2 DEF Apply, Migrating, SchemaInv
  <2>2. ~ torn
    BY <1>0, <2>1, TablesGrow DEF SchemaInv
  <2>3. db.tables \cup Creates[db.version + 1] = TablesUpTo(db.version + 1)
    BY <1>0, <2>1, <2>2, TablesGrow DEF SchemaInv
  <2>4. TablesUpTo(db.version + 1) \in SUBSET Tables
    BY <1>0, <2>1, TablesGrow
  <2>5. db' = [db EXCEPT !.tables = TablesUpTo(db.version + 1)]
    BY <1>2, <2>3 DEF Apply
  <2>6. db' \in Database /\ db'.version = db.version /\ db'.tables = TablesUpTo(db.version + 1)
    BY <1>0, <2>1, <2>4, <2>5 DEF Database
  <2>7. db' # NoDatabase
    BY <2>6
  <2> QED
    BY <1>2, <2>1, <2>2, <2>6, <2>7 DEF Apply, Migrating, SchemaInv, StartupTypeOK
<1>3. CASE Collide
  <2>1. db # NoDatabase /\ ~ applied
    BY <1>3 DEF Collide, Migrating, SchemaInv
  <2> QED
    BY <1>3, <2>1 DEF Collide, SchemaInv, StartupTypeOK
<1>4. CASE Stamp
  <2>1. /\ db # NoDatabase /\ applied /\ db.version < HeadRev /\ ~ torn
        /\ db.tables = TablesUpTo(db.version + 1) /\ service = "upgrading"
    BY <1>4 DEF Stamp, Migrating, SchemaInv
  <2>2. db' = [db EXCEPT !.version = db.version + 1] /\ db.version + 1 \in 0 .. HeadRev
    BY <1>0, <1>4, <2>1 DEF Stamp
  <2>3. db' \in Database /\ db'.version = db.version + 1 /\ db'.tables = db.tables
    BY <1>0, <2>1, <2>2 DEF Database
  <2>4. db' # NoDatabase
    BY <2>3
  <2> QED
    BY <1>4, <2>1, <2>3, <2>4 DEF Stamp, SchemaInv, StartupTypeOK
<1>5. CASE Upgraded
  BY <1>0, <1>5 DEF Upgraded, SchemaInv, StartupTypeOK
<1>6. CASE EnsureSchema
  <2>1. /\ db # NoDatabase /\ db.version = HeadRev /\ ~ applied /\ ~ torn
        /\ db.tables = Tables
    BY <1>0, <1>6, TablesGrow DEF EnsureSchema, SchemaInv
  <2>2. db' = [db EXCEPT !.tables = Tables]
    BY <1>6, <2>1 DEF EnsureSchema
  <2>3. db' \in Database /\ db'.version = HeadRev /\ db'.tables = Tables
    BY <1>0, <2>1, <2>2 DEF Database
  <2>4. db' # NoDatabase
    BY <2>3
  <2> QED
    BY <1>6, <2>1, <2>3, <2>4, TablesGrow DEF EnsureSchema, SchemaInv, StartupTypeOK
<1>7. CASE (Down \/ StartFails) /\ UNCHANGED db
  <2>1. /\ db' = db /\ applied' = FALSE /\ torn' = (torn \/ Tears)
        /\ service' = "down" \/ (service' = "failed" /\ db # NoDatabase)
    BY <1>7 DEF Down, StartFails, SchemaInv
  <2>2. CASE applied
    <3>1. /\ db # NoDatabase /\ db.version < HeadRev /\ ~ torn
          /\ db.tables = TablesUpTo(db.version + 1)
      BY <2>2 DEF SchemaInv
    <3>2. Creates[db.version + 1] = {} => db.tables = TablesUpTo(db.version)
      BY <1>0, <3>1, TablesGrow
    <3>3. torn' = (Creates[db.version + 1] # {})
      BY <1>0, <2>1, <2>2, <3>1 DEF Tears
    <3> QED
      BY <2>1, <3>1, <3>2, <3>3 DEF SchemaInv, StartupTypeOK
  <2>3. CASE ~ applied
    <3>1. torn' = torn /\ applied' = applied
      BY <1>0, <2>1, <2>3 DEF Tears
    <3> QED
      BY <1>0, <2>1, <2>3, <3>1 DEF SchemaInv, StartupTypeOK
  <2> QED
    BY <2>2, <2>3
<1>8. CASE Remove /\ service = "down"
  BY <1>0, <1>8 DEF Remove, SchemaInv, StartupTypeOK
<1>9. CASE UNCHANGED startupVars
  BY <1>9 DEF startupVars, SchemaInv, StartupTypeOK
<1> QED
  BY <1>1, <1>2, <1>3, <1>4, <1>5, <1>6, <1>7, <1>8, <1>9 DEF StartupNext, Lifespan, StartFails

-----------------------------------------------------------------------------
(* What the runs of the demo add. *)

(* The database is removed only while nothing uses it. *)
IdleInv == main \in {"idle", "ended", "unlink"} => service = "down"

LEMMA NextIdleInv == IdleInv /\ [DemoNext]_demoVars => IdleInv'
<1> SUFFICES ASSUME IdleInv, [DemoNext]_demoVars PROVE IdleInv'
  OBVIOUS
<1>1. CASE Launch
  BY <1>1 DEF Launch, IdleInv
<1>2. CASE Main
  <2>1. \/ main' \notin {"idle", "ended", "unlink"}
        \/ service' = "down"
        \/ main = "unlink" /\ service' = service
    BY <1>2 DEF Main, Healthy, GiveUp, ServiceGone, Down, WorkersReady, PostFlag, Evaluate,
         PostKey, PostConflict, RequestFails, WorkersDone, WaitTimeout, Gathered, GatherRaises,
         CancelWorkers, StopService, Unlink, To, Fail, After
  <2> QED
    BY <2>1 DEF IdleInv
<1>3. ASSUME NEW w \in Workers, WorkerAgent(w)
      PROVE  main' = main /\ service' = service
  BY <1>3 DEF WorkerAgent, Connect, ConnectFails, Wake, EndOfStream, ReadKey, ReadFails, startupVars
<1>4. CASE ServiceStep
  BY <1>4 DEF ServiceStep, Lifespan, Apply, Collide, Stamp, Upgraded, EnsureSchema, Migrating, IdleInv
<1>5. CASE Poll \/ Overlook \/ PollFails
  BY <1>5 DEF Poll, Overlook, PollFails, startupVars, IdleInv
<1>6. CASE ServiceFails \/ ServiceDies \/ Kill
  BY <1>6 DEF ServiceFails, StartFails, ServiceDies, Kill, ServiceGone, Down, IdleInv
<1>7. CASE UNCHANGED demoVars
  BY <1>7 DEF demoVars, startupVars, IdleInv
<1> QED
  BY <1>1, <1>2, <1>3, <1>4, <1>5, <1>6, <1>7 DEF DemoNext, IdleInv

(* Whatever a step of the demo does, to its database and its service it is *)
(* a start, a step of lifespan, its failure, a stop, or the removal of the *)
(* file.                                                                   *)
LEMMA DemoStartup == IdleInv /\ [DemoNext]_demoVars => [StartupNext]_startupVars
<1> SUFFICES ASSUME IdleInv, [DemoNext]_demoVars PROVE [StartupNext]_startupVars
  OBVIOUS
<1>1. CASE Launch
  BY <1>1 DEF Launch, StartupNext
<1>2. CASE Main
  <2>1. CASE GiveUp \/ StopService
    BY <2>1 DEF GiveUp, StopService, ServiceGone, StartupNext
  <2>2. CASE Unlink
    BY <2>2 DEF Unlink, Remove, IdleInv, StartupNext
  <2>3. CASE Main /\ ~ GiveUp /\ ~ StopService /\ ~ Unlink
    BY <2>3 DEF Main, Healthy, WorkersReady, PostFlag, Evaluate, PostKey, PostConflict,
         RequestFails, WorkersDone, WaitTimeout, Gathered, GatherRaises, CancelWorkers, To, Fail
  <2> QED
    BY <1>2, <2>1, <2>2, <2>3
<1>3. ASSUME NEW w \in Workers, WorkerAgent(w)
      PROVE  UNCHANGED startupVars
  BY <1>3 DEF WorkerAgent, Connect, ConnectFails, Wake, EndOfStream, ReadKey, ReadFails
<1>4. CASE ServiceStep
  BY <1>4 DEF ServiceStep, StartupNext
<1>5. CASE Poll \/ Overlook \/ PollFails
  BY <1>5 DEF Poll, Overlook, PollFails
<1>6. CASE ServiceFails \/ ServiceDies \/ Kill
  BY <1>6 DEF ServiceFails, ServiceDies, Kill, ServiceGone, StartupNext
<1>7. CASE UNCHANGED demoVars
  BY <1>7 DEF demoVars
<1> QED
  BY <1>1, <1>2, <1>3, <1>4, <1>5, <1>6, <1>7 DEF DemoNext

LEMMA SchemaInvariant == DemoSpec => []SchemaInv
<1>1. DemoInit => SchemaInv /\ IdleInv
  BY InitSchemaInv DEF DemoInit, StartupInit, IdleInv
<1>2. SchemaInv /\ IdleInv /\ [DemoNext]_demoVars => SchemaInv' /\ IdleInv'
  BY NextIdleInv, DemoStartup, NextSchemaInv
<1> QED
  BY <1>1, <1>2, PTL DEF DemoSpec

(* Of whatever migrations, the schema is never behind its version and at   *)
(* most one CREATE TABLE ahead of it, however often the service is killed. *)
THEOREM SchemasFollowVersions == DemoSpec => []SchemaFollowsVersion
<1>1. SchemaInv => SchemaFollowsVersion
  BY TablesGrow, SchemaConstantsOK
     DEF SchemaInv, SchemaFollowsVersion, StartupTypeOK, Database
<1> QED
  BY <1>1, SchemaInvariant, PTL

(* However many starts and services were ended, and wherever, the next     *)
(* start finds none of the tables it has to create, of whatever            *)
(* migrations, unless one was ended between a CREATE TABLE and its stamp.  *)
THEOREM StartsCanBeRepeated == DemoSpec => []RestartsUnlessTorn
<1>1. SchemaInv => RestartsUnlessTorn
  <2> SUFFICES ASSUME SchemaInv, service = "upgrading", ~ applied, ~ torn,
                      NEW m \in (db.version + 1) .. HeadRev
               PROVE  Creates[m] \cap db.tables = {}
    BY DEF RestartsUnlessTorn
  <2>1. db # NoDatabase /\ db.version \in 0 .. HeadRev /\ db.tables = TablesUpTo(db.version)
    BY DEF SchemaInv, StartupTypeOK, Database
  <2>2. m \in 1 .. HeadRev /\ \A n \in 1 .. db.version : n \in 1 .. HeadRev /\ n # m
    BY <2>1, SchemaConstantsOK
  <2> QED
    BY <2>1, <2>2, SchemaConstantsOK DEF TablesUpTo
<1> QED
  BY <1>1, SchemaInvariant, PTL

-----------------------------------------------------------------------------
(* The types of the agents, without those of Startup. *)
AgentTypeOK ==
  /\ main \in MainStates
  /\ result \in {"none", "ok", "error", "unhealthy"}
  /\ worker \in [Workers -> WorkerStates]
  /\ ready \in SUBSET Workers /\ finished \in BOOLEAN /\ stale \in SUBSET Workers
  /\ flag \in BOOLEAN /\ rows \in [ConfigKeys -> {"none", "old", "new"}]
  /\ polled \in SUBSET ConfigKeys /\ polling \in BOOLEAN /\ events \in SUBSET Workers
  /\ runs \in Nat

LEMMA InitAgentType == DemoInit => AgentTypeOK
<1> SUFFICES ASSUME DemoInit PROVE AgentTypeOK
  OBVIOUS
<1>1. worker \in [Workers -> WorkerStates] /\ rows \in [ConfigKeys -> {"none", "old", "new"}]
  BY DEF DemoInit, WorkerStates
<1> QED
  BY <1>1 DEF DemoInit, AgentTypeOK, MainStates

(* No process of the service, and no worker, is in an unknown state. *)
LEMMA NextAgentType == AgentTypeOK /\ [DemoNext]_demoVars => AgentTypeOK'
<1> SUFFICES ASSUME AgentTypeOK, [DemoNext]_demoVars PROVE AgentTypeOK'
  OBVIOUS
<1> USE DEF AgentTypeOK, MainStates, WorkerStates
<1>1. CASE Launch
  <2>1. /\ worker' \in [Workers -> WorkerStates]
        /\ rows' \in [ConfigKeys -> {"none", "old", "new"}]
    BY <1>1 DEF Launch
  <2>2. /\ main' = "starting" /\ result' = "none" /\ ready' = {} /\ finished' = FALSE
        /\ stale' = {} /\ events' = {}
        /\ flag' = flag /\ polled' = polled /\ polling' = polling
    BY <1>1 DEF Launch
  <2>3. runs' \in Nat
    BY <1>1 DEF Launch
  <2> QED
    BY <2>1, <2>2, <2>3
<1>2. CASE Healthy
  BY <1>2 DEF Healthy, dataVars, feedVars
<1>3. CASE GiveUp \/ StopService
  BY <1>3 DEF GiveUp, StopService, ServiceGone, dataVars, agentVars
<1>4. CASE WorkersReady \/ Evaluate \/ WorkersDone
  BY <1>4 DEF WorkersReady, Evaluate, WorkersDone, To, dataVars, agentVars, feedVars
<1>5. CASE PostFlag
  BY <1>5 DEF PostFlag, To, agentVars, feedVars
<1>6. ASSUME NEW k \in ConfigKeys, PostKey(k)
      PROVE  AgentTypeOK'
  BY <1>6 DEF PostKey, To, After, agentVars, feedVars
<1>7. ASSUME NEW k \in ConfigKeys, PostConflict(k)
      PROVE  AgentTypeOK'
  BY <1>7 DEF PostConflict, Fail, dataVars, agentVars, feedVars
<1>8. CASE RequestFails
  BY <1>8 DEF RequestFails, Fail, dataVars, agentVars, feedVars
<1>9. CASE WaitTimeout \/ GatherRaises
  BY <1>9 DEF WaitTimeout, GatherRaises, Fail, dataVars, agentVars, feedVars
<1>10. CASE Gathered
  BY <1>10 DEF Gathered, dataVars, agentVars, feedVars
<1>11. CASE CancelWorkers
  BY <1>11 DEF CancelWorkers, dataVars, feedVars
<1>12. CASE Unlink
  BY <1>12 DEF Unlink, agentVars, feedVars
<1>13. ASSUME NEW w \in Workers, Connect(w) \/ ConnectFails(w)
       PROVE  AgentTypeOK'
  BY <1>13 DEF Connect, ConnectFails, Worker, dataVars, feedVars
<1>14. ASSUME NEW w \in Workers, Wake(w) \/ EndOfStream(w)
       PROVE  AgentTypeOK'
  BY <1>14 DEF Wake, EndOfStream, Worker, dataVars, feedVars
<1>15. ASSUME NEW w \in Workers, NEW k \in ConfigKeys, ReadKey(w, k) \/ ReadFails(w, k)
       PROVE  AgentTypeOK'
  BY <1>15 DEF ReadKey, ReadFails, Worker, dataVars, feedVars
<1>16. CASE ServiceStep \/ PollFails \/ ServiceFails
  BY <1>16 DEF ServiceStep, PollFails, ServiceFails, dataVars, agentVars, feedVars
<1>17. CASE Poll
  BY <1>17 DEF Poll, Present, Watching, dataVars, agentVars
<1>18. CASE Overlook
  BY <1>18 DEF Overlook, Present, dataVars, agentVars
<1>19. CASE ServiceDies \/ Kill
  BY <1>19 DEF ServiceDies, Kill, ServiceGone, dataVars, agentVars
<1>20. CASE UNCHANGED demoVars
  BY <1>20 DEF demoVars, dataVars, agentVars, feedVars
<1> QED
  BY <1>1, <1>2, <1>3, <1>4, <1>5, <1>6, <1>7, <1>8, <1>9, <1>10, <1>11, <1>12, <1>13, <1>14,
     <1>15, <1>16, <1>17, <1>18, <1>19, <1>20 DEF DemoNext, Main, WorkerAgent

(* The variables keep their types. *)
THEOREM DemoTypeCorrect == DemoSpec => []DemoTypeOK
<1>1. SchemaInv /\ AgentTypeOK => DemoTypeOK
  BY DEF SchemaInv, AgentTypeOK, DemoTypeOK
<1> QED
  BY <1>1, InitAgentType, NextAgentType, SchemaInvariant, PTL DEF DemoSpec

-----------------------------------------------------------------------------
(* How far the run has come, and what it stands on. *)
Before == {"starting", "ready", "flag", "evaluate", "task", "worker_count", "wait", "gather"}

RunInv ==
  /\ main \in Before => result = "none"
  /\ main = "starting" =>
       ~ finished /\ stale = {} /\ \A w \in Workers : worker[w] = "none"
  /\ main \in {"worker_count", "wait", "gather"} => rows["task"] = "new"
  /\ main \in {"wait", "gather"} => rows["worker_count"] = "new"
  /\ main \in Before /\ stale # {} => \E k \in ConfigKeys : rows[k] = "old"
  /\ main \in Before /\ finished => \E w \in Workers : worker[w] = "read"
  /\ main = "gather" => finished

SuccessInv == RunInv /\ SuccessIsGenuine

LEMMA InitSuccessInv == DemoInit => SuccessInv
BY DEF DemoInit, SuccessInv, RunInv, SuccessIsGenuine, Before

LEMMA NextSuccessInv == AgentTypeOK /\ SuccessInv /\ [DemoNext]_demoVars => SuccessInv'
<1> SUFFICES ASSUME AgentTypeOK, SuccessInv, [DemoNext]_demoVars PROVE SuccessInv'
  OBVIOUS
<1> USE DEF SuccessInv, RunInv, SuccessIsGenuine, Before
<1>0. worker \in [Workers -> WorkerStates] /\ rows \in [ConfigKeys -> {"none", "old", "new"}]
        /\ "task" \in ConfigKeys /\ "worker_count" \in ConfigKeys
  BY DEF AgentTypeOK, ConfigKeys
<1>1. CASE Launch
  BY <1>0, <1>1 DEF Launch
<1>2. CASE Healthy
  BY <1>2 DEF Healthy, dataVars
<1>3. CASE GiveUp
  BY <1>3 DEF GiveUp
<1>4. CASE WorkersReady \/ PostFlag \/ Evaluate \/ WorkersDone
  BY <1>4 DEF WorkersReady, PostFlag, Evaluate, WorkersDone, To, dataVars, agentVars
<1>5. ASSUME NEW k \in ConfigKeys, PostKey(k)
      PROVE  SuccessInv'
  <2>1. /\ rows' = [rows EXCEPT ![k] = "new"] /\ rows[k] = "none"
        /\ main = k /\ main' = (IF k = "task" THEN "worker_count" ELSE "wait")
        /\ UNCHANGED <<result, worker, finished, stale>>
    BY <1>5 DEF PostKey, To, After, agentVars
  <2>2. \A j \in ConfigKeys : rows[j] = "old" => rows'[j] = "old"
    BY <1>0, <2>1
  <2>3. rows'[k] = "new" /\ \A j \in ConfigKeys : j # k => rows'[j] = rows[j]
    BY <1>0, <2>1
  <2> QED
    BY <1>0, <2>1, <2>2, <2>3 DEF ConfigKeys
<1>6. CASE RequestFails \/ WaitTimeout \/ GatherRaises \/ \E k \in ConfigKeys : PostConflict(k)
  BY <1>6 DEF RequestFails, WaitTimeout, GatherRaises, PostConflict, Fail
<1>7. CASE Gathered
  <2>1. stale = {}
    BY <1>7 DEF Gathered, ConfigKeys
  <2> QED
    BY <1>7, <2>1 DEF Gathered, agentVars
<1>8. CASE CancelWorkers \/ StopService \/ Unlink
  BY <1>0, <1>8 DEF CancelWorkers, StopService, Unlink, agentVars
<1>9. ASSUME NEW w \in Workers, WorkerAgent(w)
      PROVE  SuccessInv'
  <2>1. CASE Connect(w) \/ ConnectFails(w)
    <3>1. worker[w] = "new"
      BY <2>1 DEF Connect, ConnectFails
    <3>2. \A v \in Workers : v # w => worker'[v] = worker[v]
      BY <1>0, <2>1 DEF Connect, ConnectFails, Worker
    <3>3. UNCHANGED <<main, result, rows, finished, stale>>
      BY <2>1 DEF Connect, ConnectFails, dataVars
    <3> QED
      BY <1>9, <3>1, <3>2, <3>3
  <2>2. CASE Wake(w) \/ EndOfStream(w)
    <3>1. worker[w] = "listening"
      BY <2>2 DEF Wake, EndOfStream
    <3>2. \A v \in Workers : v # w => worker'[v] = worker[v]
      BY <1>0, <2>2 DEF Wake, EndOfStream, Worker
    <3>3. UNCHANGED <<main, result, rows, finished, stale>>
      BY <2>2 DEF Wake, EndOfStream, dataVars
    <3> QED
      BY <1>9, <3>1, <3>2, <3>3
  <2>3. ASSUME NEW k \in ConfigKeys, ReadFails(w, k)
        PROVE  SuccessInv'
    <3>1. worker[w] \in {"task", "worker_count"}
      BY <2>3 DEF ReadFails, ConfigKeys
    <3>2. \A v \in Workers : v # w => worker'[v] = worker[v]
      BY <1>0, <2>3 DEF ReadFails, Worker
    <3>3. UNCHANGED <<main, result, rows, finished, stale>>
      BY <2>3 DEF ReadFails, dataVars
    <3> QED
      BY <1>9, <3>1, <3>2, <3>3
  <2>4. ASSUME NEW k \in ConfigKeys, ReadKey(w, k)
        PROVE  SuccessInv'
    <3>1. worker[w] \in {"task", "worker_count"}
      BY <2>4 DEF ReadKey, ConfigKeys
    <3>2. \A v \in Workers : v # w => worker'[v] = worker[v]
      BY <1>0, <2>4 DEF ReadKey, Worker
    <3>3. UNCHANGED <<main, result, rows>>
      BY <2>4 DEF ReadKey, dataVars
    <3>4. stale' = stale \/ rows[k] = "old"
      BY <2>4 DEF ReadKey
    <3>5. worker'[w] = "read" \/ finished' = finished
      BY <1>0, <2>4 DEF ReadKey, Worker, AgentTypeOK, ConfigKeys
    <3>6. (\E v \in Workers : worker[v] = "read") => \E v \in Workers : worker'[v] = "read"
      BY <3>1, <3>2
    <3>7. result # "ok" /\ main # "starting"
      BY <1>9, <3>1
    <3>8. main \in Before /\ finished' => \E v \in Workers : worker'[v] = "read"
      BY <1>9, <3>5, <3>6
    <3>9. main \in Before /\ stale' # {} => \E j \in ConfigKeys : rows[j] = "old"
      BY <2>4, <3>4
    <3>10. finished => finished'
      BY <2>4 DEF ReadKey
    <3> QED
      BY <3>3, <3>7, <3>8, <3>9, <3>10
  <2> QED
    BY <1>9, <2>1, <2>2, <2>3, <2>4 DEF WorkerAgent
<1>10. CASE ServiceStep \/ ServiceFails \/ Poll \/ Overlook \/ PollFails
  BY <1>10 DEF ServiceStep, ServiceFails, Poll, Overlook, PollFails, agentVars, dataVars
<1>11. CASE ServiceDies
  BY <1>11 DEF ServiceDies, ServiceGone, agentVars, dataVars
<1>12. CASE Kill
  BY <1>12 DEF Kill
<1>13. CASE UNCHANGED demoVars
  BY <1>13 DEF demoVars, agentVars, dataVars
<1> QED
  BY <1>1, <1>2, <1>3, <1>4, <1>5, <1>6, <1>7, <1>8, <1>9, <1>10, <1>11, <1>12, <1>13
     DEF DemoNext, Main

(* A run that reports success has a worker that read both keys of this     *)
(* run, no worker that failed, and none that read a key of an earlier run. *)
THEOREM SuccessesAreGenuine == DemoSpec => []SuccessIsGenuine
<1>1. SuccessInv => SuccessIsGenuine
  BY DEF SuccessInv
<1> QED
  BY <1>1, InitAgentType, NextAgentType, InitSuccessInv, NextSuccessInv, PTL DEF DemoSpec
-----------------------------------------------------------------------------
(* NobodyWaitsInVain. *)

Standing == {"flag", "evaluate", "task", "worker_count", "wait", "gather"}

(* A worker that a poll has woken, or will have. *)
Woken(w) == w \in events \/ worker[w] \in {"task", "worker_count", "read"}

StreamsInv ==
  /\ rows["task"] = "none" => rows["worker_count"] = "none"
  /\ main \in {"starting", "ready", "flag", "evaluate", "task"} => rows["task"] # "new"
  /\ main = "starting" => events = {} /\ ready = {} /\ \A w \in Workers : worker[w] = "none"
  /\ main \in Standing \cup {"ready"} => service \in {"ready", "down"}
  /\ main = "ready" => \A w \in ready : worker[w] \notin {"none", "new", "cancelled"}
  /\ main \in Standing => \A w \in Workers : worker[w] \notin {"none", "new", "cancelled"}

(* Nothing wakes a worker before the first key is written, unless there    *)
(* are keys of an earlier run, and then this one never gets to its gather. *)
WakeInv ==
  /\ main \in Before /\ rows["task"] = "none" => \A w \in Workers : ~ Woken(w)
  /\ main \in Standing /\ rows["task"] # "old" /\ (\E v \in Workers : Woken(v)) =>
       \A w \in Workers : worker[w] = "listening" => w \in events \/ ~ Serving

LEMMA InitStreamsInv == DemoInit => StreamsInv /\ WakeInv
BY DEF DemoInit, StreamsInv, WakeInv, Standing, Before, ConfigKeys

LEMMA NextStreamsInv ==
  AgentTypeOK /\ RunInv /\ StreamsInv /\ [DemoNext]_demoVars => StreamsInv'
<1> SUFFICES ASSUME AgentTypeOK, RunInv, StreamsInv, [DemoNext]_demoVars PROVE StreamsInv'
  OBVIOUS
<1> USE DEF StreamsInv, Standing
<1>0. /\ worker \in [Workers -> WorkerStates] /\ rows \in [ConfigKeys -> {"none", "old", "new"}]
      /\ ready \in SUBSET Workers /\ "task" \in ConfigKeys /\ "worker_count" \in ConfigKeys
      /\ ConfigKeys = {"task", "worker_count"}
  BY DEF AgentTypeOK, ConfigKeys
<1>1. CASE Launch
  BY <1>0, <1>1 DEF Launch
<1>2. CASE Healthy
  BY <1>0, <1>2 DEF Healthy, Serving, dataVars, startupVars, RunInv
<1>3. CASE GiveUp \/ StopService \/ CancelWorkers
  BY <1>3 DEF GiveUp, StopService, CancelWorkers, ServiceGone, dataVars
<1>4. CASE WorkersReady \/ PostFlag \/ Evaluate \/ WorkersDone
  BY <1>0, <1>4 DEF WorkersReady, PostFlag, Evaluate, WorkersDone, To, dataVars, agentVars, feedVars, startupVars
<1>5. ASSUME NEW k \in ConfigKeys, PostKey(k)
      PROVE  StreamsInv'
  <2>1. /\ rows' = [rows EXCEPT ![k] = "new"]
        /\ main = k /\ main' = (IF k = "task" THEN "worker_count" ELSE "wait")
        /\ UNCHANGED <<worker, ready, events, service>>
    BY <1>5 DEF PostKey, To, After, agentVars, feedVars, startupVars
  <2>2. rows'[k] = "new" /\ \A j \in ConfigKeys : j # k => rows'[j] = rows[j]
    BY <1>0, <2>1
  <2> QED
    BY <1>0, <2>1, <2>2 DEF RunInv
<1>6. CASE RequestFails
  <2>1. main' = "cancel" /\ main \in {"flag", "evaluate"} \cup ConfigKeys
    BY <1>6 DEF RequestFails, Fail
  <2>2. rows' = rows \/ (main \in ConfigKeys /\ rows' = [rows EXCEPT ![main] = "new"])
    BY <1>6 DEF RequestFails, dataVars
  <2>3. rows'["task"] = "none" => rows'["worker_count"] = "none"
    BY <1>0, <2>2 DEF RunInv
  <2> QED
    BY <2>1, <2>3
<1>7. CASE WaitTimeout \/ GatherRaises \/ Gathered \/ \E k \in ConfigKeys : PostConflict(k)
  BY <1>7 DEF WaitTimeout, GatherRaises, Gathered, PostConflict, Fail, dataVars
<1>8. CASE Unlink
  BY <1>0, <1>8 DEF Unlink
<1>9. ASSUME NEW w \in Workers, WorkerAgent(w)
      PROVE  StreamsInv'
  <2>1. /\ UNCHANGED <<main, rows, service>>
        /\ worker' = [worker EXCEPT ![w] = worker'[w]] /\ worker'[w] \notin {"none", "new", "cancelled"}
        /\ worker[w] # "none" /\ ready' \in {ready, ready \cup {w}} /\ events' \subseteq events
    <3>1. CASE Connect(w) \/ ConnectFails(w)
      BY <1>0, <3>1 DEF Connect, ConnectFails, Worker, dataVars, feedVars, startupVars
    <3>2. CASE Wake(w) \/ EndOfStream(w)
      BY <1>0, <3>2 DEF Wake, EndOfStream, Worker, dataVars, feedVars, startupVars
    <3>3. ASSUME NEW k \in ConfigKeys, ReadKey(w, k) \/ ReadFails(w, k)
          PROVE  /\ UNCHANGED <<main, rows, service>>
                 /\ worker' = [worker EXCEPT ![w] = worker'[w]]
                 /\ worker'[w] \notin {"none", "new", "cancelled"}
                 /\ worker[w] # "none" /\ ready' \in {ready, ready \cup {w}}
                 /\ events' \subseteq events
      BY <1>0, <3>3 DEF ReadKey, ReadFails, Worker, dataVars, feedVars, startupVars
    <3> QED
      BY <1>9, <3>1, <3>2, <3>3 DEF WorkerAgent
  <2>2. \A v \in Workers : v # w => worker'[v] = worker[v]
    BY <1>0, <2>1
  <2> QED
    BY <1>0, <2>1, <2>2
<1>10. CASE ServiceStep \/ ServiceFails
  <2>1. service \in {"upgrading", "migrated"} /\ UNCHANGED <<main, worker, ready, rows, events>>
    BY <1>10 DEF ServiceStep, ServiceFails, StartFails, Lifespan, Apply, Collide, Stamp, Upgraded,
         EnsureSchema, Migrating, agentVars, dataVars, feedVars
  <2> QED
    BY <2>1
<1>11. CASE Poll
  <2>1. /\ UNCHANGED <<main, worker, ready, rows, service>>
        /\ events' = events \cup Watching
    BY <1>11 DEF Poll, agentVars, dataVars, startupVars
  <2> QED
    BY <2>1 DEF Watching
<1>12. CASE Overlook \/ PollFails
  BY <1>12 DEF Overlook, PollFails, agentVars, dataVars, startupVars
<1>13. CASE ServiceDies
  BY <1>0, <1>13 DEF ServiceDies, ServiceGone, Down, agentVars, dataVars
<1>14. CASE Kill
  BY <1>14 DEF Kill, dataVars
<1>15. CASE UNCHANGED demoVars
  BY <1>15 DEF demoVars, startupVars, agentVars, dataVars, feedVars
<1> QED
  BY <1>1, <1>2, <1>3, <1>4, <1>5, <1>6, <1>7, <1>8, <1>9, <1>10, <1>11, <1>12, <1>13, <1>14,
     <1>15 DEF DemoNext, Main

LEMMA NextWakeInv ==
  AgentTypeOK /\ RunInv /\ StreamsInv /\ WakeInv /\ [DemoNext]_demoVars => WakeInv'
<1> SUFFICES ASSUME AgentTypeOK, RunInv, StreamsInv, WakeInv, [DemoNext]_demoVars PROVE WakeInv'
  OBVIOUS
<1> USE DEF WakeInv, Standing, Before, Woken, Serving
<1>0. /\ worker \in [Workers -> WorkerStates] /\ rows \in [ConfigKeys -> {"none", "old", "new"}]
      /\ ready \in SUBSET Workers /\ events \in SUBSET Workers /\ ConfigKeys = {"task", "worker_count"}
  BY DEF AgentTypeOK, ConfigKeys
<1>1. CASE Launch
  BY <1>0, <1>1 DEF Launch
<1>2. CASE Healthy
  BY <1>0, <1>2 DEF Healthy, dataVars, feedVars, StreamsInv
<1>3. CASE GiveUp \/ StopService \/ CancelWorkers \/ Unlink
  BY <1>3 DEF GiveUp, StopService, CancelWorkers, Unlink
<1>4. CASE WorkersReady
  <2>1. rows["task"] # "new" /\ UNCHANGED <<rows, worker, events, service>>
    BY <1>4 DEF WorkersReady, To, dataVars, agentVars, feedVars, startupVars, StreamsInv
  <2>2. rows["task"] # "old" => \A w \in Workers : ~ Woken(w)
    BY <1>0, <1>4, <2>1 DEF WorkersReady
  <2> QED
    BY <1>4, <2>1, <2>2 DEF WorkersReady, To
<1>5. CASE PostFlag \/ Evaluate \/ WorkersDone
  BY <1>5 DEF PostFlag, Evaluate, WorkersDone, To, dataVars, agentVars, feedVars, startupVars
<1>6. ASSUME NEW k \in ConfigKeys, PostKey(k)
      PROVE  WakeInv'
  <2>1. /\ rows' = [rows EXCEPT ![k] = "new"] /\ rows[k] = "none"
        /\ main = k /\ main' = (IF k = "task" THEN "worker_count" ELSE "wait")
        /\ UNCHANGED <<worker, events, service>>
    BY <1>6 DEF PostKey, To, After, agentVars, feedVars, startupVars
  <2>2. rows'["task"] = "new"
    BY <1>0, <2>1 DEF RunInv
  <2>3. CASE k = "task"
    BY <2>1, <2>2, <2>3
  <2>4. CASE k = "worker_count"
    BY <2>1, <2>2, <2>4 DEF RunInv
  <2> QED
    BY <1>0, <2>3, <2>4
<1>7. CASE RequestFails \/ WaitTimeout \/ GatherRaises \/ \E k \in ConfigKeys : PostConflict(k)
  BY <1>7 DEF RequestFails, WaitTimeout, GatherRaises, PostConflict, Fail
<1>8. CASE Gathered
  BY <1>8 DEF Gathered
<1>9. ASSUME NEW w \in Workers, WorkerAgent(w)
      PROVE  WakeInv'
  <2>1. UNCHANGED <<main, rows, service>>
    BY <1>9 DEF WorkerAgent, Connect, ConnectFails, Wake, EndOfStream, ReadKey, ReadFails,
       dataVars, startupVars
  <2>2. /\ \A v \in Workers : v # w => worker'[v] = worker[v] /\ (v \in events' <=> v \in events)
        /\ events' \subseteq events
    BY <1>0, <1>9 DEF WorkerAgent, Connect, ConnectFails, Wake, EndOfStream, ReadKey, ReadFails,
       Worker, feedVars
  <2>3. Woken(w)' => Woken(w)
    BY <1>0, <1>9 DEF WorkerAgent, Connect, ConnectFails, Wake, EndOfStream, ReadKey, ReadFails,
       Worker, feedVars
  <2>4. main \in Standing => worker'[w] # "listening"
    BY <1>0, <1>9 DEF WorkerAgent, Connect, ConnectFails, Wake, EndOfStream, ReadKey, ReadFails,
       Worker, StreamsInv
  <2> QED
    BY <2>1, <2>2, <2>3, <2>4
<1>10. CASE ServiceStep \/ ServiceFails
  <2>1. service \in {"upgrading", "migrated"} /\ UNCHANGED <<main, worker, rows, events>>
    BY <1>10 DEF ServiceStep, ServiceFails, StartFails, Lifespan, Apply, Collide, Stamp, Upgraded,
         EnsureSchema, Migrating, agentVars, dataVars, feedVars
  <2> QED
    BY <2>1 DEF StreamsInv
<1>11. CASE Poll
  <2>1. /\ UNCHANGED <<main, worker, rows, service>>
        /\ events' = events \cup Watching /\ Present # {}
    BY <1>11 DEF Poll, agentVars, dataVars, startupVars
  <2>2. rows["task"] # "none"
    BY <1>0, <2>1 DEF Present, StreamsInv
  <2>3. \A w \in Workers : worker[w] = "listening" => w \in events'
    BY <2>1 DEF Watching
  <2> QED
    BY <2>1, <2>2, <2>3
<1>12. CASE Overlook \/ PollFails
  BY <1>12 DEF Overlook, PollFails, agentVars, dataVars, startupVars
<1>13. CASE ServiceDies
  BY <1>13 DEF ServiceDies, ServiceGone, Down, agentVars, dataVars
<1>14. CASE Kill
  BY <1>14 DEF Kill
<1>15. CASE UNCHANGED demoVars
  BY <1>15 DEF demoVars, startupVars, agentVars, dataVars, feedVars
<1> QED
  BY <1>1, <1>2, <1>3, <1>4, <1>5, <1>6, <1>7, <1>8, <1>9, <1>10, <1>11, <1>12, <1>13, <1>14,
     <1>15 DEF DemoNext, Main

(* Whatever fails, a run that has come to its gather waits for no worker   *)
(* that the poll which woke the others left out.                           *)
THEOREM NobodyIsLeftWaiting == DemoSpec => []NobodyWaitsInVain
<1> DEFINE Inv == AgentTypeOK /\ SuccessInv /\ StreamsInv /\ WakeInv
<1>1. DemoInit => Inv
  BY InitAgentType, InitSuccessInv, InitStreamsInv
<1>2. Inv /\ [DemoNext]_demoVars => Inv'
  BY NextAgentType, NextSuccessInv, NextStreamsInv, NextWakeInv DEF SuccessInv
<1>3. Inv => NobodyWaitsInVain
  BY DEF SuccessInv, RunInv, StreamsInv, WakeInv, Woken, Before, Standing, NobodyWaitsInVain
<1> QED
  BY <1>1, <1>2, <1>3, PTL DEF DemoSpec
=============================================================================
