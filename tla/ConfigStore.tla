----------------------------- MODULE ConfigStore -----------------------------
(***************************************************************************)
(* The config router (src/src/routers/configs.py) over the config_keys     *)
(* table (src/src/models/config_key.py).                                   *)
(*                                                                         *)
(* The handlers are synchronous functions that FastAPI runs in a pool of   *)
(* threads, each with a session of its own.  A SELECT takes no lasting     *)
(* lock: the session opens a transaction only for the INSERT or UPDATE     *)
(* that commit() flushes.  A write request is therefore three atomic steps *)
(*   load    the SELECT and the early returns that depend on it,           *)
(*   commit  BEGIN, one INSERT or UPDATE, COMMIT,                          *)
(*   refresh the SELECT by primary key whose row is the response body,     *)
(* and the steps of different requests interleave.  A read request is one  *)
(* SELECT.                                                                 *)
(***************************************************************************)
EXTENDS Naturals, FiniteSets

CONSTANTS
  Keys,       \* (namespace, key) pairs
  Values,     \* JSON values
  EqClass,    \* EqClass[v] = EqClass[w] iff v == w in Python: 1, 1.0 and True agree
  Namespaces, \* namespaces a list request may name
  NamespaceOf,\* the namespace of each key
  Writers,    \* clients that issue POST, PUT and DELETE
  Readers,    \* clients that only issue GET
  Faults,     \* which failures may happen: "db" and "crash"
  MaxUpdates, \* bound: updates of one key accepted in a behaviour
  NoRow,      \* no row with this key
  Idle        \* the client has no request in a handler

Clients == Writers \cup Readers

Row == [value : Values, version : Nat, active : BOOLEAN]

Request == [op : {"POST", "PUT", "DELETE"}, at : {"loaded", "saved"},
            key : Keys, value : Values, snap : Row \cup {NoRow}]

Response == [status : {0, 200, 201, 404, 409, 500}, keys : SUBSET Keys,
             row : Row \cup {NoRow}]

ASSUME ConstantsOK ==
  /\ EqClass \in [Values -> Values]
  /\ NamespaceOf \in [Keys -> Namespaces]
  /\ Faults \subseteq {"db", "crash"}
  /\ MaxUpdates \in Nat
  /\ NoRow \notin Row
  /\ Idle \notin Request

VARIABLES
  rows,     \* the config_keys table, one row per key (uq_config_keys_namespace_key)
  req,      \* the request each client has in a handler
  resp,     \* the last response each client got; status 0 if none arrived
  updates,  \* history: UPDATEs of value and version committed for each key
  overlapped, \* history: keys that had two PUTs in their handlers at once
  gone,     \* history: keys with a DELETE that was answered 200
  aware     \* history: gone, as it was when the client's last request read the table

vars == <<rows, req, resp, updates, overlapped, gone, aware>>

NoResponse == [status |-> 0, keys |-> {}, row |-> NoRow]

Init ==
  /\ rows = [k \in Keys |-> NoRow]
  /\ req = [c \in Clients |-> Idle]
  /\ resp = [c \in Clients |-> NoResponse]
  /\ updates = [k \in Keys |-> 0]
  /\ overlapped = {}
  /\ gone = {}
  /\ aware = [c \in Clients |-> {}]

-----------------------------------------------------------------------------
(* Requests and responses. *)

InHandler(c, op, at) == req[c] # Idle /\ req[c].op = op /\ req[c].at = at

(* The key holds a row that get_active_config returns. *)
IsActive(k) == rows[k] # NoRow /\ rows[k].active

(* The request of c reads the table now. *)
Observe(c) == aware' = [aware EXCEPT ![c] = gone]

(* c is answered and leaves its handler; the session is closed. *)
Respond(c, status, keys, row) ==
  /\ resp' = [resp EXCEPT ![c] = [status |-> status, keys |-> keys, row |-> row]]
  /\ req' = [req EXCEPT ![c] = Idle]

(* The PUTs of k that are in their handlers. *)
PutsUnderWay(k) ==
  {c \in Writers : req[c] # Idle /\ req[c].op = "PUT" /\ req[c].key = k}

(* c has loaded what it needs and goes on to its commit. *)
Load(c, op, k, v) ==
  /\ req[c] = Idle
  /\ req' = [req EXCEPT ![c] = [op |-> op, at |-> "loaded", key |-> k,
                                value |-> v, snap |-> rows[k]]]
  /\ resp' = [resp EXCEPT ![c] = NoResponse]
  /\ Observe(c)
  /\ overlapped' = IF op = "PUT" /\ PutsUnderWay(k) # {} THEN overlapped \cup {k}
                   ELSE overlapped
  /\ UNCHANGED <<rows, updates, gone>>

(* The request of c is over after its first SELECT. *)
Answer(c, status, keys, row) ==
  /\ req[c] = Idle
  /\ Respond(c, status, keys, row)
  /\ Observe(c)
  /\ UNCHANGED <<rows, updates, overlapped, gone>>

(* The transaction of c committed: its row now is r. *)
Commit(c, r) ==
  /\ rows' = [rows EXCEPT ![req[c].key] = r]
  /\ req' = [req EXCEPT ![c].at = "saved"]
  /\ UNCHANGED <<resp, overlapped, gone, aware>>

-----------------------------------------------------------------------------
(* POST /api/v1/configs *)

CreateConflict(c, k) ==
  /\ rows[k] # NoRow
  /\ Answer(c, 409, {}, NoRow)

CreateLoad(c, k, v) ==
  /\ rows[k] = NoRow
  /\ Load(c, "POST", k, v)

(* Variant: the INSERT replaces a row that is already there. *)
CreateReplaces(c) ==
  /\ InHandler(c, "POST", "loaded")
  /\ Commit(c, [value |-> req[c].value, version |-> 1, active |-> TRUE])
  /\ UNCHANGED updates

CreateCommit(c) ==
  /\ InHandler(c, "POST", "loaded")
  /\ rows[req[c].key] = NoRow
  /\ Commit(c, [value |-> req[c].value, version |-> 1, active |-> TRUE])
  /\ UNCHANGED updates

(* Another POST inserted the key after this one looked: the unique         *)
(* constraint fails the INSERT, and nothing catches the IntegrityError.    *)
CreateIntegrityError(c) ==
  /\ InHandler(c, "POST", "loaded")
  /\ rows[req[c].key] # NoRow
  /\ Respond(c, 500, {}, NoRow)
  /\ UNCHANGED <<rows, updates, overlapped, gone, aware>>

(* GET, PUT and DELETE of a key without an active row. *)
NotFound(c, k) ==
  /\ ~ IsActive(k)
  /\ Answer(c, 404, {}, NoRow)

(* GET /api/v1/configs/{namespace}/{key} *)
ReadConfig(c, k) ==
  /\ IsActive(k)
  /\ Answer(c, 200, {k}, rows[k])

(* GET /api/v1/configs, of one namespace or of all *)
ListConfigs(c) ==
  \E N \in {Namespaces} \cup {{n} : n \in Namespaces} :
    Answer(c, 200, {k \in Keys : IsActive(k) /\ NamespaceOf[k] \in N}, NoRow)

(* PUT /api/v1/configs/{namespace}/{key}.  The bound is on requests, so    *)
(* that no request already in its handler is held up by it.                *)
PendingUpdates(k) ==
  {c \in Writers : InHandler(c, "PUT", "loaded") /\ req[c].key = k}

UpdateLoad(c, k, v) ==
  /\ IsActive(k)
  /\ updates[k] + Cardinality(PendingUpdates(k)) < MaxUpdates
  /\ Load(c, "PUT", k, v)

(* Variants: the UPDATE writes back every column of the loaded row; it is   *)
(* skipped when the value did not change; it clears the value.             *)
WholeRowUpdated(current, snap, value) ==
  [snap EXCEPT !.value = value, !.version = @ + 1]

UpdatedIfChanged(current, snap, value) ==
  IF EqClass[value] = EqClass[snap.value] THEN current
  ELSE [current EXCEPT !.value = value, !.version = snap.version + 1]

ValueCleared(current, snap, value) ==
  [current EXCEPT !.value = NoRow, !.version = snap.version + 1]

(* The UPDATE sets only the columns whose new value differs from the one   *)
(* that was loaded, and its WHERE names the primary key alone.             *)
UpdatedRow(current, snap, value) ==
  [current EXCEPT
     !.value = IF EqClass[value] = EqClass[snap.value] THEN @ ELSE value,
     !.version = snap.version + 1]

UpdateCommit(c) ==
  /\ InHandler(c, "PUT", "loaded")
  /\ LET k == req[c].key IN
       /\ Commit(c, UpdatedRow(rows[k], req[c].snap, req[c].value))
       /\ updates' = [updates EXCEPT ![k] = @ + 1]

(* DELETE /api/v1/configs/{namespace}/{key}: the row stays, deactivated. *)
DeleteLoad(c, k) ==
  /\ IsActive(k)
  /\ Load(c, "DELETE", k, rows[k].value)

DeletedRow(current) == [current EXCEPT !.active = FALSE]

DeleteCommit(c) ==
  /\ InHandler(c, "DELETE", "loaded")
  /\ Commit(c, DeletedRow(rows[req[c].key]))
  /\ UNCHANGED updates

(* db.refresh and the response of all three write handlers. *)
Refresh(c) ==
  /\ req[c] # Idle
  /\ req[c].at = "saved"
  /\ LET k == req[c].key IN
       /\ Respond(c, IF req[c].op = "POST" THEN 201 ELSE 200, {k}, rows[k])
       /\ gone' = IF req[c].op = "DELETE" THEN gone \cup {k} ELSE gone
  /\ UNCHANGED <<rows, updates, overlapped, aware>>

-----------------------------------------------------------------------------
(* Failures. *)

(* A SELECT or the commit of c raises: the database stayed locked longer   *)
(* than the driver waits, or the pool had no connection.  A failed commit  *)
(* leaves no trace; a failed refresh leaves the committed row.             *)
DbError(c) ==
  /\ "db" \in Faults
  /\ Respond(c, 500, {}, NoRow)
  /\ UNCHANGED <<rows, updates, overlapped, gone, aware>>

(* The process dies and is restarted; only the table survives. *)
Crash ==
  /\ "crash" \in Faults
  /\ req' = [c \in Clients |-> Idle]
  /\ resp' = [c \in Clients |-> IF req[c] = Idle THEN resp[c] ELSE NoResponse]
  /\ UNCHANGED <<rows, updates, overlapped, gone, aware>>

-----------------------------------------------------------------------------
ReadRequest(c) ==
  \/ \E k \in Keys : ReadConfig(c, k) \/ NotFound(c, k)
  \/ ListConfigs(c)

WriteRequest(c) ==
  \/ \E k \in Keys : CreateConflict(c, k) \/ DeleteLoad(c, k)
  \/ \E k \in Keys, v \in Values : CreateLoad(c, k, v) \/ UpdateLoad(c, k, v)

Handler(c) ==
  \/ CreateCommit(c) \/ CreateIntegrityError(c)
  \/ UpdateCommit(c) \/ DeleteCommit(c)
  \/ Refresh(c)

Next ==
  \/ \E c \in Clients : ReadRequest(c) \/ DbError(c)
  \/ \E c \in Writers : WriteRequest(c) \/ Handler(c)
  \/ Crash

Spec == Init /\ [][Next]_vars

-----------------------------------------------------------------------------
(* Type invariant. *)
TypeOK ==
  /\ rows \in [Keys -> Row \cup {NoRow}]
  /\ req \in [Clients -> Request \cup {Idle}]
  /\ resp \in [Clients -> Response]
  /\ updates \in [Keys -> Nat]
  /\ overlapped \in SUBSET Keys
  /\ gone \in SUBSET Keys
  /\ aware \in [Clients -> SUBSET Keys]

(* However the read-modify-write handlers interleave, fail or crash, a     *)
(* row's version never runs ahead of the updates applied to it, and once   *)
(* an update was applied the row never again shows the version 1 of a      *)
(* fresh key: no late INSERT or stale write resets it.                     *)
VersionTracksUpdates ==
  \A k \in Keys :
    /\ rows[k] # NoRow => rows[k].version \in 1 .. updates[k] + 1
    /\ updates[k] > 0 => rows[k] # NoRow /\ rows[k].version >= 2

(* After a DELETE has been answered 200, no request that reads the table   *)
(* from then on succeeds on that key or lists it: not by a PUT that was    *)
(* under way during the DELETE, not by a POST of the same key, not after a *)
(* restart.                                                                *)
DeletedKeyStaysGone ==
  \A c \in Clients :
    resp[c].status \in {200, 201} => resp[c].keys \cap aware[c] = {}

(* The table implements the life of its keys. *)
PhaseOf(row) ==
  IF row = NoRow THEN "absent" ELSE IF row.active THEN "live" ELSE "deleted"

VersionOf(row) == IF row = NoRow THEN 0 ELSE row.version

Lifecycle == INSTANCE KeyLifecycle WITH
  phase <- [k \in Keys |-> PhaseOf(rows[k])],
  version <- [k \in Keys |-> VersionOf(rows[k])],
  updates <- updates

ImplementsLifecycle == Lifecycle!Spec

(* As long as no two PUTs of a key have overlapped, as with the single     *)
(* operator of docs/PRD.md:493, its version counts its updates exactly,    *)
(* whatever fails in between and whatever POSTs and DELETEs race with      *)
(* them: an update that was answered 500 or not at all counts once or not. *)
VersionCountsUpdates ==
  \A k \in Keys \ overlapped : rows[k] # NoRow => rows[k].version = updates[k] + 1

(* As long as no two PUTs of a key have overlapped, what a PUT reads back  *)
(* for its response is what it wrote: the version after the one it loaded, *)
(* and a value equal to the one sent.                                      *)
ReadsBackOwnWrite ==
  \A c \in Writers :
    InHandler(c, "PUT", "saved") /\ req[c].key \notin overlapped =>
      LET row == rows[req[c].key] IN
        /\ row.version = req[c].snap.version + 1
        /\ EqClass[row.value] = EqClass[req[c].value]

(* Versions rise as docs/BACKLOG.md:92 has it, for as long as no two PUTs  *)
(* of the key overlap, whatever POSTs and DELETEs do meanwhile, and        *)
(* whatever fails or restarts between the steps of a PUT.                  *)
VersionRisesInTurn ==
  [][\A k \in Keys \ overlapped : rows[k] # NoRow =>
       rows'[k] # NoRow /\ rows'[k].version >= rows[k].version]_vars

(* "Version numbers are monotonically increasing per key"                  *)
(* (docs/BACKLOG.md:92), as a step: the version of a row never falls.      *)
VersionNeverFalls ==
  [][\A k \in Keys : rows[k] # NoRow =>
       rows'[k] # NoRow /\ rows'[k].version >= rows[k].version]_vars

(* "If the key already exists its value and type are overwritten"          *)
(* (docs/API.md:117): the commit of a PUT leaves the value it was sent.    *)
PutOverwritesValue ==
  [][\A c \in Writers :
       InHandler(c, "PUT", "loaded") /\ req'[c] # Idle /\ req'[c].at = "saved"
         => rows'[req[c].key].value = req[c].value]_vars
=============================================================================
