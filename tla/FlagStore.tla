------------------------------ MODULE FlagStore ------------------------------
(***************************************************************************)
(* The flag router (src/src/routers/flags.py) over the feature_flags table *)
(* (src/src/models/feature_flag.py).                                       *)
(*                                                                         *)
(* As in ConfigStore a write request is the steps load, commit and         *)
(* refresh, and those of different requests interleave.  A PUT carries any *)
(* of the three columns, DELETE is a PUT of enabled = false, and the       *)
(* UPDATE sends the columns whose new value differs from the loaded one.   *)
(***************************************************************************)
EXTENDS Rollout

CONSTANTS
  Names,      \* flag names
  Agents,     \* agent ids
  Bucket,     \* Bucket[a][n]: sha256 of the agent id and the flag name, modulo 100
  Rules,      \* values of the rules column; Python-equal ones are one value
  Payloads,   \* bodies of POST
  Patches,    \* bodies of PUT, as functions from the fields that are set
  Writers,    \* clients that issue POST, PUT and DELETE
  Readers,    \* clients that issue GET and evaluate
  Faults,     \* which failures may happen: "db" and "crash"
  Null,       \* JSON null
  NoFlag,     \* no row with this name
  Idle        \* the client has no request in a handler

Clients == Writers \cup Readers

Fields == {"enabled", "rollout_pct", "rules"}

Flag == [enabled : BOOLEAN, rollout_pct : Percentages, rules : Rules]

Disable == [f \in {"enabled"} |-> FALSE]

Request == [op : {"POST", "PUT", "DELETE"}, at : {"loaded", "saved"}, name : Names,
            patch : Payloads \cup Patches \cup {Disable}, snap : Flag \cup {NoFlag}]

(* A request as the callers of FlagBoard see it. *)
Calls == [name : Names, entry : Payloads \cup Patches \cup {Disable}, new : BOOLEAN,
          wait : SUBSET Fields]

Response == [status : {0, 200, 201, 404, 409, 500}, on : BOOLEAN, killed : BOOLEAN]

ASSUME FlagConstantsOK ==
  /\ Bucket \in [Agents -> [Names -> Buckets]]
  /\ Null \in Rules
  /\ Payloads \subseteq Flag
  /\ \A p \in Patches :   \* pydantic lets null pass for every field
       /\ DOMAIN p \subseteq Fields
       /\ "enabled" \in DOMAIN p => p["enabled"] \in BOOLEAN \cup {Null}
       /\ "rollout_pct" \in DOMAIN p => p["rollout_pct"] \in Percentages \cup {Null}
       /\ "rules" \in DOMAIN p => p["rules"] \in Rules
  /\ Faults \subseteq {"db", "crash"}
  /\ NoFlag \notin Flag
  /\ Idle \notin Request \cup Calls

VARIABLES
  flags,    \* the feature_flags table, one row per name (uq_feature_flags_name)
  req,      \* the request each client has in a handler
  resp,     \* the last response each client got; status 0 if none arrived
  held,     \* history: the fields of each client's patch that the flag had since the load
  quiet,    \* history: clients whose DELETE met no request that enables its flag
  off       \* history: flags with such a DELETE answered 200, and no PUT to enable them since

vars == <<flags, req, resp, held, quiet, off>>

NoResponse == [status |-> 0, on |-> FALSE, killed |-> FALSE]

Init ==
  /\ flags = [n \in Names |-> NoFlag]
  /\ req = [c \in Clients |-> Idle]
  /\ resp = [c \in Clients |-> NoResponse]
  /\ held = [c \in Clients |-> {}]
  /\ quiet = {}
  /\ off = {}

-----------------------------------------------------------------------------
(* Requests and responses. *)

InHandler(c, ops, at) == req[c] # Idle /\ req[c].op \in ops /\ req[c].at = at

Sends(p, f, v) == f \in DOMAIN p /\ p[f] = v

(* c is answered and leaves its handler; the session is closed. *)
Respond(c, status, on, killed) ==
  /\ resp' = [resp EXCEPT ![c] = [status |-> status, on |-> on, killed |-> killed]]
  /\ req' = [req EXCEPT ![c] = Idle]
  /\ held' = [held EXCEPT ![c] = {}]
  /\ quiet' = quiet \ {c}

(* The request of c is over after its SELECT. *)
Answer(c, status, on, killed) ==
  /\ req[c] = Idle
  /\ Respond(c, status, on, killed)
  /\ UNCHANGED <<flags, off>>

(* c has loaded what it needs and goes on to its commit. *)
Load(c, op, n, p) ==
  /\ req[c] = Idle
  /\ req' = [req EXCEPT ![c] = [op |-> op, at |-> "loaded", name |-> n,
                                patch |-> p, snap |-> flags[n]]]
  /\ resp' = [resp EXCEPT ![c] = NoResponse]
  /\ UNCHANGED flags

(* The transaction of c committed: its flag now is new. *)
Commit(c, new) ==
  LET n == req[c].name IN
    /\ flags' = [flags EXCEPT ![n] = new]
    /\ req' = [req EXCEPT ![c].at = "saved"]
    /\ held' = [d \in Clients |->
                  IF req[d] # Idle /\ req[d].name = n
                  THEN held[d] \cup {f \in DOMAIN req[d].patch : req[d].patch[f] = new[f]}
                  ELSE held[d]]
    /\ UNCHANGED <<resp, quiet, off>>

-----------------------------------------------------------------------------
(* POST /api/v1/flags *)

CreateConflict(c, n) ==
  /\ flags[n] # NoFlag
  /\ Answer(c, 409, FALSE, FALSE)

CreateLoad(c, n, p) ==
  /\ flags[n] = NoFlag
  /\ Load(c, "POST", n, p)
  /\ held' = [held EXCEPT ![c] = {}]
  /\ UNCHANGED <<quiet, off>>

CreateCommit(c) ==
  /\ InHandler(c, {"POST"}, "loaded")
  /\ flags[req[c].name] = NoFlag
  /\ Commit(c, req[c].patch)

(* The unique constraint fails the INSERT, and nothing catches that. *)
CreateIntegrityError(c) ==
  /\ InHandler(c, {"POST"}, "loaded")
  /\ flags[req[c].name] # NoFlag
  /\ Respond(c, 500, FALSE, FALSE)
  /\ UNCHANGED <<flags, off>>

(* GET, PUT, DELETE and evaluate of a name without a row. *)
NotFound(c, n) ==
  /\ flags[n] = NoFlag
  /\ Answer(c, 404, FALSE, FALSE)

(* GET /api/v1/flags/{name} *)
ReadFlag(c, n) ==
  /\ flags[n] # NoFlag
  /\ Answer(c, 200, FALSE, FALSE)

(* The flag is on for the agent. *)
OnFor(flag, n, a) == evaluate_flag(flag.enabled, flag.rollout_pct, Bucket[a][n])

(* POST /api/v1/flags/{name}/evaluate *)
EvaluateFlag(c, n, a) ==
  /\ flags[n] # NoFlag
  /\ Answer(c, 200, OnFor(flags[n], n, a), n \in off)

Equal(p, flag) == {f \in DOMAIN p : p[f] = flag[f]}

(* PUTs that may still enable n. *)
Enabling(n) == {d \in Writers : /\ InHandler(d, {"PUT"}, "loaded")
                                /\ req[d].name = n
                                /\ Sends(req[d].patch, "enabled", TRUE)}

(* PUT /api/v1/flags/{name} *)
UpdateLoad(c, n, p) ==
  /\ flags[n] # NoFlag
  /\ Load(c, "PUT", n, p)
  /\ held' = [held EXCEPT ![c] = Equal(p, flags[n])]
  /\ IF Sends(p, "enabled", TRUE)
     THEN /\ quiet' = {d \in quiet : req[d].name # n}
          /\ off' = off \ {n}
     ELSE UNCHANGED <<quiet, off>>

(* DELETE /api/v1/flags/{name}: the row stays, disabled. *)
DeleteLoad(c, n) ==
  /\ flags[n] # NoFlag
  /\ Load(c, "DELETE", n, Disable)
  /\ held' = [held EXCEPT ![c] = Equal(Disable, flags[n])]
  /\ quiet' = IF Enabling(n) = {} THEN quiet \cup {c} ELSE quiet
  /\ UNCHANGED off

(* Variants: a field sent as null counts as not sent; the UPDATE writes    *)
(* back every column of the loaded row; null passes for every column.      *)
UnlessNull(current, snap, p, f) ==
  IF f \in DOMAIN p /\ p[f] # Null THEN p[f] ELSE current[f]

WholeRow(current, snap, p, f) ==
  IF f \in DOMAIN p THEN p[f] ELSE snap[f]

Nullable(p) == TRUE

(* The UPDATE sends the fields that differ from the loaded flag. *)
UpdatedColumn(current, snap, p, f) ==
  IF f \in DOMAIN p /\ p[f] # snap[f] THEN p[f] ELSE current[f]

UpdatedFlag(current, snap, p) ==
  [enabled |-> UpdatedColumn(current, snap, p, "enabled"),
   rollout_pct |-> UpdatedColumn(current, snap, p, "rollout_pct"),
   rules |-> UpdatedColumn(current, snap, p, "rules")]

(* enabled and rollout_pct are NOT NULL. *)
SatisfiesNotNull(p) == ~ Sends(p, "enabled", Null) /\ ~ Sends(p, "rollout_pct", Null)

UpdateCommit(c) ==
  /\ InHandler(c, {"PUT", "DELETE"}, "loaded")
  /\ SatisfiesNotNull(req[c].patch)
  /\ Commit(c, UpdatedFlag(flags[req[c].name], req[c].snap, req[c].patch))

(* The whole UPDATE fails, the fields that were valid with it. *)
UpdateIntegrityError(c) ==
  /\ InHandler(c, {"PUT", "DELETE"}, "loaded")
  /\ ~ SatisfiesNotNull(req[c].patch)
  /\ Respond(c, 500, FALSE, FALSE)
  /\ UNCHANGED <<flags, off>>

(* db.refresh and the response of all three write handlers. *)
Refresh(c) ==
  /\ req[c] # Idle
  /\ req[c].at = "saved"
  /\ Respond(c, IF req[c].op = "POST" THEN 201 ELSE 200, FALSE, FALSE)
  /\ off' = IF req[c].op = "DELETE" /\ c \in quiet THEN off \cup {req[c].name} ELSE off
  /\ UNCHANGED flags

-----------------------------------------------------------------------------
(* Failures. *)

(* A SELECT or the commit of c raises OperationalError. *)
DbError(c) ==
  /\ "db" \in Faults
  /\ Respond(c, 500, FALSE, FALSE)
  /\ UNCHANGED <<flags, off>>

(* The process dies and is restarted; only the table survives. *)
Crash ==
  /\ "crash" \in Faults
  /\ req' = [c \in Clients |-> Idle]
  /\ resp' = [c \in Clients |-> IF req[c] = Idle THEN resp[c] ELSE NoResponse]
  /\ held' = [c \in Clients |-> {}]
  /\ quiet' = {}
  /\ UNCHANGED <<flags, off>>

-----------------------------------------------------------------------------
ReadRequest(c) ==
  \E n \in Names :
    \/ NotFound(c, n) \/ ReadFlag(c, n)
    \/ \E a \in Agents : EvaluateFlag(c, n, a)

WriteRequest(c) ==
  \E n \in Names :
    \/ CreateConflict(c, n) \/ DeleteLoad(c, n)
    \/ \E p \in Payloads : CreateLoad(c, n, p)
    \/ \E p \in Patches : UpdateLoad(c, n, p)

Handler(c) ==
  \/ CreateCommit(c) \/ CreateIntegrityError(c)
  \/ UpdateCommit(c) \/ UpdateIntegrityError(c)
  \/ Refresh(c)

Next ==
  \/ \E c \in Clients : ReadRequest(c) \/ DbError(c)
  \/ \E c \in Writers : WriteRequest(c) \/ Handler(c)
  \/ Crash

Spec == Init /\ [][Next]_vars

-----------------------------------------------------------------------------
(* Type invariant; no column that is NOT NULL holds null. *)
TypeOK ==
  /\ flags \in [Names -> Flag \cup {NoFlag}]
  /\ req \in [Clients -> Request \cup {Idle}]
  /\ resp \in [Clients -> Response]
  /\ held \in [Clients -> SUBSET Fields]
  /\ quiet \in SUBSET Clients
  /\ off \in SUBSET Names

(* Although an UPDATE leaves out the fields that its request found as      *)
(* wanted, whatever others do meanwhile: before a write is answered, each  *)
(* field it sent has had the value sent at some moment since it loaded.    *)
AcknowledgedWasInEffect ==
  \A c \in Writers :
    InHandler(c, {"POST", "PUT", "DELETE"}, "saved") => held[c] = DOMAIN req[c].patch

(* A column of a flag changes only to a value that a request in its        *)
(* handler sent for it and did not find there when it loaded: a stale      *)
(* commit restores nothing that its client did not ask to change.          *)
ColumnsStep ==
  \A n \in Names, f \in Fields :
    flags[n] # NoFlag /\ flags'[n][f] # flags[n][f] =>
      \E c \in Writers :
        /\ InHandler(c, {"PUT", "DELETE"}, "loaded")
        /\ req[c].name = n
        /\ f \in DOMAIN req[c].patch
        /\ flags'[n][f] = req[c].patch[f]
        /\ flags'[n][f] # req[c].snap[f]

ColumnsChangeKnowingly == [][ColumnsStep]_vars

(* DELETE is a kill switch: once it has been answered 200, and met no PUT  *)
(* that enables the flag, the flag is off, and evaluates as off for every  *)
(* agent, until such a PUT loads it: other PUTs, stale ones too, failures  *)
(* and restarts do not bring it back.                                      *)
KilledFlagStaysOff ==
  /\ \A n \in off : flags[n] # NoFlag /\ ~ flags[n].enabled
  /\ \A c \in Clients : resp[c].killed => ~ resp[c].on

(* A stored flag is on for exactly the buckets below its percentage,       *)
(* rounded up, if it is enabled, and for none if it is not: the shortcuts  *)
(* at 0 and 100 percent agree with the comparison of the hash.             *)
RolloutReachesItsShare ==
  \A n \in Names : flags[n] # NoFlag =>
    \A b \in Buckets :
      evaluate_flag(flags[n].enabled, flags[n].rollout_pct, b) <=>
        flags[n].enabled /\ b < WholePercent(flags[n].rollout_pct)

(* An agent loses a flag only when the flag is disabled or its percentage  *)
(* lowered, and gains it only when it is enabled or its percentage raised: *)
(* no other write reshuffles the agents.                                   *)
AgentsStep ==
  \A n \in Names, a \in Agents :
    flags[n] # NoFlag =>
      /\ OnFor(flags[n], n, a) /\ ~ OnFor(flags'[n], n, a) =>
           \/ ~ flags'[n].enabled
           \/ flags'[n].rollout_pct < flags[n].rollout_pct
      /\ ~ OnFor(flags[n], n, a) /\ OnFor(flags'[n], n, a) =>
           \/ ~ flags[n].enabled
           \/ flags'[n].rollout_pct > flags[n].rollout_pct

AgentsMoveWithRollout == [][AgentsStep]_vars

-----------------------------------------------------------------------------
(* The fields the request of c still has to write. *)
Waiting(c) ==
  IF req[c].at = "saved" THEN {}
  ELSE IF req[c].op = "POST" THEN DOMAIN req[c].patch
  ELSE {f \in DOMAIN req[c].patch : req[c].patch[f] # req[c].snap[f]}

CallOf(c) ==
  IF req[c] = Idle THEN Idle
  ELSE [name |-> req[c].name, entry |-> req[c].patch, new |-> req[c].op = "POST",
        wait |-> Waiting(c)]

AnswerOf(c) ==
  IF resp[c].status = 0 THEN "none"
  ELSE IF resp[c].status \in {200, 201} THEN "ok" ELSE "failed"

Board == INSTANCE FlagBoard WITH
  Callers <- Clients,
  Entries <- Payloads \cup Patches \cup {Disable},
  None <- Idle,
  board <- flags,
  call <- [c \in Clients |-> CallOf(c)],
  answer <- [c \in Clients |-> AnswerOf(c)]

(* The requests' loads, commits and failures, however they interleave,     *)
(* amount to calls that each take effect at one moment, on the fields the  *)
(* flag did not already have as wanted and on no others, and that are      *)
(* answered with success only after it.                                    *)
ImplementsBoard == Board!Spec
=============================================================================
