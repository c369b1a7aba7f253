------------------------------ MODULE SdkClient ------------------------------
(***************************************************************************)
(* The calls of the Python SDK (src/sdk/src/fleet_config/client.py) on the *)
(* config router.                                                          *)
(*                                                                         *)
(* A call of a process is one HTTP request, or two: set_config is a POST   *)
(* and, when that is answered 409, a PUT.  A request waits in the server,  *)
(* is taken up by a handler of ConfigStore and is answered; Writers are    *)
(* the places a request can have there.  A call that times out raises and  *)
(* leaves its request where it is, to be handled or not.  Any exception    *)
(* ends the call; a process that calls again retries.                      *)
(***************************************************************************)
EXTENDS ConfigStore

CONSTANTS
  Procs,     \* callers, each with a FleetConfigClient of its own
  NoValue,   \* the value of a call that writes none
  NoCall,    \* the process has not called yet
  NoRequest, \* no request waits in this place
  NoSlot     \* the call has no request in the server

Ops == {"GET", "POST", "PUT", "DELETE"}

HttpRequest == [op : Ops, key : Keys, value : Values \cup {NoValue}]

Call == [fn : {"get", "set", "delete"}, key : Keys, value : Values \cup {NoValue},
         op : Ops, slot : Writers \cup {NoSlot},
         state : {"open", "returned", "raised"}, status : {0, 200, 201, 404, 409, 500}]

(* Values are of type str here: Python finds two equal only if they are. *)
ASSUME SdkConstantsOK ==
  /\ \A v, w \in Values : EqClass[v] = EqClass[w] => v = w
  /\ NoValue \notin Values
  /\ NoCall \notin Call
  /\ NoRequest \notin HttpRequest
  /\ NoSlot \notin Writers

VARIABLES
  call,  \* the last call of each process
  sent,  \* the request that waits in each place of the server
  shown, \* history: since p's set began, the key has shown its value or was deleted
  rivals \* history: the values of sets that p's set may have overlapped, or that came later

calls == <<call, shown, rivals>>
sdkVars == <<vars, calls, sent>>

SdkInit ==
  /\ Init
  /\ call = [p \in Procs |-> NoCall]
  /\ sent = [c \in Writers |-> NoRequest]
  /\ shown = [p \in Procs |-> FALSE]
  /\ rivals = [p \in Procs |-> {}]

-----------------------------------------------------------------------------
(* What is under way. *)

Open(p) == call[p] # NoCall /\ call[p].state = "open"

Setting(p, k) == Open(p) /\ call[p].fn = "set" /\ call[p].key = k

HasSet(p, k) ==
  call[p] # NoCall /\ call[p].state = "returned" /\ call[p].fn = "set" /\ call[p].key = k

Free(c) ==
  /\ req[c] = Idle /\ sent[c] = NoRequest
  /\ \A p \in Procs : call[p] # NoCall => call[p].slot # c

(* The request of p's call has been answered. *)
Answered(p) ==
  /\ Open(p) /\ call[p].slot # NoSlot
  /\ req[call[p].slot] = Idle /\ sent[call[p].slot] = NoRequest

(* Places with a write of k that may still set its value. *)
Waiting(k) ==
  {c \in Writers : sent[c] # NoRequest /\ sent[c].op \in {"POST", "PUT"} /\ sent[c].key = k}
Writing(k) ==
  {c \in Writers : \/ InHandler(c, "POST", "loaded") /\ req[c].key = k
                   \/ InHandler(c, "PUT", "loaded") /\ req[c].key = k}

InFlight(k) ==
  {sent[c].value : c \in Waiting(k)} \cup {req[c].value : c \in Writing(k)}
    \cup {call[p].value : p \in {q \in Procs : Setting(q, k)}}

(* Bound: sets of k that may still add to its updates. *)
SetsPending(k) ==
  Cardinality({p \in Procs : Setting(p, k)})
    + Cardinality({c \in Waiting(k) \cup Writing(k) : \A p \in Procs : Open(p) => call[p].slot # c})

-----------------------------------------------------------------------------
(* Calls. *)

(* Variant: the body of the request is left out. *)
SendBare(c, op, k, v) ==
  sent' = [sent EXCEPT ![c] = [op |-> op, key |-> k]]

Send(c, op, k, v) ==
  sent' = [sent EXCEPT ![c] = [op |-> op, key |-> k, value |-> v]]

Begin(p, fn, op, k, v) ==
  /\ ~ Open(p)
  /\ \E c \in Writers :
       /\ Free(c)
       /\ Send(c, op, k, v)
       /\ call' = [call EXCEPT ![p] = [fn |-> fn, key |-> k, value |-> v, op |-> op,
                                       slot |-> c, state |-> "open", status |-> 0]]
  /\ UNCHANGED vars

Get(p, k) ==
  /\ Begin(p, "get", "GET", k, NoValue)
  /\ shown' = [shown EXCEPT ![p] = FALSE]
  /\ rivals' = [rivals EXCEPT ![p] = {}]

Delete(p, k) ==
  /\ Begin(p, "delete", "DELETE", k, NoValue)
  /\ shown' = [shown EXCEPT ![p] = FALSE]
  /\ rivals' = [rivals EXCEPT ![p] = {}]

Shows(row, v) == row # NoRow /\ row.active /\ row.value = v
Alive(row) == row # NoRow /\ row.active

Set(p, k, v) ==
  /\ updates[k] + SetsPending(k) < MaxUpdates
  /\ Begin(p, "set", "POST", k, v)
  /\ shown' = [shown EXCEPT ![p] = Shows(rows[k], v)]
  /\ rivals' = [q \in Procs |-> IF q = p THEN InFlight(k)
                                ELSE IF Setting(q, k) \/ HasSet(q, k) THEN rivals[q] \cup {v}
                                ELSE rivals[q]]

(* The call of p is over. *)
End(p, state, status) ==
  /\ call' = [call EXCEPT ![p] = [@ EXCEPT !.state = state, !.status = status, !.slot = NoSlot]]
  /\ UNCHANGED <<vars, sent, shown, rivals>>

(* Variants: the status of the PUT is not looked at; a server error passes. *)
PutUnchecked(op, status) == status \in {200, 201} \/ op = "PUT"
ErrorAccepted(op, status) == status \in {200, 201, 500}

Accepted(op, status) == status \in {200, 201}

(* Variant: whatever fails the POST leads to the PUT. *)
AnyFailure(op, status) == op = "POST" /\ status \notin {200, 201}

GoesOn(op, status) == op = "POST" /\ status = 409

Return(p) ==
  /\ Answered(p)
  /\ LET status == resp[call[p].slot].status IN
       /\ Accepted(call[p].op, status)
       /\ End(p, "returned", status)

(* set_config learnt that the key exists and sends the PUT. *)
FallBack(p) ==
  /\ Answered(p)
  /\ GoesOn(call[p].op, resp[call[p].slot].status)
  /\ Send(call[p].slot, "PUT", call[p].key, call[p].value)
  /\ call' = [call EXCEPT ![p].op = "PUT"]
  /\ UNCHANGED <<vars, shown, rivals>>

(* ConfigNotFound or ServiceError. *)
Raise(p) ==
  /\ Answered(p)
  /\ LET status == resp[call[p].slot].status IN
       /\ ~ Accepted(call[p].op, status) /\ ~ GoesOn(call[p].op, status)
       /\ End(p, "raised", status)

(* httpx raises: no answer in time, or the connection broke. *)
TimeOut(p) ==
  /\ Open(p) /\ ~ Answered(p)
  /\ End(p, "raised", 0)

-----------------------------------------------------------------------------
(* The server. *)

(* What p's set has seen of its key, as the step takes rows to rows'. *)
Watch ==
  /\ shown' = [p \in Procs |->
                 IF Open(p) /\ call[p].fn = "set"
                 THEN \/ shown[p]
                      \/ Shows(rows'[call[p].key], call[p].value)
                      \/ Alive(rows[call[p].key]) /\ ~ Alive(rows'[call[p].key])
                 ELSE shown[p]]
  /\ UNCHANGED <<call, rivals>>

(* The first SELECT of the handler that takes the request up. *)
Serve(c, op, k, v) ==
  \/ op = "GET" /\ (ReadConfig(c, k) \/ NotFound(c, k))
  \/ op = "POST" /\ (CreateConflict(c, k) \/ CreateLoad(c, k, v))
  \/ op = "PUT" /\ (NotFound(c, k) \/ UpdateLoad(c, k, v))
  \/ op = "DELETE" /\ (NotFound(c, k) \/ DeleteLoad(c, k))
  \/ DbError(c)

TakeUp(c) ==
  /\ sent[c] # NoRequest
  /\ Serve(c, sent[c].op, sent[c].key, sent[c].value)
  /\ sent' = [sent EXCEPT ![c] = NoRequest]
  /\ Watch

GoOn(c) ==
  /\ req[c] # Idle
  /\ Handler(c) \/ DbError(c)
  /\ Watch
  /\ UNCHANGED sent

(* The service dies and is restarted; calls without an answer lose their   *)
(* connection.                                                             *)
Restart ==
  /\ Crash
  /\ sent' = [c \in Writers |-> NoRequest]
  /\ call' = [p \in Procs |-> IF Open(p) /\ ~ Answered(p) THEN [call[p] EXCEPT !.slot = NoSlot]
                              ELSE call[p]]
  /\ UNCHANGED <<shown, rivals>>

SdkNext ==
  \/ \E p \in Procs, k \in Keys : Get(p, k) \/ Delete(p, k)
  \/ \E p \in Procs, k \in Keys, v \in Values : Set(p, k, v)
  \/ \E p \in Procs : Return(p) \/ FallBack(p) \/ Raise(p) \/ TimeOut(p)
  \/ \E c \in Writers : TakeUp(c) \/ GoOn(c)
  \/ Restart

SdkSpec == SdkInit /\ [][SdkNext]_sdkVars

-----------------------------------------------------------------------------
(* Type invariant. *)
SdkTypeOK ==
  /\ call \in [Procs -> Call \cup {NoCall}]
  /\ sent \in [Writers -> HttpRequest \cup {NoRequest}]
  /\ shown \in [Procs -> BOOLEAN]
  /\ rivals \in [Procs -> SUBSET Values]

(* set_config returns only if, at some moment of the call, the key had     *)
(* just that value for all to read, or it was deleted under the call: not  *)
(* when a rival's POST came first, not when the value was there already    *)
(* and the PUT left it out, and not for a key that was gone beforehand.    *)
ReturnedSetWasShown ==
  \A p \in Procs, k \in Keys : HasSet(p, k) => shown[p]

(* An acknowledged set holds: afterwards the key has its value or that of  *)
(* a set that overlapped it or came later.  A request abandoned by a       *)
(* timeout counts while it is still in the server, and not longer.         *)
AcknowledgedSetHolds ==
  \A p \in Procs, k \in Keys :
    HasSet(p, k) /\ IsActive(k) => rows[k].value \in {call[p].value} \cup rivals[p]

(* A set_config of p that failed with 404. *)
Refused(p, k) ==
  /\ call[p] # NoCall /\ call[p].fn = "set" /\ call[p].key = k
  /\ call[p].state = "raised" /\ call[p].status = 404

(* If a set_config fails with 404 then somebody has deleted its key, which *)
(* is deleted still: not when the key was never there, when another's POST *)
(* came between its two requests, or when an error or a restart did.       *)
NotFoundMeansDeleted ==
  \A p \in Procs, k \in Keys : Refused(p, k) => rows[k] # NoRow /\ ~ IsActive(k)

(* "Create or overwrite a config value." (docs/SDK.md:221): no set_config  *)
(* fails because it does not find what it is to create or overwrite.       *)
SetCreatesOrOverwrites == \A p \in Procs, k \in Keys : ~ Refused(p, k)
=============================================================================
