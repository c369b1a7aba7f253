--------------------------- MODULE SdkClientProofs ---------------------------
(***************************************************************************)
(* Theorems about SdkClient, for any processes, keys, values and faults,   *)
(* on top of what ConfigStoreProofs shows of the server.                   *)
(***************************************************************************)
EXTENDS SdkClient, ConfigStoreProofs

(* How a call and its request in the server belong together. *)
SlotInv ==
  /\ \A p \in Procs : call[p] # NoCall =>
       /\ call[p].state # "open" => call[p].slot = NoSlot
       /\ call[p].fn = "set" => call[p].value \in Values /\ call[p].op \in {"POST", "PUT"}
       /\ call[p].fn # "set" => call[p].op \in {"GET", "DELETE"}
  /\ \A c \in Writers : sent[c] # NoRequest =>
       /\ req[c] = Idle
       /\ sent[c].op \in {"POST", "PUT"} => sent[c].value \in Values
  /\ \A p, q \in Procs :
       call[p] # NoCall /\ call[q] # NoCall /\ call[p].slot # NoSlot
         /\ call[p].slot = call[q].slot => p = q
  /\ \A p \in Procs, c \in Writers : call[p] # NoCall /\ call[p].slot = c =>
       /\ sent[c] # NoRequest =>
            /\ sent[c].op = call[p].op
            /\ sent[c].key = call[p].key
            /\ sent[c].value = call[p].value
       /\ req[c] # Idle =>
            /\ req[c].op = call[p].op
            /\ req[c].key = call[p].key
            /\ call[p].fn = "set" => req[c].value = call[p].value

CallInv == SdkTypeOK /\ SlotInv

-----------------------------------------------------------------------------
(* What a step of the server does to its place and to the table. *)

(* A handler that takes a request up answers it at once or loads its row.  *)
LEMMA ServeStep ==
  ASSUME VersionInv, NEW c \in Writers, NEW op \in Ops, NEW k \in Keys,
         NEW v \in Values \cup {NoValue}, op \in {"POST", "PUT"} => v \in Values,
         req[c] = Idle, Serve(c, op, k, v)
  PROVE  /\ Next
         /\ UNCHANGED <<rows, updates>>
         /\ \A d \in Clients : d # c => req'[d] = req[d] /\ resp'[d] = resp[d]
         /\ \/ /\ req'[c] = Idle
               /\ resp'[c].status \in {200, 201} => op = "GET"
               /\ resp'[c].status = 409 => rows[k] # NoRow
               /\ resp'[c].status = 404 => op # "POST" /\ ~ IsActive(k)
            \/ /\ req'[c] # Idle
               /\ req'[c].op = op /\ req'[c].at = "loaded" /\ req'[c].key = k
               /\ op \in {"POST", "PUT"} => req'[c].value = v
               /\ req'[c].snap = rows[k]
               /\ op = "PUT" => IsActive(k)
<1> USE ConstantsOK
<1>0. c \in Clients
  BY DEF Clients
<1>1. ASSUME NEW status \in {200, 404, 409, 500}, NEW keys, NEW row,
             Answer(c, status, keys, row)
      PROVE  /\ UNCHANGED <<rows, updates>>
             /\ \A d \in Clients : d # c => req'[d] = req[d] /\ resp'[d] = resp[d]
             /\ req'[c] = Idle
             /\ resp'[c].status = status
  BY <1>0, <1>1 DEF Answer, Respond, VersionInv, TypeOK
<1>2. ASSUME NEW w \in Values, op \in {"POST", "PUT", "DELETE"}, Load(c, op, k, w)
      PROVE  /\ UNCHANGED <<rows, updates>>
             /\ \A d \in Clients : d # c => req'[d] = req[d] /\ resp'[d] = resp[d]
             /\ req'[c] # Idle
             /\ req'[c].op = op /\ req'[c].at = "loaded" /\ req'[c].key = k
             /\ req'[c].value = w
             /\ req'[c].snap = rows[k]
  <2>1. [op |-> op, at |-> "loaded", key |-> k, value |-> w, snap |-> rows[k]] \in Request
    BY <1>2 DEF VersionInv, TypeOK, Request
  <2> QED
    BY <1>0, <1>2, <2>1 DEF Load, VersionInv, TypeOK
<1>3. CASE op = "GET" /\ ReadConfig(c, k)
  <2>1. Next
    BY <1>0, <1>3 DEF Next, ReadRequest
  <2> QED
    BY <1>1, <1>3, <2>1 DEF ReadConfig
<1>4. CASE op # "POST" /\ NotFound(c, k)
  <2>1. Next
    BY <1>0, <1>4 DEF Next, ReadRequest
  <2> QED
    BY <1>1, <1>4, <2>1 DEF NotFound
<1>5. CASE op = "POST" /\ CreateConflict(c, k)
  <2>1. Next
    BY <1>5 DEF Next, WriteRequest
  <2> QED
    BY <1>1, <1>5, <2>1 DEF CreateConflict
<1>6. CASE op = "POST" /\ CreateLoad(c, k, v)
  <2>1. Next
    BY <1>6 DEF Next, WriteRequest
  <2> QED
    BY <1>2, <1>6, <2>1 DEF CreateLoad
<1>7. CASE op = "PUT" /\ UpdateLoad(c, k, v)
  <2>1. Next
    BY <1>7 DEF Next, WriteRequest
  <2> QED
    BY <1>2, <1>7, <2>1 DEF UpdateLoad
<1>8. CASE op = "DELETE" /\ DeleteLoad(c, k)
  <2>1. Next
    BY <1>8 DEF Next, WriteRequest
  <2>2. rows[k].value \in Values /\ Load(c, "DELETE", k, rows[k].value)
    BY <1>8 DEF DeleteLoad, IsActive, VersionInv, TypeOK, Row
  <2> QED
    BY <1>2, <1>8, <2>1, <2>2
<1>9. CASE DbError(c)
  <2>1. Next
    BY <1>0, <1>9 DEF Next
  <2> QED
    BY <1>0, <1>9, <2>1 DEF DbError, Respond, VersionInv, TypeOK
<1> QED
  BY <1>3, <1>4, <1>5, <1>6, <1>7, <1>8, <1>9 DEF Serve

(* A handler that goes on commits its row, or is over. *)
CommitsTo(c, k) ==
  /\ req[c].at = "loaded" /\ req'[c] = [req[c] EXCEPT !.at = "saved"]
  /\ UNCHANGED resp
  /\ rows[k] # NoRow \/ req[c].op = "POST"
  /\ rows'[k] # NoRow /\ \A j \in Keys : j # k => rows'[j] = rows[j]
  /\ req[c].op = "POST" => rows[k] = NoRow /\ rows'[k].value = req[c].value /\ rows'[k].active
  /\ req[c].op = "PUT" =>
       /\ rows'[k].active = rows[k].active
       /\ \/ rows'[k].value = req[c].value
          \/ req[c].snap.value = req[c].value /\ rows'[k].value = rows[k].value
  /\ req[c].op = "DELETE" => ~ rows'[k].active

Finishes(c) ==
  /\ req'[c] = Idle
  /\ UNCHANGED rows
  /\ resp'[c].status \in {200, 201} => req[c].at = "saved"
  /\ resp'[c].status \notin {404, 409}

LEMMA GoOnStep ==
  ASSUME VersionInv, NEW c \in Writers, req[c] # Idle, Handler(c) \/ DbError(c)
  PROVE  /\ Next
         /\ \A d \in Clients : d # c => req'[d] = req[d] /\ resp'[d] = resp[d]
         /\ CommitsTo(c, req[c].key) \/ Finishes(c)
<1> USE ConstantsOK
<1> DEFINE k == req[c].key
<1>0. c \in Clients /\ req[c] \in Request /\ k \in Keys /\ req \in [Clients -> Request \cup {Idle}]
        /\ resp \in [Clients -> Response] /\ rows \in [Keys -> Row \cup {NoRow}]
  BY DEF Clients, VersionInv, TypeOK, Request
<1>1. Next
  BY <1>0 DEF Next
<1>2. ASSUME NEW new \in Row, Commit(c, new)
      PROVE  /\ \A d \in Clients : d # c => req'[d] = req[d] /\ resp'[d] = resp[d]
             /\ req'[c] = [req[c] EXCEPT !.at = "saved"]
             /\ UNCHANGED resp
             /\ rows'[k] = new /\ rows'[k] # NoRow
             /\ \A j \in Keys : j # k => rows'[j] = rows[j]
  BY <1>0, <1>2 DEF Commit
<1>3. ASSUME NEW status, NEW keys, NEW row, Respond(c, status, keys, row)
      PROVE  /\ \A d \in Clients : d # c => req'[d] = req[d] /\ resp'[d] = resp[d]
             /\ req'[c] = Idle
             /\ resp'[c].status = status
  BY <1>0, <1>3 DEF Respond
<1>4. CASE CreateCommit(c)
  <2> DEFINE new == [value |-> req[c].value, version |-> 1, active |-> TRUE]
  <2>1. new \in Row /\ new.value = req[c].value /\ new.active
    BY <1>0 DEF Row, Request
  <2>2. Commit(c, new) /\ rows[k] = NoRow /\ req[c].op = "POST" /\ req[c].at = "loaded"
    BY <1>4 DEF CreateCommit, InHandler
  <2> HIDE DEF new
  <2> QED
    BY <1>1, <1>2, <2>1, <2>2 DEF CommitsTo
<1>5. CASE UpdateCommit(c)
  <2> DEFINE new == UpdatedRow(rows[k], req[c].snap, req[c].value)
  <2>1. /\ rows[k] \in Row /\ req[c].snap \in Row /\ req[c].value \in Values
        /\ req[c].op = "PUT" /\ req[c].at = "loaded"
    BY <1>0, <1>5 DEF VersionInv, HandlerInv, UpdateCommit, InHandler, Request
  <2>2. new \in Row /\ new.active = rows[k].active
    BY <2>1, UpdatedRowType
  <2>3. \/ new.value = req[c].value
        \/ req[c].snap.value = req[c].value /\ new.value = rows[k].value
    <3>1. EqClass[req[c].value] = EqClass[req[c].snap.value] => req[c].value = req[c].snap.value
      BY <2>1, SdkConstantsOK DEF Row
    <3> QED
      BY <2>1, <3>1 DEF UpdatedRow, Row
  <2>4. Commit(c, new)
    BY <1>5 DEF UpdateCommit
  <2> HIDE DEF new
  <2> QED
    BY <1>1, <1>2, <2>1, <2>2, <2>3, <2>4 DEF CommitsTo
<1>6. CASE DeleteCommit(c)
  <2> DEFINE new == DeletedRow(rows[k])
  <2>1. rows[k] \in Row /\ req[c].op = "DELETE" /\ req[c].at = "loaded"
    BY <1>0, <1>6 DEF VersionInv, HandlerInv, DeleteCommit, InHandler
  <2>2. new \in Row /\ ~ new.active
    BY <2>1, DeletedRowType
  <2>3. Commit(c, new)
    BY <1>6 DEF DeleteCommit
  <2> HIDE DEF new
  <2> QED
    BY <1>1, <1>2, <2>1, <2>2, <2>3 DEF CommitsTo
<1>7. CASE CreateIntegrityError(c) \/ DbError(c)
  BY <1>1, <1>3, <1>7 DEF CreateIntegrityError, DbError, Finishes
<1>8. CASE Refresh(c)
  BY <1>1, <1>3, <1>8 DEF Refresh, Finishes
<1> QED
  BY <1>4, <1>5, <1>6, <1>7, <1>8 DEF Handler

-----------------------------------------------------------------------------
(* Steps of SdkClient that the server does not take. *)
CallerStep ==
  \/ \E p \in Procs, k \in Keys : Get(p, k) \/ Delete(p, k)
  \/ \E p \in Procs, k \in Keys, v \in Values : Set(p, k, v)
  \/ \E p \in Procs : Return(p) \/ FallBack(p) \/ Raise(p) \/ TimeOut(p)

LEMMA CallerStepKeepsStore == CallerStep => UNCHANGED vars
BY DEF CallerStep, Get, Delete, Set, Begin, Return, FallBack, Raise, TimeOut, End

(* Every step of SdkClient is a step of ConfigStore or none of it. *)
LEMMA StoreStep == VersionInv /\ CallInv /\ [SdkNext]_sdkVars => [Next]_vars
<1> SUFFICES ASSUME VersionInv, CallInv, [SdkNext]_sdkVars PROVE [Next]_vars
  OBVIOUS
<1>1. CASE CallerStep
  BY <1>1, CallerStepKeepsStore
<1>2. ASSUME NEW c \in Writers, TakeUp(c)
      PROVE  Next
  <2>1. /\ sent[c].op \in Ops /\ sent[c].key \in Keys /\ sent[c].value \in Values \cup {NoValue}
        /\ sent[c].op \in {"POST", "PUT"} => sent[c].value \in Values
        /\ req[c] = Idle
    BY <1>2 DEF TakeUp, CallInv, SdkTypeOK, SlotInv, HttpRequest
  <2>2. Serve(c, sent[c].op, sent[c].key, sent[c].value)
    BY <1>2 DEF TakeUp
  <2> QED
    BY <2>1, <2>2, ServeStep
<1>3. ASSUME NEW c \in Writers, GoOn(c)
      PROVE  Next
  BY <1>3, GoOnStep DEF GoOn
<1>4. CASE Restart
  BY <1>4 DEF Restart, Next
<1>5. CASE UNCHANGED sdkVars
  BY <1>5 DEF sdkVars
<1> QED
  BY <1>1, <1>2, <1>3, <1>4, <1>5 DEF SdkNext, CallerStep

-----------------------------------------------------------------------------
LEMMA InitCallInv == SdkInit => CallInv
BY SdkConstantsOK DEF SdkInit, CallInv, SdkTypeOK, SlotInv

(* A call that begins takes a free place. *)
LEMMA BeginCallInv ==
  ASSUME VersionInv, CallInv, NEW p \in Procs, NEW k \in Keys,
         NEW fn \in {"get", "set", "delete"}, NEW op \in Ops, NEW v \in Values \cup {NoValue},
         fn = "set" => op = "POST" /\ v \in Values, fn # "set" => op \in {"GET", "DELETE"},
         op \in {"POST", "PUT"} => fn = "set",
         Begin(p, fn, op, k, v), shown' \in [Procs -> BOOLEAN],
         rivals' \in [Procs -> SUBSET Values]
  PROVE  CallInv'
<1> USE SdkConstantsOK
<1>1. PICK c \in Writers : /\ Free(c) /\ Send(c, op, k, v)
                           /\ call' = [call EXCEPT ![p] =
                                [fn |-> fn, key |-> k, value |-> v, op |-> op,
                                 slot |-> c, state |-> "open", status |-> 0]]
  BY DEF Begin
<1> DEFINE new == [fn |-> fn, key |-> k, value |-> v, op |-> op,
                   slot |-> c, state |-> "open", status |-> 0]
           asked == [op |-> op, key |-> k, value |-> v]
<1>2. new \in Call /\ asked \in HttpRequest
  BY DEF Call, HttpRequest
<1>3. /\ new.fn = fn /\ new.key = k /\ new.value = v /\ new.op = op /\ new.slot = c
      /\ new.state = "open"
      /\ asked.op = op /\ asked.key = k /\ asked.value = v
  OBVIOUS
<1>4. call' = [call EXCEPT ![p] = new] /\ sent' = [sent EXCEPT ![c] = asked]
  BY <1>1 DEF Send
<1> HIDE DEF new, asked
<1>5. SdkTypeOK'
  BY <1>2, <1>4 DEF CallInv, SdkTypeOK
<1>6. /\ call'[p] = new /\ \A q \in Procs : q # p => call'[q] = call[q]
      /\ sent'[c] = asked /\ \A d \in Writers : d # c => sent'[d] = sent[d]
      /\ new # NoCall /\ asked # NoRequest /\ c # NoSlot
  BY <1>2, <1>4 DEF CallInv, SdkTypeOK
<1>7. req[c] = Idle /\ \A q \in Procs : call[q] # NoCall => call[q].slot # c
  BY <1>1 DEF Free
<1>8. UNCHANGED req
  BY DEF Begin, vars
<1>9. SlotInv'
  BY <1>3, <1>6, <1>7, <1>8 DEF CallInv, SlotInv
<1> QED
  BY <1>5, <1>9 DEF CallInv

LEMMA NextCallInv == VersionInv /\ CallInv /\ [SdkNext]_sdkVars => CallInv'
<1> SUFFICES ASSUME VersionInv, CallInv, [SdkNext]_sdkVars PROVE CallInv'
  OBVIOUS
<1> USE SdkConstantsOK
<1>1. ASSUME NEW p \in Procs, NEW k \in Keys, Get(p, k) \/ Delete(p, k)
      PROVE  CallInv'
  <2>1. shown' \in [Procs -> BOOLEAN] /\ rivals' \in [Procs -> SUBSET Values]
    BY <1>1 DEF Get, Delete, CallInv, SdkTypeOK
  <2> QED
    BY <1>1, <2>1, BeginCallInv DEF Get, Delete, Ops
<1>2. ASSUME NEW p \in Procs, NEW k \in Keys, NEW v \in Values, Set(p, k, v)
      PROVE  CallInv'
  <2>1. InFlight(k) \subseteq Values
    <3>1. \A c \in Waiting(k) : sent[c].value \in Values
      BY DEF Waiting, CallInv, SlotInv
    <3>2. \A c \in Writing(k) : req[c].value \in Values
      BY DEF Writing, InHandler, Clients, VersionInv, TypeOK, Request
    <3>3. \A q \in Procs : Setting(q, k) => call[q].value \in Values
      BY DEF Setting, Open, CallInv, SlotInv
    <3> QED
      BY <3>1, <3>2, <3>3 DEF InFlight
  <2>2. rivals' \in [Procs -> SUBSET Values]
    BY <1>2, <2>1 DEF Set, CallInv, SdkTypeOK
  <2>3. Shows(rows[k], v) \in BOOLEAN
    BY DEF Shows, VersionInv, TypeOK, Row
  <2>4. shown' \in [Procs -> BOOLEAN]
    BY <1>2, <2>3 DEF Set, CallInv, SdkTypeOK
  <2> QED
    BY <1>2, <2>2, <2>4, BeginCallInv DEF Set, Ops
<1>3. ASSUME NEW p \in Procs, NEW state \in {"returned", "raised"},
             NEW status \in {0, 200, 201, 404, 409, 500}, Open(p), End(p, state, status)
      PROVE  CallInv'
  <2> DEFINE new == [call[p] EXCEPT !.state = state, !.status = status, !.slot = NoSlot]
  <2>0. call \in [Procs -> Call \cup {NoCall}] /\ call[p] \in Call /\ call[p] # NoCall
    BY <1>3 DEF Open, CallInv, SdkTypeOK
  <2>1. call' = [call EXCEPT ![p] = new]
    BY <1>3, <2>0 DEF End
  <2>2. /\ new \in Call /\ new.state = state /\ new.slot = NoSlot
        /\ new.fn = call[p].fn /\ new.value = call[p].value /\ new.op = call[p].op
    <3> DEFINE one == [call[p] EXCEPT !.state = state]
               two == [one EXCEPT !.status = status]
    <3>1. /\ one \in Call /\ one.state = state /\ one.fn = call[p].fn
          /\ one.value = call[p].value /\ one.op = call[p].op
      BY <2>0 DEF Call
    <3> HIDE DEF one
    <3>2. /\ two \in Call /\ two.state = state /\ two.fn = one.fn
          /\ two.value = one.value /\ two.op = one.op
      BY <3>1 DEF Call
    <3> HIDE DEF two
    <3>3. [two EXCEPT !.slot = NoSlot] \in Call
      BY <3>2 DEF Call
    <3>4. new = [two EXCEPT !.slot = NoSlot]
      BY DEF one, two
    <3> HIDE DEF new
    <3> QED
      BY <3>1, <3>2, <3>3, <3>4 DEF Call
  <2> HIDE DEF new
  <2>3. SdkTypeOK'
    BY <1>3, <2>0, <2>1, <2>2 DEF End, CallInv, SdkTypeOK
  <2>4. call'[p] = new /\ \A q \in Procs : q # p => call'[q] = call[q]
    BY <2>0, <2>1
  <2>5. UNCHANGED <<req, sent>>
    BY <1>3 DEF End, vars
  <2>6. SlotInv'
    BY <2>0, <2>2, <2>4, <2>5 DEF CallInv, SlotInv
  <2> QED
    BY <2>3, <2>6 DEF CallInv
<1>4. ASSUME NEW p \in Procs, FallBack(p)
      PROVE  CallInv'
  <2> DEFINE c == call[p].slot
             new == [call[p] EXCEPT !.op = "PUT"]
             asked == [op |-> "PUT", key |-> call[p].key, value |-> call[p].value]
  <2>1. /\ call[p] \in Call /\ call[p] # NoCall /\ c \in Writers /\ c # NoSlot
        /\ req[c] = Idle /\ call[p].op = "POST" /\ call[p].fn = "set" /\ call[p].value \in Values
        /\ call[p].state = "open"
    BY <1>4 DEF FallBack, Answered, Open, GoesOn, CallInv, SdkTypeOK, SlotInv, Call
  <2>2. call' = [call EXCEPT ![p] = new] /\ sent' = [sent EXCEPT ![c] = asked]
    BY <1>4 DEF FallBack, Send
  <2>3. new \in Call /\ asked \in HttpRequest
    BY <2>1 DEF Call, HttpRequest, Ops
  <2>4. /\ new.state = "open" /\ new.slot = c /\ new.op = "PUT" /\ new.key = call[p].key
        /\ new.fn = "set" /\ new.value = call[p].value
        /\ asked.op = "PUT" /\ asked.key = call[p].key /\ asked.value = call[p].value
    BY <2>1 DEF Call
  <2> HIDE DEF new, asked
  <2>5. SdkTypeOK'
    BY <1>4, <2>2, <2>3 DEF FallBack, CallInv, SdkTypeOK
  <2>6. /\ call'[p] = new /\ \A q \in Procs : q # p => call'[q] = call[q]
        /\ sent'[c] = asked /\ \A d \in Writers : d # c => sent'[d] = sent[d]
    BY <2>1, <2>2 DEF CallInv, SdkTypeOK
  <2>7. UNCHANGED req
    BY <1>4 DEF FallBack, vars
  <2>8. SlotInv'
    BY <2>1, <2>4, <2>6, <2>7 DEF CallInv, SlotInv
  <2> QED
    BY <2>5, <2>8 DEF CallInv
<1>5. ASSUME NEW p \in Procs, Return(p) \/ Raise(p) \/ TimeOut(p)
      PROVE  CallInv'
  <2>1. CASE TimeOut(p)
    BY <1>3, <2>1 DEF TimeOut
  <2>2. CASE Return(p) \/ Raise(p)
    <3>1. Open(p) /\ call[p].slot \in Writers
      BY <2>2 DEF Return, Raise, Answered, Open, CallInv, SdkTypeOK, Call
    <3>2. resp[call[p].slot].status \in {0, 200, 201, 404, 409, 500}
      BY <3>1 DEF Clients, VersionInv, TypeOK, Response
    <3> QED
      BY <1>3, <2>2, <3>1, <3>2 DEF Return, Raise
  <2> QED
    BY <1>5, <2>1, <2>2
<1>6. ASSUME Watch
      PROVE  shown' \in [Procs -> BOOLEAN] /\ UNCHANGED <<call, rivals>>
  BY <1>6 DEF Watch, Shows, Alive, CallInv, SdkTypeOK, VersionInv, TypeOK, Row
<1>7. ASSUME NEW c \in Writers, TakeUp(c)
      PROVE  CallInv'
  <2>1. /\ sent[c].op \in Ops /\ sent[c].key \in Keys /\ sent[c].value \in Values \cup {NoValue}
        /\ sent[c].op \in {"POST", "PUT"} => sent[c].value \in Values
        /\ req[c] = Idle /\ sent[c] # NoRequest
    BY <1>7 DEF TakeUp, CallInv, SdkTypeOK, SlotInv, HttpRequest
  <2>2. Serve(c, sent[c].op, sent[c].key, sent[c].value)
    BY <1>7 DEF TakeUp
  <2>3. /\ \A d \in Clients : d # c => req'[d] = req[d]
        /\ \/ req'[c] = Idle
           \/ /\ req'[c].op = sent[c].op /\ req'[c].key = sent[c].key
              /\ sent[c].op \in {"POST", "PUT"} => req'[c].value = sent[c].value
    BY <2>1, <2>2, ServeStep
  <2>4. sent' = [sent EXCEPT ![c] = NoRequest] /\ Watch
    BY <1>7 DEF TakeUp
  <2>5. SdkTypeOK'
    BY <1>6, <2>4 DEF CallInv, SdkTypeOK
  <2>6. sent'[c] = NoRequest /\ \A d \in Writers : d # c => sent'[d] = sent[d]
    BY <2>4 DEF CallInv, SdkTypeOK
  <2>7. SlotInv'
    BY <1>6, <2>1, <2>3, <2>4, <2>6 DEF CallInv, SlotInv, Clients
  <2> QED
    BY <2>5, <2>7 DEF CallInv
<1>8. ASSUME NEW c \in Writers, GoOn(c)
      PROVE  CallInv'
  <2>1. req[c] # Idle /\ UNCHANGED sent /\ Watch /\ req[c] \in Request
    BY <1>8 DEF GoOn, Clients, VersionInv, TypeOK
  <2>2. /\ \A d \in Clients : d # c => req'[d] = req[d]
        /\ \/ req'[c] = Idle
           \/ req'[c] = [req[c] EXCEPT !.at = "saved"]
    BY <1>8, GoOnStep DEF GoOn, CommitsTo, Finishes
  <2>3. req'[c] = Idle \/ (/\ req'[c].op = req[c].op
                           /\ req'[c].key = req[c].key
                           /\ req'[c].value = req[c].value)
    BY <2>1, <2>2 DEF Request
  <2>4. SdkTypeOK'
    BY <1>6, <2>1 DEF CallInv, SdkTypeOK
  <2>5. SlotInv'
    BY <1>6, <2>1, <2>2, <2>3 DEF CallInv, SlotInv, Clients
  <2> QED
    BY <2>4, <2>5 DEF CallInv
<1>9. ASSUME Restart
      PROVE  CallInv'
  <2>1. \A p \in Procs : call'[p] \in {call[p], [call[p] EXCEPT !.slot = NoSlot]}
    BY <1>9 DEF Restart
  <2>2. \A p \in Procs : call'[p] = call[p] \/
          /\ call[p] # NoCall /\ call'[p] # NoCall /\ call'[p] \in Call
          /\ call'[p].slot = NoSlot
          /\ call'[p].fn = call[p].fn /\ call'[p].value = call[p].value
          /\ call'[p].op = call[p].op /\ call'[p].state = call[p].state
    <3> TAKE p \in Procs
    <3>1. CASE Open(p) /\ ~ Answered(p)
      <4>1. call'[p] = [call[p] EXCEPT !.slot = NoSlot] /\ call[p] \in Call
        BY <1>9, <3>1 DEF Restart, Open, CallInv, SdkTypeOK
      <4>2. call'[p] \in Call
        BY <4>1 DEF Call
      <4> QED
        BY <3>1, <4>1, <4>2 DEF Open, Call
    <3>2. CASE ~ (Open(p) /\ ~ Answered(p))
      BY <1>9, <3>2 DEF Restart
    <3> QED
      BY <3>1, <3>2
  <2>3. /\ \A c \in Writers : sent'[c] = NoRequest /\ req'[c] = Idle
        /\ UNCHANGED <<shown, rivals>>
    BY <1>9 DEF Restart, Crash, Clients
  <2>4. SdkTypeOK'
    BY <1>9, <2>2, <2>3 DEF Restart, CallInv, SdkTypeOK
  <2>5. SlotInv'
    BY <2>2, <2>3 DEF CallInv, SlotInv
  <2> QED
    BY <2>4, <2>5 DEF CallInv
<1>10. CASE UNCHANGED sdkVars
  BY <1>10 DEF sdkVars, vars, calls, CallInv, SdkTypeOK, SlotInv
<1> QED
  BY <1>1, <1>2, <1>4, <1>5, <1>7, <1>8, <1>9, <1>10 DEF SdkNext

(* The variables keep their types. *)
THEOREM SdkTypeCorrect == SdkSpec => []SdkTypeOK
<1>1. SdkInit => VersionInv /\ CallInv
  BY InitVersionInv, InitCallInv DEF SdkInit
<1>2. VersionInv /\ CallInv /\ [SdkNext]_sdkVars => (VersionInv /\ CallInv)'
  BY NextVersionInv, NextCallInv, StoreStep
<1>3. CallInv => SdkTypeOK
  BY DEF CallInv
<1> QED
  BY <1>1, <1>2, <1>3, PTL DEF SdkSpec

-----------------------------------------------------------------------------
(* What a set promises. *)

SetOf(p, k) == call[p] # NoCall /\ call[p].fn = "set" /\ call[p].key = k

(* The request of p's set in place c has had its effect. *)
Effective(p, c) ==
  \/ req[c] # Idle /\ req[c].at = "saved"
  \/ req[c] = Idle /\ sent[c] = NoRequest /\ resp[c].status \in {200, 201}
  \/ InHandler(c, "PUT", "loaded") /\ req[c].snap.value = call[p].value

Done(p, k) ==
  /\ SetOf(p, k)
  /\ \/ call[p].state = "returned"
     \/ \E c \in Writers : Open(p) /\ call[p].slot = c /\ Effective(p, c)

(* The values that k may have once p's set of it is done. *)
Expected(p) == {call[p].value} \cup rivals[p]

FlightInv ==
  \A p \in Procs, k \in Keys : Setting(p, k) \/ HasSet(p, k) =>
    /\ \A c \in Waiting(k) : sent[c].value \in Expected(p)
    /\ \A c \in Writing(k) : req[c].value \in Expected(p)
    /\ \A q \in Procs : Setting(q, k) => call[q].value \in Expected(p)

ShownInv ==
  /\ \A p \in Procs, k \in Keys : Done(p, k) => shown[p]
  /\ \A p \in Procs, k \in Keys, c \in Writers :
       SetOf(p, k) /\ Open(p) /\ call[p].slot = c /\ InHandler(c, "PUT", "loaded")
         => shown[p] \/ IsActive(k)

HoldInv ==
  \A p \in Procs, k \in Keys : Done(p, k) /\ IsActive(k) => rows[k].value \in Expected(p)

(* What a step of the server in place c may do to the rest. *)
LEMMA ServerStep ==
  ASSUME VersionInv, CallInv, NEW c \in Writers, TakeUp(c) \/ GoOn(c)
  PROVE  /\ UNCHANGED <<call, rivals>>
         /\ \A d \in Writers : d # c =>
              req'[d] = req[d] /\ resp'[d] = resp[d] /\ sent'[d] = sent[d]
         /\ \A k \in Keys : rows[k] # NoRow =>
              rows'[k] # NoRow /\ (~ rows[k].active => ~ rows'[k].active)
         /\ \A k \in Keys : rows'[k] # NoRow /\ rows'[k].active =>
              \/ IsActive(k) /\ rows'[k].value = rows[k].value
              \/ c \in Writing(k) /\ rows'[k].value = req[c].value
         /\ \A p \in Procs : ~ Open(p) => shown'[p] = shown[p]
         /\ \A p \in Procs, k \in Keys : SetOf(p, k) /\ Open(p) =>
              /\ shown[p] => shown'[p]
              /\ rows'[k] # NoRow /\ rows'[k].active /\ rows'[k].value = call[p].value => shown'[p]
              /\ IsActive(k) /\ ~ (rows'[k] # NoRow /\ rows'[k].active) => shown'[p]
<1>1. Watch
  BY DEF TakeUp, GoOn
<1>2. UNCHANGED <<call, rivals>>
  BY <1>1 DEF Watch
<1>3. \A p \in Procs : ~ Open(p) => shown'[p] = shown[p]
  BY <1>1 DEF Watch
<1>4. ASSUME NEW p \in Procs, NEW k \in Keys, SetOf(p, k), Open(p)
      PROVE  /\ shown[p] => shown'[p]
             /\ rows'[k] # NoRow /\ rows'[k].active /\ rows'[k].value = call[p].value => shown'[p]
             /\ IsActive(k) /\ ~ (rows'[k] # NoRow /\ rows'[k].active) => shown'[p]
  BY <1>1, <1>4 DEF Watch, SetOf, Shows, Alive, IsActive
<1>5. CASE TakeUp(c)
  <2>1. /\ sent[c].op \in Ops /\ sent[c].key \in Keys /\ sent[c].value \in Values \cup {NoValue}
        /\ sent[c].op \in {"POST", "PUT"} => sent[c].value \in Values
        /\ req[c] = Idle
    BY <1>5 DEF TakeUp, CallInv, SdkTypeOK, SlotInv, HttpRequest
  <2>2. Serve(c, sent[c].op, sent[c].key, sent[c].value)
    BY <1>5 DEF TakeUp
  <2>3. UNCHANGED rows /\ \A d \in Clients : d # c => req'[d] = req[d] /\ resp'[d] = resp[d]
    BY <2>1, <2>2, ServeStep
  <2>4. \A d \in Writers : d # c => sent'[d] = sent[d]
    BY <1>5 DEF TakeUp, CallInv, SdkTypeOK
  <2> QED
    BY <1>2, <1>3, <1>4, <2>3, <2>4 DEF Clients, IsActive
<1>6. CASE GoOn(c)
  <2>1. req[c] # Idle /\ UNCHANGED sent /\ req[c] \in Request
    BY <1>6 DEF GoOn, Clients, VersionInv, TypeOK
  <2>2. /\ \A d \in Clients : d # c => req'[d] = req[d] /\ resp'[d] = resp[d]
        /\ CommitsTo(c, req[c].key) \/ Finishes(c)
    BY <1>6, GoOnStep DEF GoOn
  <2>3. CASE Finishes(c)
    BY <1>2, <1>3, <1>4, <2>1, <2>2, <2>3 DEF Finishes, Clients, IsActive
  <2>4. CASE CommitsTo(c, req[c].key)
    <3>1. /\ \A k \in Keys : rows[k] # NoRow =>
               rows'[k] # NoRow /\ (~ rows[k].active => ~ rows'[k].active)
      BY <2>1, <2>4 DEF CommitsTo, Request
    <3>2. ASSUME NEW k \in Keys, rows'[k] # NoRow, rows'[k].active
          PROVE  \/ IsActive(k) /\ rows'[k].value = rows[k].value
                 \/ c \in Writing(k) /\ rows'[k].value = req[c].value
      <4>1. CASE k # req[c].key
        BY <2>1, <2>4, <3>2, <4>1 DEF CommitsTo, IsActive, Request
      <4>2. CASE k = req[c].key
        BY <2>1, <2>4, <3>2, <4>2 DEF CommitsTo, IsActive, Request, Writing, InHandler
      <4> QED
        BY <4>1, <4>2
    <3> QED
      BY <1>2, <1>3, <1>4, <2>1, <2>2, <3>1, <3>2 DEF Clients
  <2> QED
    BY <2>2, <2>3, <2>4
<1> QED
  BY <1>5, <1>6

(* A set takes effect in a step of its own place that shows its value, or  *)
(* that writes to a key already deleted.                                   *)
LEMMA NewlyDone ==
  ASSUME VersionInv, CallInv, ShownInv, NEW c \in Writers, TakeUp(c) \/ GoOn(c),
         NEW p \in Procs, NEW k \in Keys, Done(p, k)', ~ Done(p, k)
  PROVE  /\ shown'[p]
         /\ rows'[k] # NoRow /\ rows'[k].active => rows'[k].value = call[p].value
<1>0. /\ call' = call
      /\ \A d \in Writers : d # c => req'[d] = req[d] /\ resp'[d] = resp[d] /\ sent'[d] = sent[d]
  BY ServerStep
<1>1. SetOf(p, k) /\ call[p].state # "returned"
  BY <1>0 DEF Done, SetOf
<1>2. PICK d \in Writers : Open(p) /\ call[p].slot = d /\ Effective(p, d)'
  BY <1>0, <1>1 DEF Done, Open
<1>3. ~ Effective(p, d)
  BY <1>1, <1>2 DEF Done
<1>4. d = c
  BY <1>0, <1>2, <1>3 DEF Effective, InHandler
<1>5. /\ shown[p] => shown'[p]
      /\ rows'[k] # NoRow /\ rows'[k].active /\ rows'[k].value = call[p].value => shown'[p]
      /\ IsActive(k) /\ ~ (rows'[k] # NoRow /\ rows'[k].active) => shown'[p]
  BY <1>1, <1>2, ServerStep
<1>6. call[p].op \in {"POST", "PUT"} /\ call[p].fn = "set" /\ call[p].key = k
  BY <1>1 DEF SetOf, CallInv, SlotInv
<1>7. CASE TakeUp(c)
  <2>1. /\ sent[c].op \in Ops /\ sent[c].key \in Keys /\ sent[c].value \in Values \cup {NoValue}
        /\ sent[c].op \in {"POST", "PUT"} => sent[c].value \in Values
        /\ req[c] = Idle /\ sent[c] # NoRequest
    BY <1>7 DEF TakeUp, CallInv, SdkTypeOK, SlotInv, HttpRequest
  <2>2. sent[c].op = call[p].op /\ sent[c].key = k
    BY <1>1, <1>2, <1>4, <1>6, <2>1 DEF SetOf, CallInv, SlotInv
  <2>3. Serve(c, sent[c].op, sent[c].key, sent[c].value)
    BY <1>7 DEF TakeUp
  <2>4. /\ UNCHANGED rows
        /\ \/ /\ req'[c] = Idle
              /\ resp'[c].status \in {200, 201} => sent[c].op = "GET"
           \/ /\ req'[c] # Idle
              /\ req'[c].op = sent[c].op /\ req'[c].at = "loaded"
              /\ req'[c].snap = rows[sent[c].key]
              /\ sent[c].op = "PUT" => IsActive(sent[c].key)
    BY <2>1, <2>3, ServeStep
  <2>5. /\ req'[c] # Idle /\ req'[c].op = "PUT" /\ req'[c].snap = rows[k] /\ IsActive(k)
        /\ req'[c].snap.value = call[p].value
    BY <1>0, <1>2, <1>4, <1>6, <2>2, <2>4 DEF Effective, InHandler
  <2> QED
    BY <1>5, <2>4, <2>5 DEF IsActive
<1>8. CASE GoOn(c)
  <2>1. req[c] # Idle /\ UNCHANGED sent /\ req[c] \in Request
    BY <1>8 DEF GoOn, Clients, VersionInv, TypeOK
  <2>2. CommitsTo(c, req[c].key) \/ Finishes(c)
    BY <1>8, GoOnStep DEF GoOn
  <2>3. req[c].at # "saved"
    BY <1>3, <1>4, <2>1 DEF Effective
  <2>4. CommitsTo(c, req[c].key)
    BY <1>2, <1>4, <2>2, <2>3 DEF Effective, Finishes, InHandler
  <2>5. /\ req[c].op = call[p].op /\ req[c].key = k /\ req[c].value = call[p].value
        /\ req[c].at = "loaded"
    BY <1>1, <1>2, <1>4, <1>6, <2>1, <2>4 DEF SetOf, CallInv, SlotInv, CommitsTo
  <2>6. CASE req[c].op = "POST"
    BY <1>5, <2>4, <2>5, <2>6 DEF CommitsTo
  <2>7. CASE req[c].op = "PUT"
    <3>1. req[c].snap.value # call[p].value
      BY <1>3, <1>4, <2>1, <2>5, <2>7 DEF Effective, InHandler
    <3>2. rows'[k].value = call[p].value /\ rows'[k].active = rows[k].active /\ rows[k] # NoRow
      BY <2>4, <2>5, <2>7, <3>1 DEF CommitsTo
    <3>3. rows'[k] # NoRow
      BY <2>4, <2>5 DEF CommitsTo
    <3>4. shown[p] \/ IsActive(k)
      BY <1>1, <1>2, <1>4, <2>1, <2>5, <2>7 DEF ShownInv, InHandler
    <3> QED
      BY <1>5, <3>2, <3>3, <3>4 DEF IsActive
  <2> QED
    BY <1>6, <2>5, <2>6, <2>7
<1> QED
  BY <1>7, <1>8

PromiseInv == FlightInv /\ ShownInv /\ HoldInv

(* The server adds no write to those in flight. *)
LEMMA ServerFlight ==
  ASSUME VersionInv, CallInv, NEW c \in Writers, TakeUp(c) \/ GoOn(c), NEW k \in Keys
  PROVE  /\ \A d \in Waiting(k)' : d \in Waiting(k) /\ sent'[d] = sent[d]
         /\ \A d \in Writing(k)' : \/ d \in Writing(k) /\ req'[d] = req[d]
                                   \/ d \in Waiting(k) /\ req'[d].value = sent[d].value
<1>0. \A d \in Writers : d # c => req'[d] = req[d] /\ sent'[d] = sent[d]
  BY ServerStep
<1>1. CASE TakeUp(c)
  <2>1. /\ sent[c].op \in Ops /\ sent[c].key \in Keys /\ sent[c].value \in Values \cup {NoValue}
        /\ sent[c].op \in {"POST", "PUT"} => sent[c].value \in Values
        /\ req[c] = Idle /\ sent[c] # NoRequest
    BY <1>1 DEF TakeUp, CallInv, SdkTypeOK, SlotInv, HttpRequest
  <2>2. Serve(c, sent[c].op, sent[c].key, sent[c].value)
    BY <1>1 DEF TakeUp
  <2>3. \/ req'[c] = Idle
        \/ /\ req'[c].op = sent[c].op /\ req'[c].key = sent[c].key
           /\ sent[c].op \in {"POST", "PUT"} => req'[c].value = sent[c].value
    BY <2>1, <2>2, ServeStep
  <2>4. sent'[c] = NoRequest
    BY <1>1 DEF TakeUp, CallInv, SdkTypeOK
  <2> QED
    BY <1>0, <2>1, <2>3, <2>4 DEF Waiting, Writing, InHandler
<1>2. CASE GoOn(c)
  <2>1. req[c] # Idle /\ UNCHANGED sent /\ req[c] \in Request
    BY <1>2 DEF GoOn, Clients, VersionInv, TypeOK
  <2>2. req'[c] = Idle \/ req'[c] = [req[c] EXCEPT !.at = "saved"]
    BY <1>2, GoOnStep DEF GoOn, CommitsTo, Finishes
  <2>3. c \notin Writing(k)'
    BY <2>1, <2>2 DEF Writing, InHandler, Request
  <2> QED
    BY <1>0, <2>1, <2>3 DEF Waiting, Writing, InHandler
<1> QED
  BY <1>1, <1>2

LEMMA ServerPromise ==
  ASSUME VersionInv, CallInv, PromiseInv, NEW c \in Writers, TakeUp(c) \/ GoOn(c)
  PROVE  PromiseInv'
<1>0. UNCHANGED <<call, rivals>>
  BY ServerStep
<1>1. FlightInv'
  <2> SUFFICES ASSUME NEW p \in Procs, NEW k \in Keys, (Setting(p, k) \/ HasSet(p, k))'
               PROVE  /\ \A d \in Waiting(k)' : sent'[d].value \in Expected(p)
                      /\ \A d \in Writing(k)' : req'[d].value \in Expected(p)
                      /\ \A q \in Procs : Setting(q, k) => call[q].value \in Expected(p)
    BY <1>0 DEF FlightInv, Expected, Setting, Open
  <2>1. Setting(p, k) \/ HasSet(p, k)
    BY <1>0 DEF Setting, HasSet, Open
  <2>2. /\ \A d \in Waiting(k) : sent[d].value \in Expected(p)
        /\ \A d \in Writing(k) : req[d].value \in Expected(p)
        /\ \A q \in Procs : Setting(q, k) => call[q].value \in Expected(p)
    BY <2>1 DEF PromiseInv, FlightInv
  <2> QED
    BY <2>2, ServerFlight
<1>2. ASSUME NEW p \in Procs, NEW k \in Keys, Done(p, k)'
      PROVE  /\ shown'[p]
             /\ rows'[k] # NoRow /\ rows'[k].active => rows'[k].value \in Expected(p)
  <2>1. SetOf(p, k)
    BY <1>0, <1>2 DEF Done, SetOf
  <2>2. CASE ~ Done(p, k)
    <3>1. /\ shown'[p]
          /\ rows'[k] # NoRow /\ rows'[k].active => rows'[k].value = call[p].value
      BY <1>2, <2>2, NewlyDone DEF PromiseInv
    <3> QED
      BY <3>1 DEF Expected
  <2>3. CASE Done(p, k)
    <3>1. shown[p] /\ (IsActive(k) => rows[k].value \in Expected(p))
      BY <2>3 DEF PromiseInv, ShownInv, HoldInv
    <3>2. shown'[p]
      BY <2>1, <3>1, ServerStep
    <3>3. Setting(p, k) \/ HasSet(p, k)
      BY <2>3 DEF Done, SetOf, Setting, HasSet, Open
    <3>4. \A d \in Writing(k) : req[d].value \in Expected(p)
      BY <3>3 DEF PromiseInv, FlightInv
    <3>5. ASSUME rows'[k] # NoRow, rows'[k].active
          PROVE  rows'[k].value \in Expected(p)
      <4>1. \/ IsActive(k) /\ rows'[k].value = rows[k].value
            \/ c \in Writing(k) /\ rows'[k].value = req[c].value
        BY <3>5, ServerStep
      <4> QED
        BY <3>1, <3>4, <4>1
    <3> QED
      BY <3>2, <3>5
  <2> QED
    BY <2>2, <2>3
<1>3. HoldInv'
  BY <1>0, <1>2 DEF HoldInv, Expected, IsActive
<1>4. ASSUME NEW p \in Procs, NEW k \in Keys, NEW d \in Writers, SetOf(p, k), Open(p),
             call[p].slot = d, InHandler(d, "PUT", "loaded")'
      PROVE  shown'[p] \/ IsActive(k)'
  <2>1. /\ shown[p] => shown'[p]
        /\ IsActive(k) /\ ~ (rows'[k] # NoRow /\ rows'[k].active) => shown'[p]
    BY <1>4, ServerStep
  <2>2. CASE InHandler(d, "PUT", "loaded")
    <3>1. shown[p] \/ IsActive(k)
      BY <1>4, <2>2 DEF PromiseInv, ShownInv
    <3> QED
      BY <2>1, <3>1 DEF IsActive
  <2>3. CASE ~ InHandler(d, "PUT", "loaded")
    <3>1. d = c
      BY <1>4, <2>3, ServerStep DEF InHandler
    <3>2. TakeUp(c)
      <4>1. ASSUME GoOn(c)
            PROVE  FALSE
        <5>1. req[c] # Idle /\ req[c] \in Request
          BY <4>1 DEF GoOn, Clients, VersionInv, TypeOK
        <5>2. req'[c] = Idle \/ req'[c] = [req[c] EXCEPT !.at = "saved"]
          BY <4>1, GoOnStep DEF GoOn, CommitsTo, Finishes
        <5> QED
          BY <1>4, <3>1, <5>1, <5>2 DEF InHandler, Request
      <4> QED
        BY <4>1
    <3>3. /\ sent[c].op \in Ops /\ sent[c].key \in Keys /\ sent[c].value \in Values \cup {NoValue}
          /\ sent[c].op \in {"POST", "PUT"} => sent[c].value \in Values
          /\ req[c] = Idle /\ sent[c] # NoRequest
      BY <3>2 DEF TakeUp, CallInv, SdkTypeOK, SlotInv, HttpRequest
    <3>4. sent[c].key = k
      BY <1>4, <3>1, <3>3 DEF SetOf, CallInv, SlotInv
    <3>5. Serve(c, sent[c].op, sent[c].key, sent[c].value)
      BY <3>2 DEF TakeUp
    <3>6. UNCHANGED rows /\ IsActive(sent[c].key)
      BY <1>4, <3>1, <3>3, <3>5, ServeStep DEF InHandler
    <3> QED
      BY <3>4, <3>6 DEF IsActive
  <2> QED
    BY <2>2, <2>3
<1>5. ShownInv'
  BY <1>0, <1>2, <1>4 DEF ShownInv, SetOf, Open
<1> QED
  BY <1>1, <1>3, <1>5 DEF PromiseInv

(* A step that leaves the table alone and makes no set done keeps what the *)
(* sets that are done promise.                                             *)
LEMMA PromiseFrame ==
  ASSUME PromiseInv, UNCHANGED rows, FlightInv',
         \A p \in Procs, k \in Keys : Done(p, k)' =>
           /\ Done(p, k)
           /\ shown'[p] = shown[p] /\ call'[p].value = call[p].value /\ rivals[p] \subseteq rivals'[p],
         \A p \in Procs, k \in Keys, c \in Writers :
           (SetOf(p, k) /\ Open(p) /\ call[p].slot = c /\ InHandler(c, "PUT", "loaded"))' =>
             /\ SetOf(p, k) /\ Open(p) /\ call[p].slot = c /\ InHandler(c, "PUT", "loaded")
             /\ shown'[p] = shown[p]
  PROVE  PromiseInv'
<1>1. ShownInv'
  BY DEF PromiseInv, ShownInv, IsActive
<1>2. HoldInv'
  BY DEF PromiseInv, HoldInv, IsActive, Expected
<1> QED
  BY <1>1, <1>2 DEF PromiseInv

(* p's set of k has its answer in place c. *)
AnsweredAt(p, k, c) ==
  SetOf(p, k) /\ Open(p) /\ call[p].slot = c /\ req[c] = Idle /\ sent[c] = NoRequest

(* A call that begins is not done, and disturbs no other. *)
Begins(p, fn, op, j, v) ==
  /\ rows' = rows /\ req' = req /\ resp' = resp
  /\ \A q \in Procs : q # p => call'[q] = call[q]
  /\ call'[p] # NoCall /\ call'[p].fn = fn /\ call'[p].key = j /\ call'[p].value = v
  /\ call'[p].state = "open" /\ call'[p].op = op
  /\ \E c \in Writers : /\ sent'[c] = [op |-> op, key |-> j, value |-> v]
                        /\ \A d \in Writers : d # c => sent'[d] = sent[d]
  /\ \A q \in Procs, k \in Keys : Done(q, k)' => q # p /\ Done(q, k)
  /\ \A q \in Procs, k \in Keys, d \in Writers :
       (SetOf(q, k) /\ Open(q) /\ call[q].slot = d /\ InHandler(d, "PUT", "loaded"))' =>
         /\ q # p
         /\ SetOf(q, k) /\ Open(q) /\ call[q].slot = d /\ InHandler(d, "PUT", "loaded")
  /\ \A q \in Procs, k \in Keys, d \in Writers :
       AnsweredAt(q, k, d)' => q # p /\ AnsweredAt(q, k, d)

LEMMA BeginFrame ==
  ASSUME VersionInv, CallInv, NEW p \in Procs, NEW j \in Keys, NEW fn \in {"get", "set", "delete"},
         NEW op \in Ops,
         NEW v \in Values \cup {NoValue}, Begin(p, fn, op, j, v)
  PROVE  Begins(p, fn, op, j, v)
<1> DEFINE asked == [op |-> op, key |-> j, value |-> v]
<1>1. PICK c \in Writers : /\ Free(c) /\ sent' = [sent EXCEPT ![c] = asked]
                           /\ call' = [call EXCEPT ![p] =
                                [fn |-> fn, key |-> j, value |-> v, op |-> op,
                                 slot |-> c, state |-> "open", status |-> 0]]
  BY DEF Begin, Send
<1> DEFINE new == [fn |-> fn, key |-> j, value |-> v, op |-> op,
                   slot |-> c, state |-> "open", status |-> 0]
<1>2. UNCHANGED <<rows, req, resp>>
  BY DEF Begin, vars
<1>3. asked # NoRequest
  BY SdkConstantsOK DEF HttpRequest
<1>4. /\ call'[p] = new /\ \A q \in Procs : q # p => call'[q] = call[q]
      /\ sent'[c] = asked /\ \A d \in Writers : d # c => sent'[d] = sent[d]
  BY <1>1 DEF CallInv, SdkTypeOK
<1>5. req[c] = Idle /\ \A q \in Procs : call[q] # NoCall => call[q].slot # c
  BY <1>1 DEF Free
<1>6. /\ new.fn = fn /\ new.key = j /\ new.value = v /\ new.op = op /\ new.slot = c
      /\ new.state = "open"
  OBVIOUS
<1>7. new # NoCall
  BY SdkConstantsOK DEF Call
<1> HIDE DEF new, asked
<1>8. ASSUME NEW q \in Procs, NEW k \in Keys, Done(q, k)'
      PROVE  q # p /\ Done(q, k)
  <2>1. CASE q = p
    BY <1>2, <1>3, <1>4, <1>5, <1>6, <1>8, <2>1 DEF Done, Effective, InHandler
  <2>2. CASE q # p
    BY <1>2, <1>4, <1>5, <1>8, <2>2 DEF Done, SetOf, Open, Effective, InHandler
  <2> QED
    BY <2>1, <2>2
<1>9. ASSUME NEW q \in Procs, NEW k \in Keys, NEW d \in Writers,
             (SetOf(q, k) /\ Open(q) /\ call[q].slot = d /\ InHandler(d, "PUT", "loaded"))'
      PROVE  /\ q # p
             /\ SetOf(q, k) /\ Open(q) /\ call[q].slot = d /\ InHandler(d, "PUT", "loaded")
  BY <1>2, <1>4, <1>5, <1>6, <1>9 DEF SetOf, Open, InHandler
<1>10. ASSUME NEW q \in Procs, NEW k \in Keys, NEW d \in Writers, AnsweredAt(q, k, d)'
       PROVE  q # p /\ AnsweredAt(q, k, d)
  <2>1. CASE q = p
    BY <1>3, <1>4, <1>6, <1>10, <2>1 DEF AnsweredAt
  <2>2. CASE q # p
    BY <1>2, <1>4, <1>5, <1>10, <2>2 DEF AnsweredAt, SetOf, Open
  <2> QED
    BY <2>1, <2>2
<1> QED
  BY <1>2, <1>4, <1>6, <1>7, <1>8, <1>9, <1>10 DEF asked, Begins

LEMMA BeginReadPromise ==
  ASSUME VersionInv, CallInv, PromiseInv, NEW p \in Procs, NEW j \in Keys,
         Get(p, j) \/ Delete(p, j)
  PROVE  PromiseInv'
<1>1. PICK fn \in {"get", "delete"}, op \in {"GET", "DELETE"} : Begin(p, fn, op, j, NoValue)
  BY DEF Get, Delete
<1>0. /\ fn \in {"get", "set", "delete"} /\ op \in Ops /\ op \in {"GET", "DELETE"}
      /\ NoValue \in Values \cup {NoValue}
  BY DEF Ops
<1>8. Begins(p, fn, op, j, NoValue)
  BY <1>0, <1>1, BeginFrame
<1>2. /\ rows' = rows /\ req' = req /\ resp' = resp
      /\ \A q \in Procs : q # p => call'[q] = call[q]
      /\ call'[p] # NoCall /\ call'[p].fn = fn
  BY <1>8 DEF Begins
<1>6. \A q \in Procs, k \in Keys : Done(q, k)' => q # p /\ Done(q, k)
  BY <1>8 DEF Begins
<1>7. \A q \in Procs, k \in Keys, d \in Writers :
        (SetOf(q, k) /\ Open(q) /\ call[q].slot = d /\ InHandler(d, "PUT", "loaded"))' =>
          /\ q # p
          /\ SetOf(q, k) /\ Open(q) /\ call[q].slot = d /\ InHandler(d, "PUT", "loaded")
  BY <1>8 DEF Begins
<1>3. PICK c \in Writers : /\ sent'[c] = [op |-> op, key |-> j, value |-> NoValue]
                           /\ \A d \in Writers : d # c => sent'[d] = sent[d]
  BY <1>8 DEF Begins
<1>4. \A q \in Procs : q # p => shown'[q] = shown[q] /\ rivals'[q] = rivals[q]
  BY DEF Get, Delete, CallInv, SdkTypeOK
<1>5. FlightInv'
  <2> SUFFICES ASSUME NEW q \in Procs, NEW k \in Keys, (Setting(q, k) \/ HasSet(q, k))'
               PROVE  /\ \A d \in Waiting(k)' : sent'[d].value \in Expected(q)'
                      /\ \A d \in Writing(k)' : req'[d].value \in Expected(q)'
                      /\ \A r \in Procs : Setting(r, k)' => call'[r].value \in Expected(q)'
    BY DEF FlightInv
  <2>1. q # p /\ (Setting(q, k) \/ HasSet(q, k)) /\ Expected(q)' = Expected(q)
    BY <1>2, <1>4 DEF Setting, HasSet, Open, Expected
  <2>2. \A d \in Waiting(k)' : d \in Waiting(k) /\ sent'[d] = sent[d]
    BY <1>3 DEF Waiting
  <2>3. \A d \in Writing(k)' : d \in Writing(k) /\ req'[d] = req[d]
    BY <1>2 DEF Writing, InHandler
  <2>4. \A r \in Procs : Setting(r, k)' => Setting(r, k) /\ call'[r] = call[r]
    BY <1>2 DEF Setting, Open
  <2> QED
    BY <2>1, <2>2, <2>3, <2>4 DEF PromiseInv, FlightInv
<1> QED
  BY <1>2, <1>4, <1>5, <1>6, <1>7, PromiseFrame

LEMMA BeginSetPromise ==
  ASSUME VersionInv, CallInv, PromiseInv, NEW p \in Procs, NEW j \in Keys, NEW v \in Values,
         Set(p, j, v)
  PROVE  PromiseInv'
<1>1. Begin(p, "set", "POST", j, v)
  BY DEF Set
<1>0. "set" \in {"get", "set", "delete"} /\ "POST" \in Ops /\ v \in Values \cup {NoValue}
  BY DEF Ops
<1>8. Begins(p, "set", "POST", j, v)
  BY <1>0, <1>1, BeginFrame
<1>2. /\ rows' = rows /\ req' = req /\ resp' = resp
      /\ \A q \in Procs : q # p => call'[q] = call[q]
      /\ call'[p] # NoCall /\ call'[p].fn = "set" /\ call'[p].key = j /\ call'[p].value = v
      /\ call'[p].state = "open"
  BY <1>8 DEF Begins
<1>6. \A q \in Procs, k \in Keys : Done(q, k)' => q # p /\ Done(q, k)
  BY <1>8 DEF Begins
<1>7. \A q \in Procs, k \in Keys, d \in Writers :
        (SetOf(q, k) /\ Open(q) /\ call[q].slot = d /\ InHandler(d, "PUT", "loaded"))' =>
          /\ q # p
          /\ SetOf(q, k) /\ Open(q) /\ call[q].slot = d /\ InHandler(d, "PUT", "loaded")
  BY <1>8 DEF Begins
<1>3. PICK c \in Writers : /\ sent'[c] = [op |-> "POST", key |-> j, value |-> v]
                           /\ \A d \in Writers : d # c => sent'[d] = sent[d]
  BY <1>8 DEF Begins
<1>4. /\ rivals'[p] = InFlight(j)
      /\ \A q \in Procs : q # p =>
           /\ shown'[q] = shown[q]
           /\ rivals[q] \subseteq rivals'[q]
           /\ Setting(q, j) \/ HasSet(q, j) => v \in rivals'[q]
  BY DEF Set, CallInv, SdkTypeOK
<1>5. FlightInv'
  <2> SUFFICES ASSUME NEW q \in Procs, NEW k \in Keys, (Setting(q, k) \/ HasSet(q, k))'
               PROVE  /\ \A d \in Waiting(k)' : sent'[d].value \in Expected(q)'
                      /\ \A d \in Writing(k)' : req'[d].value \in Expected(q)'
                      /\ \A r \in Procs : Setting(r, k)' => call'[r].value \in Expected(q)'
    BY DEF FlightInv
  <2>1. \A d \in Waiting(k)' : \/ d \in Waiting(k) /\ sent'[d] = sent[d]
                               \/ k = j /\ sent'[d].value = v
    BY <1>3 DEF Waiting
  <2>2. \A d \in Writing(k)' : d \in Writing(k) /\ req'[d] = req[d]
    BY <1>2 DEF Writing, InHandler
  <2>3. \A r \in Procs : Setting(r, k)' => \/ Setting(r, k) /\ call'[r] = call[r]
                                           \/ k = j /\ call'[r].value = v
    BY <1>2 DEF Setting, Open
  <2>4. CASE q = p
    <3>1. k = j
      BY <1>2, <2>4 DEF Setting, HasSet, Open
    <3>2. Expected(q)' = {v} \cup InFlight(k)
      BY <1>2, <1>4, <2>4, <3>1 DEF Expected
    <3> QED
      BY <2>1, <2>2, <2>3, <3>2 DEF InFlight
  <2>5. CASE q # p
    <3>1. (Setting(q, k) \/ HasSet(q, k)) /\ Expected(q) \subseteq Expected(q)'
      BY <1>2, <1>4, <2>5 DEF Setting, HasSet, Open, Expected
    <3>2. k = j => v \in Expected(q)'
      BY <1>4, <2>5, <3>1 DEF Expected
    <3>3. /\ \A d \in Waiting(k) : sent[d].value \in Expected(q)
          /\ \A d \in Writing(k) : req[d].value \in Expected(q)
          /\ \A r \in Procs : Setting(r, k) => call[r].value \in Expected(q)
      BY <3>1 DEF PromiseInv, FlightInv
    <3> QED
      BY <2>1, <2>2, <2>3, <3>1, <3>2, <3>3
  <2> QED
    BY <2>4, <2>5
<1> QED
  BY <1>2, <1>4, <1>5, <1>6, <1>7, PromiseFrame

(* A call that ends as returned was done. *)
LEMMA EndPromise ==
  ASSUME VersionInv, CallInv, PromiseInv, NEW p \in Procs, NEW state \in {"returned", "raised"},
         NEW status, Open(p), End(p, state, status),
         state = "returned" => Answered(p) /\ resp[call[p].slot].status \in {200, 201}
  PROVE  PromiseInv'
<1>0. call \in [Procs -> Call \cup {NoCall}] /\ call[p] \in Call /\ call[p] # NoCall
  BY DEF Open, CallInv, SdkTypeOK
<1> DEFINE new == [call[p] EXCEPT !.state = state, !.status = status, !.slot = NoSlot]
<1>1. call' = [call EXCEPT ![p] = new]
  BY <1>0 DEF End
<1>2. /\ new.state = state /\ new.slot = NoSlot
      /\ new.fn = call[p].fn /\ new.value = call[p].value /\ new.key = call[p].key
  BY <1>0 DEF Call
<1> HIDE DEF new
<1>3. call'[p] = new /\ \A q \in Procs : q # p => call'[q] = call[q]
  BY <1>0, <1>1
<1>4. rows' = rows /\ req' = req /\ resp' = resp /\ sent' = sent /\ shown' = shown /\ rivals' = rivals
  BY DEF End, vars
<1>5. \A q \in Procs : call'[q].value = call[q].value
  BY <1>2, <1>3
<1>6. ~ Open(p)'
  BY <1>2, <1>3 DEF Open
<1>7. ASSUME NEW q \in Procs, NEW k \in Keys, Done(q, k)'
      PROVE  Done(q, k)
  <2>1. CASE q # p
    BY <1>3, <1>4, <1>7, <2>1 DEF Done, SetOf, Open, Effective, InHandler
  <2>2. CASE q = p
    <3>1. state = "returned" /\ SetOf(p, k)
      BY <1>0, <1>2, <1>3, <1>6, <1>7, <2>2 DEF Done, SetOf
    <3>2. call[p].slot \in Writers
      BY <1>0, <3>1 DEF Answered, Call
    <3> QED
      BY <2>2, <3>1, <3>2 DEF Done, Effective, Answered
  <2> QED
    BY <2>1, <2>2
<1>8. \A q \in Procs, k \in Keys, d \in Writers :
        (SetOf(q, k) /\ Open(q) /\ call[q].slot = d /\ InHandler(d, "PUT", "loaded"))' =>
          SetOf(q, k) /\ Open(q) /\ call[q].slot = d /\ InHandler(d, "PUT", "loaded")
  BY <1>3, <1>4, <1>6 DEF SetOf, Open, InHandler
<1>9. FlightInv'
  <2> SUFFICES ASSUME NEW q \in Procs, NEW k \in Keys, (Setting(q, k) \/ HasSet(q, k))'
               PROVE  /\ \A d \in Waiting(k)' : sent'[d].value \in Expected(q)'
                      /\ \A d \in Writing(k)' : req'[d].value \in Expected(q)'
                      /\ \A r \in Procs : Setting(r, k)' => call'[r].value \in Expected(q)'
    BY DEF FlightInv
  <2>1. Setting(q, k) \/ HasSet(q, k)
    BY <1>2, <1>3 DEF Setting, HasSet, Open
  <2>2. Expected(q)' = Expected(q)
    BY <1>4, <1>5 DEF Expected
  <2>3. \A r \in Procs : Setting(r, k)' => Setting(r, k)
    BY <1>3, <1>6 DEF Setting, Open
  <2>4. Waiting(k)' = Waiting(k) /\ Writing(k)' = Writing(k)
    BY <1>4 DEF Waiting, Writing, InHandler
  <2> QED
    BY <1>4, <1>5, <2>1, <2>2, <2>3, <2>4 DEF PromiseInv, FlightInv
<1> QED
  BY <1>4, <1>5, <1>7, <1>8, <1>9, PromiseFrame

(* The PUT that follows a 409 brings no new value. *)
LEMMA FallBackPromise ==
  ASSUME VersionInv, CallInv, PromiseInv, NEW p \in Procs, FallBack(p)
  PROVE  PromiseInv'
<1> DEFINE c == call[p].slot
           new == [call[p] EXCEPT !.op = "PUT"]
           asked == [op |-> "PUT", key |-> call[p].key, value |-> call[p].value]
<1>1. /\ call[p] \in Call /\ call[p] # NoCall /\ c \in Writers /\ c # NoSlot
      /\ req[c] = Idle /\ call[p].fn = "set" /\ call[p].value \in Values
      /\ call[p].state = "open" /\ call[p].key \in Keys
  BY DEF FallBack, Answered, Open, GoesOn, CallInv, SdkTypeOK, SlotInv, Call
<1>2. call' = [call EXCEPT ![p] = new] /\ sent' = [sent EXCEPT ![c] = asked]
  BY DEF FallBack, Send
<1>3. asked # NoRequest
  BY <1>1, SdkConstantsOK DEF HttpRequest, Ops
<1>4. /\ new.slot = c /\ new.fn = "set" /\ new.state = "open"
      /\ new.key = call[p].key /\ new.value = call[p].value
      /\ asked.op = "PUT" /\ asked.key = call[p].key /\ asked.value = call[p].value
  BY <1>1 DEF Call
<1>5. /\ call'[p] = new /\ \A q \in Procs : q # p => call'[q] = call[q]
      /\ sent'[c] = asked /\ \A d \in Writers : d # c => sent'[d] = sent[d]
  BY <1>1, <1>2 DEF CallInv, SdkTypeOK
<1>6. rows' = rows /\ req' = req /\ resp' = resp /\ shown' = shown /\ rivals' = rivals
  BY DEF FallBack, vars
<1>7. \A q \in Procs : q # p /\ call[q] # NoCall => call[q].slot # c
  BY <1>1 DEF CallInv, SlotInv
<1> HIDE DEF c, new, asked
<1>8. \A q \in Procs : call'[q].value = call[q].value
  BY <1>4, <1>5
<1>9. ASSUME NEW q \in Procs, NEW k \in Keys, Done(q, k)'
      PROVE  Done(q, k)
  <2>1. CASE q # p
    BY <1>5, <1>6, <1>7, <1>9, <2>1 DEF Done, SetOf, Open, Effective, InHandler
  <2>2. CASE q = p
    BY <1>1, <1>3, <1>4, <1>5, <1>6, <1>9, <2>2 DEF Done, SetOf, Open, Effective, InHandler
  <2> QED
    BY <2>1, <2>2
<1>10. ASSUME NEW q \in Procs, NEW k \in Keys, NEW d \in Writers,
              (SetOf(q, k) /\ Open(q) /\ call[q].slot = d /\ InHandler(d, "PUT", "loaded"))'
       PROVE  SetOf(q, k) /\ Open(q) /\ call[q].slot = d /\ InHandler(d, "PUT", "loaded")
  <2>1. CASE q # p
    BY <1>5, <1>6, <1>10, <2>1 DEF SetOf, Open, InHandler
  <2>2. CASE q = p
    BY <1>1, <1>4, <1>5, <1>6, <1>10, <2>2 DEF InHandler
  <2> QED
    BY <2>1, <2>2
<1>11. FlightInv'
  <2> SUFFICES ASSUME NEW q \in Procs, NEW k \in Keys, (Setting(q, k) \/ HasSet(q, k))'
               PROVE  /\ \A d \in Waiting(k)' : sent'[d].value \in Expected(q)'
                      /\ \A d \in Writing(k)' : req'[d].value \in Expected(q)'
                      /\ \A r \in Procs : Setting(r, k)' => call'[r].value \in Expected(q)'
    BY DEF FlightInv
  <2>1. Setting(q, k) \/ HasSet(q, k)
    BY <1>1, <1>4, <1>5 DEF Setting, HasSet, Open
  <2>2. Expected(q)' = Expected(q)
    BY <1>6, <1>8 DEF Expected
  <2>3. \A r \in Procs : Setting(r, k)' => Setting(r, k)
    BY <1>1, <1>4, <1>5 DEF Setting, Open
  <2>4. \A d \in Waiting(k)' : \/ d \in Waiting(k) /\ sent'[d] = sent[d]
                               \/ Setting(p, k) /\ sent'[d].value = call[p].value
    BY <1>1, <1>4, <1>5 DEF Waiting, Setting, Open
  <2>5. Writing(k)' = Writing(k)
    BY <1>6 DEF Writing, InHandler
  <2> QED
    BY <1>6, <1>8, <2>1, <2>2, <2>3, <2>4, <2>5 DEF PromiseInv, FlightInv
<1> QED
  BY <1>6, <1>8, <1>9, <1>10, <1>11, PromiseFrame

(* A restart forgets requests and answers, and nothing that is done. *)
LEMMA RestartPromise ==
  ASSUME VersionInv, CallInv, PromiseInv, Restart
  PROVE  PromiseInv'
<1>1. /\ \A c \in Writers : sent'[c] = NoRequest /\ req'[c] = Idle
      /\ \A c \in Writers : req[c] = Idle => resp'[c] = resp[c]
      /\ rows' = rows /\ shown' = shown /\ rivals' = rivals
  BY DEF Restart, Crash, Clients
<1>2. ASSUME NEW p \in Procs
      PROVE  \/ call'[p] = call[p] /\ ~ (Open(p) /\ ~ Answered(p))
             \/ /\ call[p] # NoCall /\ call[p].state = "open"
                /\ call'[p] # NoCall
                /\ call'[p].slot = NoSlot /\ call'[p].state = "open"
                /\ call'[p].fn = call[p].fn /\ call'[p].key = call[p].key
                /\ call'[p].value = call[p].value
  <2>1. CASE Open(p) /\ ~ Answered(p)
    <3>1. call'[p] = [call[p] EXCEPT !.slot = NoSlot] /\ call[p] \in Call
      BY <2>1 DEF Restart, Open, CallInv, SdkTypeOK
    <3>2. call'[p] \in Call
      BY <3>1 DEF Call
    <3> QED
      BY <2>1, <3>1, <3>2, SdkConstantsOK DEF Open, Call
  <2>2. CASE ~ (Open(p) /\ ~ Answered(p))
    BY <2>2 DEF Restart
  <2> QED
    BY <2>1, <2>2
<1>3. \A p \in Procs : call'[p].value = call[p].value
  BY <1>2
<1>4. ASSUME NEW p \in Procs, NEW k \in Keys, Done(p, k)'
      PROVE  Done(p, k)
  <2>1. SetOf(p, k)
    BY <1>2, <1>4 DEF Done, SetOf
  <2>2. CASE call[p].state = "returned"
    BY <2>1, <2>2 DEF Done
  <2>3. CASE call[p].state # "returned"
    <3>1. call'[p].state # "returned"
      BY <1>2, <2>3
    <3>2. PICK d \in Writers : Open(p)' /\ call'[p].slot = d /\ Effective(p, d)'
      BY <1>4, <3>1 DEF Done
    <3>3. call'[p] = call[p] /\ Open(p) /\ Answered(p)
      BY <1>2, <3>2, SdkConstantsOK DEF Open
    <3>4. resp[d].status \in {200, 201}
      BY <1>1, <3>2, <3>3 DEF Effective, Answered, InHandler
    <3>5. Effective(p, d)
      BY <3>2, <3>3, <3>4 DEF Effective, Answered
    <3> QED
      BY <2>1, <3>2, <3>3, <3>5 DEF Done
  <2> QED
    BY <2>2, <2>3
<1>5. \A d \in Writers : ~ InHandler(d, "PUT", "loaded")'
  BY <1>1 DEF InHandler
<1>6. FlightInv'
  <2> SUFFICES ASSUME NEW q \in Procs, NEW k \in Keys, (Setting(q, k) \/ HasSet(q, k))'
               PROVE  /\ \A d \in Waiting(k)' : sent'[d].value \in Expected(q)'
                      /\ \A d \in Writing(k)' : req'[d].value \in Expected(q)'
                      /\ \A r \in Procs : Setting(r, k)' => call'[r].value \in Expected(q)'
    BY DEF FlightInv
  <2>1. Setting(q, k) \/ HasSet(q, k)
    BY <1>2 DEF Setting, HasSet, Open
  <2>2. Expected(q)' = Expected(q)
    BY <1>1, <1>3 DEF Expected
  <2>3. \A r \in Procs : Setting(r, k)' => Setting(r, k)
    BY <1>2 DEF Setting, Open
  <2>4. Waiting(k)' = {} /\ Writing(k)' = {}
    BY <1>1 DEF Waiting, Writing, InHandler
  <2> QED
    BY <1>3, <2>1, <2>2, <2>3, <2>4 DEF PromiseInv, FlightInv
<1> QED
  BY <1>1, <1>3, <1>4, <1>5, <1>6, PromiseFrame

LEMMA InitPromiseInv == SdkInit => PromiseInv
BY DEF SdkInit, Init, PromiseInv, FlightInv, ShownInv, HoldInv, Done, SetOf, Setting, HasSet, Open

LEMMA NextPromiseInv ==
  VersionInv /\ CallInv /\ PromiseInv /\ [SdkNext]_sdkVars => PromiseInv'
<1> SUFFICES ASSUME VersionInv, CallInv, PromiseInv, [SdkNext]_sdkVars PROVE PromiseInv'
  OBVIOUS
<1>1. ASSUME NEW p \in Procs, Return(p)
      PROVE  PromiseInv'
  <2>1. Open(p) /\ Answered(p) /\ resp[call[p].slot].status \in {200, 201}
    BY <1>1 DEF Return, Answered, Accepted
  <2>2. End(p, "returned", resp[call[p].slot].status)
    BY <1>1 DEF Return
  <2> QED
    BY <2>1, <2>2, EndPromise
<1>2. ASSUME NEW p \in Procs, Raise(p)
      PROVE  PromiseInv'
  <2>1. Open(p) /\ End(p, "raised", resp[call[p].slot].status)
    BY <1>2 DEF Raise, Answered
  <2> QED
    BY <2>1, EndPromise
<1>3. ASSUME NEW p \in Procs, TimeOut(p)
      PROVE  PromiseInv'
  <2>1. Open(p) /\ End(p, "raised", 0)
    BY <1>3 DEF TimeOut
  <2> QED
    BY <2>1, EndPromise
<1>4. CASE UNCHANGED sdkVars
  BY <1>4 DEF sdkVars, vars, calls, PromiseInv, FlightInv, ShownInv, HoldInv, Done, SetOf,
              Setting, HasSet, Open, Effective, InHandler, Waiting, Writing, Expected, IsActive
<1> QED
  BY <1>1, <1>2, <1>3, <1>4, BeginReadPromise, BeginSetPromise, FallBackPromise,
     ServerPromise, RestartPromise DEF SdkNext

-----------------------------------------------------------------------------
(* Why a set is refused. *)
RefusedInv ==
  \A p \in Procs, k \in Keys : SetOf(p, k) =>
    /\ call[p].op = "PUT" => rows[k] # NoRow
    /\ \A c \in Writers : AnsweredAt(p, k, c) =>
         /\ resp[c].status = 409 => rows[k] # NoRow
         /\ resp[c].status = 404 => call[p].op = "PUT" /\ ~ IsActive(k)
    /\ call[p].state = "raised" /\ call[p].status = 404 => rows[k] # NoRow /\ ~ IsActive(k)

LEMMA ServerRefused ==
  ASSUME VersionInv, CallInv, RefusedInv, NEW c \in Writers, TakeUp(c) \/ GoOn(c)
  PROVE  RefusedInv'
<1>1. /\ call' = call
      /\ \A d \in Writers : d # c => req'[d] = req[d] /\ resp'[d] = resp[d] /\ sent'[d] = sent[d]
      /\ \A k \in Keys : rows[k] # NoRow =>
           rows'[k] # NoRow /\ (~ rows[k].active => ~ rows'[k].active)
  BY ServerStep
<1> SUFFICES ASSUME NEW p \in Procs, NEW k \in Keys, SetOf(p, k)
             PROVE  /\ call[p].op = "PUT" => rows'[k] # NoRow
                    /\ \A d \in Writers : AnsweredAt(p, k, d)' =>
                         /\ resp'[d].status = 409 => rows'[k] # NoRow
                         /\ resp'[d].status = 404 => call[p].op = "PUT" /\ ~ IsActive(k)'
                    /\ call[p].state = "raised" /\ call[p].status = 404
                         => rows'[k] # NoRow /\ ~ IsActive(k)'
  BY <1>1 DEF RefusedInv, SetOf
<1>2. /\ call[p].op = "PUT" => rows[k] # NoRow
      /\ call[p].state = "raised" /\ call[p].status = 404 => rows[k] # NoRow /\ ~ IsActive(k)
  BY DEF RefusedInv
<1>3. rows[k] # NoRow => rows'[k] # NoRow /\ (~ IsActive(k) => ~ IsActive(k)')
  BY <1>1 DEF IsActive
<1>4. ASSUME NEW d \in Writers, AnsweredAt(p, k, d)'
      PROVE  /\ resp'[d].status = 409 => rows'[k] # NoRow
             /\ resp'[d].status = 404 => call[p].op = "PUT" /\ ~ IsActive(k)'
  <2>1. CASE d # c
    <3>1. AnsweredAt(p, k, d)
      BY <1>1, <1>4, <2>1 DEF AnsweredAt, SetOf, Open
    <3>2. /\ resp[d].status = 409 => rows[k] # NoRow
          /\ resp[d].status = 404 => call[p].op = "PUT" /\ ~ IsActive(k)
      BY <3>1 DEF RefusedInv
    <3> QED
      BY <1>1, <1>2, <1>3, <2>1, <3>2
  <2>2. CASE d = c /\ TakeUp(c)
    <3>1. /\ sent[c].op \in Ops /\ sent[c].key \in Keys /\ sent[c].value \in Values \cup {NoValue}
          /\ sent[c].op \in {"POST", "PUT"} => sent[c].value \in Values
          /\ req[c] = Idle /\ sent[c] # NoRequest
      BY <2>2 DEF TakeUp, CallInv, SdkTypeOK, SlotInv, HttpRequest
    <3>2. Serve(c, sent[c].op, sent[c].key, sent[c].value)
      BY <2>2 DEF TakeUp
    <3>3. call[p].slot = c /\ req'[c] = Idle
      BY <1>1, <1>4, <2>2 DEF AnsweredAt
    <3>4. sent[c].op = call[p].op /\ sent[c].key = k /\ call[p].op \in {"POST", "PUT"}
      BY <3>1, <3>3 DEF SetOf, CallInv, SlotInv
    <3>5. /\ UNCHANGED rows
          /\ resp'[c].status = 409 => rows[sent[c].key] # NoRow
          /\ resp'[c].status = 404 => sent[c].op # "POST" /\ ~ IsActive(sent[c].key)
      BY <3>1, <3>2, <3>3, ServeStep
    <3> QED
      BY <2>2, <3>4, <3>5 DEF IsActive
  <2>3. CASE d = c /\ GoOn(c)
    <3>1. req[c] \in Request /\ req[c] # Idle
      BY <2>3 DEF GoOn, Clients, VersionInv, TypeOK
    <3>2. CommitsTo(c, req[c].key) \/ Finishes(c)
      BY <2>3, GoOnStep DEF GoOn
    <3>3. req'[c] = Idle
      BY <1>4, <2>3 DEF AnsweredAt
    <3>4. ASSUME CommitsTo(c, req[c].key)
          PROVE  FALSE
      <4>1. [req[c] EXCEPT !.at = "saved"] \in Request
        BY <3>1 DEF Request
      <4> QED
        BY <3>3, <3>4, <4>1, ConstantsOK DEF CommitsTo
    <3> QED
      BY <2>3, <3>2, <3>4 DEF Finishes
  <2> QED
    BY <2>1, <2>2, <2>3
<1> QED
  BY <1>2, <1>3, <1>4

LEMMA NextRefusedInv ==
  VersionInv /\ CallInv /\ RefusedInv /\ [SdkNext]_sdkVars => RefusedInv'
<1> SUFFICES ASSUME VersionInv, CallInv, RefusedInv, [SdkNext]_sdkVars PROVE RefusedInv'
  OBVIOUS
<1>1. ASSUME NEW p \in Procs, NEW j \in Keys, NEW fn \in {"get", "set", "delete"},
             NEW op \in {"GET", "POST", "DELETE"}, NEW v \in Values \cup {NoValue},
             Begin(p, fn, op, j, v)
      PROVE  RefusedInv'
  <2>1. Begins(p, fn, op, j, v)
    BY <1>1, BeginFrame DEF Ops
  <2>2. /\ rows' = rows /\ req' = req /\ resp' = resp
        /\ \A q \in Procs : q # p => call'[q] = call[q]
        /\ call'[p].state = "open" /\ call'[p].op # "PUT"
    BY <2>1 DEF Begins
  <2>3. \A q \in Procs, k \in Keys, d \in Writers :
          AnsweredAt(q, k, d)' => q # p /\ AnsweredAt(q, k, d)
    BY <2>1 DEF Begins
  <2> QED
    BY <2>2, <2>3 DEF RefusedInv, SetOf, IsActive
<1>2. ASSUME NEW p \in Procs, NEW j \in Keys, Get(p, j) \/ Delete(p, j)
      PROVE  RefusedInv'
  BY <1>1, <1>2 DEF Get, Delete
<1>3. ASSUME NEW p \in Procs, NEW j \in Keys, NEW v \in Values, Set(p, j, v)
      PROVE  RefusedInv'
  BY <1>1, <1>3 DEF Set
<1>4. ASSUME NEW p \in Procs, NEW state \in {"returned", "raised"}, NEW status,
             Open(p), End(p, state, status),
             state = "raised" /\ status = 404 => \E c \in Writers :
               Answered(p) /\ call[p].slot = c /\ resp[c].status = 404
      PROVE  RefusedInv'
  <2>0. call \in [Procs -> Call \cup {NoCall}] /\ call[p] \in Call /\ call[p] # NoCall
    BY <1>4 DEF Open, CallInv, SdkTypeOK
  <2> DEFINE new == [call[p] EXCEPT !.state = state, !.status = status, !.slot = NoSlot]
  <2>1. call' = [call EXCEPT ![p] = new]
    BY <1>4, <2>0 DEF End
  <2>2. /\ new.state = state /\ new.status = status /\ new.slot = NoSlot
        /\ new.fn = call[p].fn /\ new.key = call[p].key /\ new.op = call[p].op
    BY <2>0 DEF Call
  <2> HIDE DEF new
  <2>3. call'[p] = new /\ \A q \in Procs : q # p => call'[q] = call[q]
    BY <2>0, <2>1
  <2>4. rows' = rows /\ req' = req /\ resp' = resp /\ sent' = sent
    BY <1>4 DEF End, vars
  <2>5. ASSUME NEW q \in Procs, NEW k \in Keys, NEW c \in Writers, AnsweredAt(q, k, c)'
        PROVE  q # p /\ AnsweredAt(q, k, c)
    <3>1. q # p
      BY <1>4, <2>2, <2>3, <2>5 DEF AnsweredAt, Open
    <3> QED
      BY <2>3, <2>4, <2>5, <3>1 DEF AnsweredAt, SetOf, Open
  <2>6. ASSUME NEW k \in Keys, SetOf(p, k)'
        PROVE  /\ SetOf(p, k)
               /\ state = "raised" /\ status = 404 => rows[k] # NoRow /\ ~ IsActive(k)
    <3>1. SetOf(p, k)
      BY <2>0, <2>2, <2>3, <2>6 DEF SetOf
    <3>2. ASSUME state = "raised", status = 404
          PROVE  rows[k] # NoRow /\ ~ IsActive(k)
      <4>1. PICK c \in Writers : Answered(p) /\ call[p].slot = c /\ resp[c].status = 404
        BY <1>4, <3>2
      <4>2. AnsweredAt(p, k, c)
        BY <3>1, <4>1 DEF AnsweredAt, Answered
      <4> QED
        BY <3>1, <4>1, <4>2 DEF RefusedInv
    <3> QED
      BY <3>1, <3>2
  <2>7. ASSUME NEW q \in Procs, NEW k \in Keys, SetOf(q, k)', q # p
        PROVE  SetOf(q, k)
    BY <2>3, <2>7 DEF SetOf
  <2> QED
    BY <2>2, <2>3, <2>4, <2>5, <2>6, <2>7 DEF RefusedInv, IsActive
<1>5. ASSUME NEW p \in Procs, Return(p) \/ Raise(p)
      PROVE  RefusedInv'
  <2>1. Open(p) /\ Answered(p) /\ call[p].slot \in Writers
    BY <1>5 DEF Return, Raise, Answered, Open, CallInv, SdkTypeOK, Call
  <2> QED
    BY <1>4, <1>5, <2>1 DEF Return, Raise
<1>6. ASSUME NEW p \in Procs, TimeOut(p)
      PROVE  RefusedInv'
  BY <1>4, <1>6 DEF TimeOut
<1>7. ASSUME NEW p \in Procs, FallBack(p)
      PROVE  RefusedInv'
  <2> DEFINE c == call[p].slot
             new == [call[p] EXCEPT !.op = "PUT"]
             asked == [op |-> "PUT", key |-> call[p].key, value |-> call[p].value]
  <2>1. /\ call[p] \in Call /\ call[p] # NoCall /\ c \in Writers /\ call[p].fn = "set"
        /\ call[p].state = "open" /\ call[p].key \in Keys /\ call[p].value \in Values
        /\ Open(p) /\ req[c] = Idle /\ sent[c] = NoRequest /\ resp[c].status = 409
    BY <1>7, SdkConstantsOK DEF FallBack, Answered, Open, GoesOn, CallInv, SdkTypeOK, SlotInv, Call
  <2>2. call' = [call EXCEPT ![p] = new] /\ sent' = [sent EXCEPT ![c] = asked]
    BY <1>7 DEF FallBack, Send
  <2>3. asked # NoRequest
    BY <2>1, SdkConstantsOK DEF HttpRequest, Ops
  <2>4. new.slot = c /\ new.state = "open" /\ new.key = call[p].key /\ new.fn = "set"
    BY <2>1 DEF Call
  <2>5. /\ call'[p] = new /\ \A q \in Procs : q # p => call'[q] = call[q]
        /\ sent'[c] = asked /\ \A d \in Writers : d # c => sent'[d] = sent[d]
    BY <2>1, <2>2 DEF CallInv, SdkTypeOK
  <2>6. rows' = rows /\ req' = req /\ resp' = resp
    BY <1>7 DEF FallBack, vars
  <2>7. rows[call[p].key] # NoRow
    BY <2>1 DEF RefusedInv, AnsweredAt, SetOf
  <2> HIDE DEF c, new, asked
  <2>8. ASSUME NEW q \in Procs, NEW k \in Keys, NEW d \in Writers, AnsweredAt(q, k, d)'
        PROVE  q # p /\ AnsweredAt(q, k, d)
    <3>1. q # p
      BY <2>3, <2>4, <2>5, <2>8 DEF AnsweredAt
    <3>2. d # c
      BY <2>3, <2>5, <2>8 DEF AnsweredAt
    <3> QED
      BY <2>5, <2>6, <2>8, <3>1, <3>2 DEF AnsweredAt, SetOf, Open
  <2>9. ASSUME NEW q \in Procs, NEW k \in Keys, SetOf(q, k)'
        PROVE  SetOf(q, k) /\ (q = p => rows[k] # NoRow)
    BY <2>1, <2>4, <2>5, <2>7, <2>9 DEF SetOf
  <2> QED
    BY <2>4, <2>5, <2>6, <2>8, <2>9 DEF RefusedInv, IsActive
<1>8. ASSUME NEW c \in Writers, TakeUp(c) \/ GoOn(c)
      PROVE  RefusedInv'
  BY <1>8, ServerRefused
<1>9. ASSUME Restart
      PROVE  RefusedInv'
  <2>1. /\ rows' = rows
        /\ \A c \in Writers : req[c] = Idle => resp'[c] = resp[c]
    BY <1>9 DEF Restart, Crash, Clients
  <2>2. ASSUME NEW p \in Procs
        PROVE  \/ call'[p] = call[p] /\ ~ (Open(p) /\ ~ Answered(p))
               \/ /\ call[p] # NoCall /\ call'[p].slot = NoSlot /\ call'[p].state = "open"
                  /\ call'[p].fn = call[p].fn /\ call'[p].key = call[p].key
                  /\ call'[p].op = call[p].op
    <3>1. CASE Open(p) /\ ~ Answered(p)
      <4>1. call'[p] = [call[p] EXCEPT !.slot = NoSlot] /\ call[p] \in Call
        BY <1>9, <3>1 DEF Restart, Open, CallInv, SdkTypeOK
      <4> QED
        BY <3>1, <4>1 DEF Open, Call
    <3>2. CASE ~ (Open(p) /\ ~ Answered(p))
      BY <1>9, <3>2 DEF Restart
    <3> QED
      BY <3>1, <3>2
  <2>3. ASSUME NEW p \in Procs, NEW k \in Keys, NEW c \in Writers, AnsweredAt(p, k, c)'
        PROVE  AnsweredAt(p, k, c) /\ resp'[c] = resp[c]
    <3>1. call'[p] = call[p] /\ ~ (Open(p) /\ ~ Answered(p))
      BY <2>2, <2>3, SdkConstantsOK DEF AnsweredAt
    <3>2. Open(p) /\ Answered(p) /\ call[p].slot = c
      BY <2>3, <3>1 DEF AnsweredAt, Open
    <3> QED
      BY <2>1, <2>3, <3>1, <3>2 DEF AnsweredAt, Answered, SetOf
  <2>4. \A p \in Procs, k \in Keys : SetOf(p, k)' => SetOf(p, k)
    BY <2>2 DEF SetOf
  <2> QED
    BY <2>1, <2>2, <2>3, <2>4 DEF RefusedInv, IsActive
<1>10. CASE UNCHANGED sdkVars
  BY <1>10 DEF sdkVars, vars, calls, RefusedInv, AnsweredAt, SetOf, Open, IsActive
<1> QED
  BY <1>2, <1>3, <1>5, <1>6, <1>7, <1>8, <1>9, <1>10 DEF SdkNext

LEMMA InitRefusedInv == SdkInit => RefusedInv
BY DEF SdkInit, RefusedInv, SetOf

-----------------------------------------------------------------------------
(* The invariants of this module and of the server's table together. *)
SdkInv == VersionInv /\ CallInv /\ PromiseInv /\ RefusedInv

LEMMA SdkInvariant == SdkSpec => []SdkInv
<1>1. SdkInit => SdkInv
  BY InitVersionInv, InitCallInv, InitPromiseInv, InitRefusedInv DEF SdkInit, SdkInv
<1>2. SdkInv /\ [SdkNext]_sdkVars => SdkInv'
  BY NextVersionInv, StoreStep, NextCallInv, NextPromiseInv, NextRefusedInv DEF SdkInv
<1> QED
  BY <1>1, <1>2, PTL DEF SdkSpec

(* A set_config that returned has seen its key show the value, or be       *)
(* deleted, since it was called, whatever timeouts, database errors and    *)
(* restarts there were in between.                                         *)
THEOREM ReturnedSetsWereShown == SdkSpec => []ReturnedSetWasShown
<1>1. SdkInv => ReturnedSetWasShown
  BY DEF SdkInv, PromiseInv, ShownInv, ReturnedSetWasShown, Done, SetOf, HasSet
<1> QED
  BY <1>1, SdkInvariant, PTL

(* What a set_config that returned wrote stays, unless it is deleted or    *)
(* gives way to a set that overlapped it or came later.                    *)
THEOREM AcknowledgedSetsHold == SdkSpec => []AcknowledgedSetHolds
<1>1. SdkInv => AcknowledgedSetHolds
  BY DEF SdkInv, PromiseInv, HoldInv, AcknowledgedSetHolds, Done, SetOf, HasSet, Expected
<1> QED
  BY <1>1, SdkInvariant, PTL

(* A set_config that failed with 404 failed because its key is deleted.    *)
THEOREM NotFoundIsDeleted == SdkSpec => []NotFoundMeansDeleted
<1>1. SdkInv => NotFoundMeansDeleted
  BY DEF SdkInv, RefusedInv, NotFoundMeansDeleted, Refused, SetOf
<1> QED
  BY <1>1, SdkInvariant, PTL

(* The server under its SDK clients is the server of ConfigStore: what is  *)
(* proved of Spec holds of SdkSpec too.                                    *)
THEOREM ClientsUseTheStore == SdkSpec => Spec
<1>1. SdkInit => Init
  BY DEF SdkInit
<1>2. SdkInv /\ [SdkNext]_sdkVars => [Next]_vars
  BY StoreStep DEF SdkInv
<1> QED
  BY <1>1, <1>2, SdkInvariant, PTL DEF SdkSpec, Spec

(* So the keys that SDK clients get, set and delete live as KeyLifecycle   *)
(* has it, with requests that outlive their calls and calls made again.    *)
THEOREM ClientsKeepTheLifecycle == SdkSpec => ImplementsLifecycle
BY ClientsUseTheStore, RefinesLifecycle, PTL
=============================================================================
