-------------------------- MODULE ConfigStoreProofs --------------------------
(***************************************************************************)
(* Theorems about ConfigStore, for any keys, values, clients and faults.   *)
(***************************************************************************)
EXTENDS ConfigStore, TLAPS

(* What a write handler knows of its key once its SELECT has answered: the *)
(* row a PUT or a DELETE loaded is still there, whatever others did to it, *)
(* and its version is one the key has had.                                 *)
HandlerInv ==
  \A c \in Clients : req[c] # Idle =>
    LET k == req[c].key IN
      /\ req[c].op # "POST" \/ req[c].at = "saved" => rows[k] # NoRow
      /\ req[c].op = "PUT" =>
           /\ req[c].snap # NoRow
           /\ req[c].snap.version \in 1 .. updates[k] + 1

VersionInv == TypeOK /\ VersionTracksUpdates /\ HandlerInv

(* A deleted key keeps an inactive row, so nothing can load it or insert   *)
(* it again; a request that is still under way read the table earlier.     *)
DeletionInv ==
  /\ \A k \in gone : rows[k] # NoRow /\ ~ rows[k].active
  /\ \A c \in Clients :
       /\ aware[c] \subseteq gone
       /\ req[c] # Idle => req[c].key \notin aware[c]
       /\ InHandler(c, "DELETE", "saved") => ~ rows[req[c].key].active
  /\ DeletedKeyStaysGone

-----------------------------------------------------------------------------
(* What an UPDATE leaves of the row is a row, as active as it was. *)
LEMMA UpdatedRowType ==
  ASSUME NEW current \in Row, NEW snap \in Row, NEW value \in Values
  PROVE  /\ UpdatedRow(current, snap, value) \in Row
         /\ UpdatedRow(current, snap, value).active = current.active
         /\ UpdatedRow(current, snap, value).version = snap.version + 1
<1> DEFINE kept == IF EqClass[value] = EqClass[snap.value] THEN current.value ELSE value
<1>1. /\ kept \in Values
      /\ snap.version + 1 \in Nat
      /\ UpdatedRow(current, snap, value) =
           [current EXCEPT !.value = kept, !.version = snap.version + 1]
  BY DEF UpdatedRow, Row
<1> HIDE DEF kept
<1> QED
  BY <1>1 DEF Row

LEMMA DeletedRowType ==
  ASSUME NEW current \in Row
  PROVE  /\ DeletedRow(current) \in Row
         /\ ~ DeletedRow(current).active
         /\ DeletedRow(current).version = current.version
BY DEF DeletedRow, Row

LEMMA InitVersionInv == Init => VersionInv
BY ConstantsOK DEF Init, VersionInv, TypeOK, VersionTracksUpdates, HandlerInv,
   NoResponse, Response

(* A step preserves the types, the version bounds and what handlers know. *)
LEMMA NextVersionInv == VersionInv /\ [Next]_vars => VersionInv'
<1> SUFFICES ASSUME VersionInv, [Next]_vars PROVE VersionInv'
  OBVIOUS
<1> USE ConstantsOK
<1>1. ASSUME NEW c \in Clients, NEW status \in {0, 200, 201, 404, 409, 500},
             NEW keys \in SUBSET Keys, NEW row \in Row \cup {NoRow},
             Answer(c, status, keys, row)
      PROVE  VersionInv'
  BY <1>1 DEF VersionInv, TypeOK, VersionTracksUpdates, HandlerInv, Answer,
     Respond, Observe, Response
<1>2. ASSUME NEW c \in Writers, NEW op \in {"POST", "PUT", "DELETE"},
             NEW k \in Keys, NEW v \in Values, op = "POST" \/ rows[k] # NoRow,
             Load(c, op, k, v)
      PROVE  VersionInv'
  <2>1. c \in Clients
    BY DEF Clients
  <2>2. TypeOK'
    BY <1>2, <2>1 DEF VersionInv, TypeOK, Load, Observe, Request, Response, NoResponse
  <2>3. VersionTracksUpdates'
    BY <1>2 DEF VersionInv, VersionTracksUpdates, Load
  <2>4. HandlerInv'
    BY <1>2, <2>1, <2>2 DEF VersionInv, TypeOK, VersionTracksUpdates, HandlerInv, Load
  <2> QED
    BY <2>2, <2>3, <2>4 DEF VersionInv
<1>3. ASSUME NEW c \in Writers, CreateCommit(c)
      PROVE  VersionInv'
  <2> DEFINE k == req[c].key
  <2>1. /\ c \in Clients
        /\ req[c] \in Request
        /\ k \in Keys
    BY <1>3 DEF Clients, VersionInv, TypeOK, CreateCommit, InHandler, Request
  <2>2. TypeOK'
    BY <1>3, <2>1 DEF VersionInv, TypeOK, CreateCommit, InHandler, Commit, Request, Row
  <2>3. updates[k] = 0
    BY <1>3, <2>1 DEF VersionInv, TypeOK, VersionTracksUpdates, CreateCommit
  <2>4. VersionTracksUpdates'
    BY <1>3, <2>1, <2>3 DEF VersionInv, TypeOK, VersionTracksUpdates, CreateCommit, Commit, Row
  <2> DEFINE new == [value |-> req[c].value, version |-> 1, active |-> TRUE]
  <2>5. /\ rows' = [rows EXCEPT ![k] = new]
        /\ req' = [req EXCEPT ![c].at = "saved"]
        /\ req[c].op = "POST"
        /\ UNCHANGED updates
    BY <1>3 DEF CreateCommit, InHandler, Commit
  <2>6. new \in Row
    BY <2>1 DEF Request, Row
  <2> HIDE DEF new
  <2>7. HandlerInv'
    BY <2>1, <2>5, <2>6 DEF VersionInv, TypeOK, HandlerInv, Request
  <2> QED
    BY <2>2, <2>4, <2>7 DEF VersionInv
<1>4. ASSUME NEW c \in Writers, UpdateCommit(c)
      PROVE  VersionInv'
  <2> DEFINE k == req[c].key
             new == UpdatedRow(rows[k], req[c].snap, req[c].value)
  <2>1. /\ c \in Clients
        /\ req[c] \in Request
        /\ k \in Keys
        /\ rows[k] \in Row
        /\ req[c].snap \in Row
        /\ req[c].snap.version \in 1 .. updates[k] + 1
    BY <1>4 DEF Clients, VersionInv, TypeOK, HandlerInv, UpdateCommit, InHandler, Request
  <2>2. new \in Row /\ new.version \in 2 .. updates[k] + 2
    <3>1. req[c].value \in Values
      BY <2>1 DEF Request
    <3>2. new \in Row /\ new.version = req[c].snap.version + 1
      BY <2>1, <3>1, UpdatedRowType
    <3>3. updates[k] \in Nat
      BY <2>1 DEF VersionInv, TypeOK
    <3> QED
      BY <2>1, <3>2, <3>3
  <2> HIDE DEF new
  <2>3. /\ rows' = [rows EXCEPT ![k] = new]
        /\ updates' = [updates EXCEPT ![k] = @ + 1]
        /\ req' = [req EXCEPT ![c].at = "saved"]
        /\ UNCHANGED <<resp, overlapped, gone, aware>>
    BY <1>4 DEF UpdateCommit, Commit, new
  <2>4. TypeOK'
    BY <2>1, <2>2, <2>3 DEF VersionInv, TypeOK, Request
  <2>5. VersionTracksUpdates'
    BY <2>1, <2>2, <2>3 DEF VersionInv, TypeOK, VersionTracksUpdates
  <2>6. HandlerInv'
    BY <2>1, <2>2, <2>3 DEF VersionInv, TypeOK, HandlerInv, Request
  <2> QED
    BY <2>4, <2>5, <2>6 DEF VersionInv
<1>5. ASSUME NEW c \in Writers, DeleteCommit(c)
      PROVE  VersionInv'
  <2> DEFINE k == req[c].key
             new == DeletedRow(rows[k])
  <2>1. /\ c \in Clients
        /\ req[c] \in Request
        /\ k \in Keys
        /\ rows[k] \in Row
    BY <1>5 DEF Clients, VersionInv, TypeOK, HandlerInv, DeleteCommit, InHandler, Request
  <2>2. new \in Row /\ new.version = rows[k].version
    BY <2>1, DeletedRowType
  <2> HIDE DEF new
  <2>3. /\ rows' = [rows EXCEPT ![k] = new]
        /\ req' = [req EXCEPT ![c].at = "saved"]
        /\ UNCHANGED <<updates, resp, overlapped, gone, aware>>
    BY <1>5 DEF DeleteCommit, Commit, new
  <2>4. TypeOK'
    BY <2>1, <2>2, <2>3 DEF VersionInv, TypeOK, Request
  <2>5. VersionTracksUpdates'
    BY <2>1, <2>2, <2>3 DEF VersionInv, TypeOK, VersionTracksUpdates
  <2>6. HandlerInv'
    BY <2>1, <2>2, <2>3 DEF VersionInv, TypeOK, HandlerInv, Request
  <2> QED
    BY <2>4, <2>5, <2>6 DEF VersionInv
<1>6. ASSUME NEW c \in Clients, CreateIntegrityError(c) \/ Refresh(c) \/ DbError(c)
      PROVE  VersionInv'
  <2>1. req[c] # Idle => req[c].key \in Keys
    BY DEF VersionInv, TypeOK, Request
  <2>2. PICK status \in {0, 200, 201, 404, 409, 500}, keys \in SUBSET Keys,
             row \in Row \cup {NoRow} : Respond(c, status, keys, row)
    BY <1>6, <2>1 DEF VersionInv, TypeOK, CreateIntegrityError, Refresh, DbError
  <2>3. UNCHANGED <<rows, updates, overlapped, aware>> /\ gone' \in SUBSET Keys
    BY <1>6, <2>1 DEF VersionInv, TypeOK, CreateIntegrityError, Refresh, DbError
  <2>4. TypeOK'
    BY <2>2, <2>3 DEF VersionInv, TypeOK, Response, Respond
  <2> QED
    BY <2>2, <2>3, <2>4 DEF VersionInv, TypeOK, VersionTracksUpdates, HandlerInv, Respond
<1>7. ASSUME Crash
      PROVE  VersionInv'
  BY <1>7 DEF VersionInv, TypeOK, VersionTracksUpdates, HandlerInv, Crash, NoResponse, Response
<1>8. ASSUME NEW c \in Clients, ReadRequest(c)
      PROVE  VersionInv'
  <2>1. ASSUME NEW k \in Keys, ReadConfig(c, k)
        PROVE  VersionInv'
    <3>1. {k} \in SUBSET Keys /\ rows[k] \in Row \cup {NoRow}
      BY DEF VersionInv, TypeOK
    <3>2. Answer(c, 200, {k}, rows[k])
      BY <2>1 DEF ReadConfig
    <3> QED
      BY <1>1, <3>1, <3>2
  <2>2. ASSUME NEW k \in Keys, NotFound(c, k)
        PROVE  VersionInv'
    BY <1>1, <2>2 DEF NotFound
  <2>3. ASSUME ListConfigs(c)
        PROVE  VersionInv'
    BY <1>1, <2>3 DEF ListConfigs
  <2> QED
    BY <1>8, <2>1, <2>2, <2>3 DEF ReadRequest
<1>9. ASSUME NEW c \in Writers, WriteRequest(c)
      PROVE  VersionInv'
  <2>1. ASSUME NEW k \in Keys, CreateConflict(c, k)
        PROVE  VersionInv'
    BY <1>1, <2>1 DEF CreateConflict, Clients
  <2>2. ASSUME NEW k \in Keys, DeleteLoad(c, k)
        PROVE  VersionInv'
    BY <1>2, <2>2 DEF DeleteLoad, IsActive, VersionInv, TypeOK, Row
  <2>3. ASSUME NEW k \in Keys, NEW v \in Values, CreateLoad(c, k, v) \/ UpdateLoad(c, k, v)
        PROVE  VersionInv'
    BY <1>2, <2>3 DEF CreateLoad, UpdateLoad, IsActive
  <2> QED
    BY <1>9, <2>1, <2>2, <2>3 DEF WriteRequest
<1>10. ASSUME UNCHANGED vars
       PROVE  VersionInv'
  BY <1>10 DEF vars, VersionInv, TypeOK, VersionTracksUpdates, HandlerInv
<1> QED
  BY <1>3, <1>4, <1>5, <1>6, <1>7, <1>8, <1>9, <1>10 DEF Next, Handler, Clients

(* The variables keep their types. *)
THEOREM TypeCorrect == Spec => []TypeOK
<1>1. VersionInv => TypeOK
  BY DEF VersionInv
<1> QED
  BY <1>1, InitVersionInv, NextVersionInv, PTL DEF Spec

(* However requests interleave and fail, no version of a key runs ahead of *)
(* the updates applied to it, and no updated key shows version 1 again.    *)
THEOREM VersionsTrackUpdates == Spec => []VersionTracksUpdates
<1>1. VersionInv => VersionTracksUpdates
  BY DEF VersionInv
<1> QED
  BY <1>1, InitVersionInv, NextVersionInv, PTL DEF Spec

-----------------------------------------------------------------------------
LEMMA InitDeletionInv == Init => DeletionInv
BY DEF Init, DeletionInv, DeletedKeyStaysGone, NoResponse, InHandler

(* A step preserves DeletionInv. *)
LEMMA NextDeletionInv == VersionInv /\ DeletionInv /\ [Next]_vars => DeletionInv'
<1> SUFFICES ASSUME VersionInv, DeletionInv, [Next]_vars PROVE DeletionInv'
  OBVIOUS
<1> USE ConstantsOK
<1>1. ASSUME NEW c \in Clients, NEW status, NEW keys, NEW row, keys \cap gone = {},
             Answer(c, status, keys, row)
      PROVE  DeletionInv'
  BY <1>1 DEF VersionInv, TypeOK, DeletionInv, DeletedKeyStaysGone, Answer, Respond,
     Observe, InHandler
<1>2. ASSUME NEW c \in Writers, NEW op, NEW k \in Keys, NEW v, k \notin gone,
             Load(c, op, k, v)
      PROVE  DeletionInv'
  BY <1>2 DEF Clients, VersionInv, TypeOK, DeletionInv, DeletedKeyStaysGone, Load,
     Observe, InHandler, NoResponse
<1>3. ASSUME NEW c \in Writers, CreateCommit(c)
      PROVE  DeletionInv'
  <2>1. c \in Clients /\ req[c] \in Request /\ req[c].key \notin gone
    BY <1>3 DEF Clients, VersionInv, TypeOK, DeletionInv, CreateCommit, InHandler
  <2>2. \A d \in Clients : InHandler(d, "DELETE", "saved") => rows[req[d].key] # NoRow
    BY DEF VersionInv, HandlerInv, InHandler
  <2> QED
    BY <1>3, <2>1, <2>2 DEF VersionInv, TypeOK, DeletionInv, DeletedKeyStaysGone,
       CreateCommit, Commit, InHandler, Request
<1>4. ASSUME NEW c \in Writers, UpdateCommit(c)
      PROVE  DeletionInv'
  <2> DEFINE k == req[c].key
             new == UpdatedRow(rows[k], req[c].snap, req[c].value)
  <2>1. c \in Clients /\ req[c] \in Request /\ k \in Keys /\ rows[k] \in Row
    BY <1>4 DEF Clients, VersionInv, TypeOK, HandlerInv, UpdateCommit, InHandler, Request
  <2>2. req[c].snap \in Row /\ req[c].value \in Values
    BY <1>4, <2>1 DEF VersionInv, HandlerInv, UpdateCommit, InHandler, Request, Clients
  <2>3. new \in Row /\ new.active = rows[k].active
    BY <2>1, <2>2, UpdatedRowType
  <2> HIDE DEF new
  <2>4. /\ rows' = [rows EXCEPT ![k] = new]
        /\ req' = [req EXCEPT ![c].at = "saved"]
        /\ req[c].op = "PUT"
        /\ UNCHANGED <<resp, overlapped, gone, aware>>
    BY <1>4 DEF UpdateCommit, Commit, InHandler, new
  <2> QED
    BY <2>1, <2>3, <2>4 DEF VersionInv, TypeOK, DeletionInv, DeletedKeyStaysGone,
       InHandler, Request
<1>5. ASSUME NEW c \in Writers, DeleteCommit(c)
      PROVE  DeletionInv'
  <2> DEFINE k == req[c].key
             new == DeletedRow(rows[k])
  <2>1. c \in Clients /\ req[c] \in Request /\ k \in Keys /\ rows[k] \in Row
    BY <1>5 DEF Clients, VersionInv, TypeOK, HandlerInv, DeleteCommit, InHandler, Request
  <2>2. new \in Row /\ ~ new.active
    BY <2>1, DeletedRowType
  <2> HIDE DEF new
  <2>3. /\ rows' = [rows EXCEPT ![k] = new]
        /\ req' = [req EXCEPT ![c].at = "saved"]
        /\ UNCHANGED <<resp, overlapped, gone, aware>>
    BY <1>5 DEF DeleteCommit, Commit, new
  <2> QED
    BY <2>1, <2>2, <2>3 DEF VersionInv, TypeOK, DeletionInv, DeletedKeyStaysGone,
       InHandler, Request
<1>6. ASSUME NEW c \in Clients, CreateIntegrityError(c) \/ DbError(c)
      PROVE  DeletionInv'
  BY <1>6 DEF VersionInv, TypeOK, DeletionInv, DeletedKeyStaysGone,
     CreateIntegrityError, DbError, Respond, InHandler
<1>7. ASSUME NEW c \in Clients, Refresh(c)
      PROVE  DeletionInv'
  <2> DEFINE k == req[c].key
  <2>1. req[c] \in Request /\ k \notin aware[c] /\ rows[k] # NoRow
    BY <1>7 DEF VersionInv, TypeOK, HandlerInv, DeletionInv, Refresh
  <2>2. gone' \in {gone, gone \cup {k}} /\ (k \in gone' => ~ rows[k].active)
    BY <1>7, <2>1 DEF DeletionInv, Refresh, InHandler, Request
  <2>3. PICK status : Respond(c, status, {k}, rows[k])
    BY <1>7 DEF Refresh
  <2> QED
    BY <1>7, <2>1, <2>2, <2>3 DEF VersionInv, TypeOK, DeletionInv, DeletedKeyStaysGone,
       Refresh, Respond, InHandler
<1>8. ASSUME Crash
      PROVE  DeletionInv'
  BY <1>8 DEF VersionInv, TypeOK, DeletionInv, DeletedKeyStaysGone, Crash, NoResponse,
     InHandler
<1>9. ASSUME NEW c \in Clients, ReadRequest(c)
      PROVE  DeletionInv'
  <2>1. \A k \in gone : ~ IsActive(k)
    BY DEF DeletionInv, IsActive
  <2>2. ASSUME NEW k \in Keys, ReadConfig(c, k)
        PROVE  DeletionInv'
    BY <1>1, <2>1, <2>2 DEF ReadConfig
  <2>3. ASSUME NEW k \in Keys, NotFound(c, k)
        PROVE  DeletionInv'
    BY <1>1, <2>3 DEF NotFound
  <2>4. ASSUME ListConfigs(c)
        PROVE  DeletionInv'
    BY <1>1, <2>1, <2>4 DEF ListConfigs
  <2> QED
    BY <1>9, <2>2, <2>3, <2>4 DEF ReadRequest
<1>10. ASSUME NEW c \in Writers, WriteRequest(c)
       PROVE  DeletionInv'
  <2>1. \A k \in gone : rows[k] # NoRow /\ ~ IsActive(k)
    BY DEF DeletionInv, IsActive
  <2>2. ASSUME NEW k \in Keys, CreateConflict(c, k)
        PROVE  DeletionInv'
    BY <1>1, <2>2 DEF CreateConflict, Clients
  <2>3. ASSUME NEW k \in Keys, DeleteLoad(c, k)
        PROVE  DeletionInv'
    BY <1>2, <2>1, <2>3 DEF DeleteLoad
  <2>4. ASSUME NEW k \in Keys, NEW v \in Values, CreateLoad(c, k, v) \/ UpdateLoad(c, k, v)
        PROVE  DeletionInv'
    BY <1>2, <2>1, <2>4 DEF CreateLoad, UpdateLoad
  <2> QED
    BY <1>10, <2>2, <2>3, <2>4 DEF WriteRequest
<1>11. ASSUME UNCHANGED vars
       PROVE  DeletionInv'
  BY <1>11 DEF vars, DeletionInv, DeletedKeyStaysGone, InHandler
<1> QED
  BY <1>3, <1>4, <1>5, <1>6, <1>7, <1>8, <1>9, <1>10, <1>11 DEF Next, Handler, Clients

(* A key whose DELETE was answered 200 is out of reach of every request    *)
(* that reads the table afterwards.                                        *)
THEOREM DeletedKeysStayGone == Spec => []DeletedKeyStaysGone
<1>1. DeletionInv => DeletedKeyStaysGone
  BY DEF DeletionInv
<1> QED
  BY <1>1, InitVersionInv, NextVersionInv, InitDeletionInv, NextDeletionInv, PTL DEF Spec

-----------------------------------------------------------------------------
(* Writing one row moves one key. *)
LEMMA OneRowMoves ==
  ASSUME NEW k \in Keys, NEW new, rows'[k] = new,
         \A j \in Keys : j # k => rows'[j] = rows[j]
  PROVE  /\ [j \in Keys |-> PhaseOf(rows'[j])] =
              [[j \in Keys |-> PhaseOf(rows[j])] EXCEPT ![k] = PhaseOf(new)]
         /\ [j \in Keys |-> VersionOf(rows'[j])] =
              [[j \in Keys |-> VersionOf(rows[j])] EXCEPT ![k] = VersionOf(new)]
<1>1. [j \in Keys |-> PhaseOf(rows'[j])] =
        [[j \in Keys |-> PhaseOf(rows[j])] EXCEPT ![k] = PhaseOf(new)]
  OBVIOUS
<1>2. [j \in Keys |-> VersionOf(rows'[j])] =
        [[j \in Keys |-> VersionOf(rows[j])] EXCEPT ![k] = VersionOf(new)]
  OBVIOUS
<1> QED
  BY <1>1, <1>2

(* Every step of the router is a step in the life of at most one key. *)
LEMMA StepOfLife == VersionInv /\ [Next]_vars => [Lifecycle!Next]_(Lifecycle!vars)
<1> SUFFICES ASSUME VersionInv, [Next]_vars PROVE [Lifecycle!Next]_(Lifecycle!vars)
  OBVIOUS
<1> USE ConstantsOK
<1> DEFINE phase == [k \in Keys |-> PhaseOf(rows[k])]
           version == [k \in Keys |-> VersionOf(rows[k])]
<1>1. ASSUME UNCHANGED <<rows, updates>>
      PROVE  UNCHANGED Lifecycle!vars
  BY <1>1 DEF Lifecycle!vars
<1>2. ASSUME NEW k \in Keys, NEW new \in Row, rows' = [rows EXCEPT ![k] = new]
      PROVE  /\ phase' = [phase EXCEPT ![k] = PhaseOf(new)]
             /\ version' = [version EXCEPT ![k] = new.version]
             /\ phase[k] = PhaseOf(rows[k])
  <2>1. rows'[k] = new /\ \A j \in Keys : j # k => rows'[j] = rows[j]
    BY <1>2 DEF VersionInv, TypeOK
  <2>2. VersionOf(new) = new.version
    BY DEF VersionOf
  <2> QED
    BY <2>1, <2>2, OneRowMoves
<1>3. ASSUME NEW c \in Writers, CreateCommit(c)
      PROVE  Lifecycle!Next
  <2>1. PICK k \in Keys : k = req[c].key
    BY <1>3 DEF Clients, VersionInv, TypeOK, CreateCommit, InHandler, Request
  <2>2. PICK new \in Row : /\ rows' = [rows EXCEPT ![k] = new]
                           /\ new.version = 1 /\ new.active
    <3>1. req[c].value \in Values
      BY <1>3 DEF Clients, VersionInv, TypeOK, CreateCommit, InHandler, Request
    <3> DEFINE row == [value |-> req[c].value, version |-> 1, active |-> TRUE]
    <3>2. row \in Row /\ row.version = 1 /\ row.active
      BY <3>1 DEF Row
    <3>3. rows' = [rows EXCEPT ![k] = row]
      BY <1>3, <2>1 DEF CreateCommit, Commit
    <3> HIDE DEF row
    <3> QED
      BY <3>2, <3>3
  <2>3. rows[k] = NoRow /\ UNCHANGED updates
    BY <1>3, <2>1 DEF CreateCommit
  <2>4. PhaseOf(rows[k]) = "absent" /\ PhaseOf(new) = "live"
    BY <2>2, <2>3 DEF PhaseOf
  <2>5. /\ phase[k] = "absent"
        /\ phase' = [phase EXCEPT ![k] = "live"]
        /\ version' = [version EXCEPT ![k] = 1]
    <3>1. /\ phase' = [phase EXCEPT ![k] = PhaseOf(new)]
          /\ version' = [version EXCEPT ![k] = new.version]
          /\ phase[k] = PhaseOf(rows[k])
      BY <1>2, <2>2
    <3> HIDE DEF phase, version
    <3> QED
      BY <2>2, <2>4, <3>1
  <2>6. Lifecycle!Create(k)
    BY <2>3, <2>5 DEF Lifecycle!Create
  <2> QED
    BY <2>6 DEF Lifecycle!Next
<1>4. ASSUME NEW c \in Writers, UpdateCommit(c)
      PROVE  Lifecycle!Next
  <2>1. PICK k \in Keys : k = req[c].key
    BY <1>4 DEF Clients, VersionInv, TypeOK, UpdateCommit, InHandler, Request
  <2>2. /\ rows[k] \in Row
        /\ req[c].snap \in Row /\ req[c].value \in Values
        /\ req[c].snap.version \in 1 .. updates[k] + 1
        /\ updates[k] \in Nat
    BY <1>4, <2>1 DEF Clients, VersionInv, TypeOK, HandlerInv, UpdateCommit, InHandler, Request
  <2>3. PICK new \in Row : /\ rows' = [rows EXCEPT ![k] = new]
                           /\ new.active = rows[k].active
                           /\ new.version = req[c].snap.version + 1
    <3> DEFINE row == UpdatedRow(rows[k], req[c].snap, req[c].value)
    <3>1. /\ row \in Row
          /\ row.active = rows[k].active
          /\ row.version = req[c].snap.version + 1
      BY <2>2, UpdatedRowType
    <3>2. rows' = [rows EXCEPT ![k] = row]
      BY <1>4, <2>1 DEF UpdateCommit, Commit
    <3> HIDE DEF row
    <3> QED
      BY <3>1, <3>2
  <2>4. new.version \in 2 .. updates[k] + 2 /\ updates' = [updates EXCEPT ![k] = @ + 1]
    BY <1>4, <2>1, <2>2, <2>3 DEF UpdateCommit
  <2>5. PhaseOf(rows[k]) # "absent" /\ PhaseOf(new) = PhaseOf(rows[k])
    BY <2>2, <2>3 DEF PhaseOf
  <2>6. /\ phase' = [phase EXCEPT ![k] = PhaseOf(new)]
        /\ version' = [version EXCEPT ![k] = new.version]
        /\ phase[k] = PhaseOf(rows[k])
    BY <1>2, <2>3
  <2>7. phase' = phase
    BY <2>5, <2>6
  <2>8. Lifecycle!Update(k)
    <3>1. phase[k] # "absent"
      BY <2>5, <2>6
    <3>2. \E n \in 2 .. updates[k] + 2 : version' = [version EXCEPT ![k] = n]
      BY <2>4, <2>6
    <3> QED
      BY <2>4, <2>7, <3>1, <3>2 DEF Lifecycle!Update
  <2> QED
    BY <2>8 DEF Lifecycle!Next
<1>5. ASSUME NEW c \in Writers, DeleteCommit(c)
      PROVE  [Lifecycle!Next]_(Lifecycle!vars)
  <2>1. PICK k \in Keys : k = req[c].key
    BY <1>5 DEF Clients, VersionInv, TypeOK, DeleteCommit, InHandler, Request
  <2>2. rows[k] \in Row
    BY <1>5, <2>1 DEF Clients, VersionInv, TypeOK, HandlerInv, DeleteCommit, InHandler
  <2>3. PICK new \in Row : /\ rows' = [rows EXCEPT ![k] = new]
                           /\ ~ new.active
                           /\ new.version = rows[k].version
    BY <1>5, <2>1, <2>2, DeletedRowType DEF DeleteCommit, Commit
  <2>4. UNCHANGED updates /\ PhaseOf(new) = "deleted"
    BY <1>5, <2>3 DEF DeleteCommit, PhaseOf
  <2>5. version' = version
    BY <1>2, <2>2, <2>3 DEF VersionOf
  <2>6. CASE rows[k].active
    <3>1. PhaseOf(rows[k]) = "live"
      BY <2>2, <2>6 DEF PhaseOf
    <3>2. Lifecycle!Delete(k)
      BY <1>2, <2>3, <2>4, <2>5, <3>1 DEF Lifecycle!Delete
    <3> QED
      BY <3>2 DEF Lifecycle!Next
  <2>7. CASE ~ rows[k].active
    <3>1. PhaseOf(rows[k]) = "deleted"
      BY <2>2, <2>7 DEF PhaseOf
    <3>2. phase' = phase
      BY <1>2, <2>3, <2>4, <3>1
    <3> QED
      BY <2>4, <2>5, <3>2 DEF Lifecycle!vars
  <2> QED
    BY <2>6, <2>7
<1>6. ASSUME NEW c \in Clients, ReadRequest(c) \/ DbError(c)
      PROVE  UNCHANGED <<rows, updates>>
  BY <1>6 DEF ReadRequest, ReadConfig, NotFound, ListConfigs, Answer, DbError
<1>7. ASSUME NEW c \in Writers, WriteRequest(c) \/ CreateIntegrityError(c) \/ Refresh(c)
      PROVE  UNCHANGED <<rows, updates>>
  BY <1>7 DEF WriteRequest, CreateConflict, DeleteLoad, CreateLoad, UpdateLoad, Answer,
     Load, CreateIntegrityError, Refresh
<1>8. ASSUME Crash \/ UNCHANGED vars
      PROVE  UNCHANGED <<rows, updates>>
  BY <1>8 DEF Crash, vars
<1> QED
  BY <1>1, <1>3, <1>4, <1>5, <1>6, <1>7, <1>8 DEF Next, Handler

(* The table implements the life of its keys, for any number of them.      *)
THEOREM RefinesLifecycle == Spec => ImplementsLifecycle
<1>1. Init => Lifecycle!Init
  BY DEF Init, Lifecycle!Init, PhaseOf, VersionOf
<1> QED
  BY <1>1, InitVersionInv, NextVersionInv, StepOfLife, PTL
     DEF Spec, ImplementsLifecycle, Lifecycle!Spec
-----------------------------------------------------------------------------
(* A key no two PUTs of which have overlapped: at most one is in its       *)
(* handler, the row is as that one loaded it until its commit, and as it   *)
(* wrote it until its answer.                                              *)
SerialInv ==
  /\ VersionCountsUpdates
  /\ ReadsBackOwnWrite
  /\ \A c, d \in Writers :
       /\ c \in PutsUnderWay(req[c].key)
       /\ d \in PutsUnderWay(req[c].key)
       /\ req[c].key \notin overlapped
       => c = d
  /\ \A c \in Writers :
       InHandler(c, "PUT", "loaded") /\ req[c].key \notin overlapped =>
         /\ req[c].snap.version = rows[req[c].key].version
         /\ req[c].snap.value = rows[req[c].key].value

LEMMA InitSerialInv == Init => SerialInv
BY DEF Init, SerialInv, VersionCountsUpdates, ReadsBackOwnWrite, InHandler, PutsUnderWay, Clients

(* Steps that load nothing and write nothing. *)
LEMMA QuietSerialInv ==
  ASSUME VersionInv, SerialInv, UNCHANGED <<rows, updates, overlapped>>,
         \A c \in Clients : req'[c] \in {req[c], Idle}
  PROVE  SerialInv'
BY DEF Clients, VersionInv, TypeOK, SerialInv, VersionCountsUpdates, ReadsBackOwnWrite,
   InHandler, PutsUnderWay

(* A step preserves SerialInv. *)
LEMMA NextSerialInv == VersionInv /\ SerialInv /\ [Next]_vars => SerialInv'
<1> SUFFICES ASSUME VersionInv, SerialInv, [Next]_vars PROVE SerialInv'
  OBVIOUS
<1> USE ConstantsOK
<1>1. ASSUME NEW c \in Clients, NEW status, NEW keys, NEW row,
             Answer(c, status, keys, row)
      PROVE  SerialInv'
  BY <1>1, QuietSerialInv DEF Answer, Respond, VersionInv, TypeOK
<1>2. ASSUME NEW c \in Writers, NEW op \in {"POST", "PUT", "DELETE"},
             NEW k \in Keys, NEW v \in Values, Load(c, op, k, v)
      PROVE  SerialInv'
  <2>1. /\ c \in Clients
        /\ req[c] = Idle
        /\ req' = [req EXCEPT ![c] = [op |-> op, at |-> "loaded", key |-> k,
                                      value |-> v, snap |-> rows[k]]]
        /\ overlapped \subseteq overlapped'
        /\ op = "PUT" /\ PutsUnderWay(k) # {} => k \in overlapped'
        /\ UNCHANGED <<rows, updates>>
    BY <1>2 DEF Load, Clients
  <2>2. VersionCountsUpdates'
    BY <2>1 DEF SerialInv, VersionCountsUpdates
  <2>3. ReadsBackOwnWrite'
    BY <2>1 DEF Clients, VersionInv, TypeOK, SerialInv, ReadsBackOwnWrite, InHandler
  <2>4. \A d \in Writers : d # c => req'[d] = req[d]
    BY <2>1 DEF Clients, VersionInv, TypeOK
  <2>5. req'[c].op = op /\ req'[c].key = k /\ req'[c].snap = rows[k] /\ req'[c].at = "loaded"
    BY <2>1 DEF VersionInv, TypeOK
  <2>6. (\A e, d \in Writers :
          /\ e \in PutsUnderWay(req[e].key)
          /\ d \in PutsUnderWay(req[e].key)
          /\ req[e].key \notin overlapped
          => e = d)'
    BY <2>1, <2>4, <2>5 DEF SerialInv, PutsUnderWay
  <2>7. (\A d \in Writers :
          InHandler(d, "PUT", "loaded") /\ req[d].key \notin overlapped =>
            /\ req[d].snap.version = rows[req[d].key].version
            /\ req[d].snap.value = rows[req[d].key].value)'
    BY <2>1, <2>4, <2>5 DEF SerialInv, InHandler
  <2> QED
    BY <2>2, <2>3, <2>6, <2>7 DEF SerialInv
<1>3. ASSUME NEW c \in Writers, CreateCommit(c)
      PROVE  SerialInv'
  <2> DEFINE k == req[c].key
             new == [value |-> req[c].value, version |-> 1, active |-> TRUE]
  <2>1. /\ c \in Clients
        /\ req[c] \in Request
        /\ k \in Keys
        /\ rows[k] = NoRow
        /\ req[c].op = "POST"
        /\ rows' = [rows EXCEPT ![k] = new]
        /\ req' = [req EXCEPT ![c].at = "saved"]
        /\ UNCHANGED <<updates, overlapped>>
    BY <1>3 DEF Clients, VersionInv, TypeOK, CreateCommit, InHandler, Commit, Request
  <2>2. updates[k] = 0
    BY <2>1 DEF VersionInv, TypeOK, VersionTracksUpdates
  <2>3. \A d \in Writers : req[d] # Idle /\ req[d].op = "PUT" => req[d].key # k
    BY <2>1 DEF Clients, VersionInv, HandlerInv
  <2>4. new.version = 1
    OBVIOUS
  <2> HIDE DEF new
  <2>5. VersionCountsUpdates'
    BY <2>1, <2>2, <2>4 DEF VersionInv, TypeOK, SerialInv, VersionCountsUpdates
  <2>6. /\ \A d \in Writers : d # c => req'[d] = req[d]
        /\ req'[c] # Idle => req'[c].op = "POST"
    BY <2>1 DEF Clients, VersionInv, TypeOK, Request
  <2>7. \A j \in Keys : j # k => rows'[j] = rows[j]
    BY <2>1 DEF VersionInv, TypeOK
  <2>8. \A d \in Writers : req[d] # Idle => req[d].key \in Keys
    BY DEF Clients, VersionInv, TypeOK, Request
  <2>9. ReadsBackOwnWrite'
    BY <2>1, <2>3, <2>6, <2>7, <2>8 DEF SerialInv, ReadsBackOwnWrite, InHandler
  <2> QED
    BY <2>1, <2>3, <2>5, <2>6, <2>7, <2>8, <2>9 DEF SerialInv, InHandler, PutsUnderWay
<1>4. ASSUME NEW c \in Writers, UpdateCommit(c)
      PROVE  SerialInv'
  <2> DEFINE k == req[c].key
             old == rows[k]
             new == UpdatedRow(rows[k], req[c].snap, req[c].value)
  <2>1. /\ c \in Clients
        /\ req[c] \in Request
        /\ k \in Keys
        /\ old \in Row
        /\ req[c].snap \in Row
        /\ req[c].value \in Values
        /\ req[c] # Idle
        /\ req[c].op = "PUT"
        /\ req[c].at = "loaded"
    BY <1>4 DEF Clients, VersionInv, TypeOK, HandlerInv, UpdateCommit, InHandler, Request
  <2>2. /\ rows' = [rows EXCEPT ![k] = new]
        /\ updates' = [updates EXCEPT ![k] = @ + 1]
        /\ req' = [req EXCEPT ![c].at = "saved"]
        /\ UNCHANGED overlapped
    BY <1>4 DEF UpdateCommit, Commit
  <2>3. k \notin overlapped =>
          /\ req[c].snap.version = old.version
          /\ req[c].snap.value = old.value
          /\ old.version = updates[k] + 1
    <3>1. InHandler(c, "PUT", "loaded") /\ rows[k] # NoRow
      BY <1>4, <2>1, ConstantsOK DEF UpdateCommit
    <3> QED
      BY <2>1, <3>1 DEF SerialInv, VersionCountsUpdates
  <2>4. /\ new.version = req[c].snap.version + 1
        /\ req[c].snap.value = old.value => EqClass[new.value] = EqClass[req[c].value]
    BY <2>1 DEF UpdatedRow, Row
  <2> HIDE DEF new
  <2>5. /\ \A d \in Writers : d # c => req'[d] = req[d]
        /\ req'[c].op = "PUT" /\ req'[c].key = k /\ req'[c].at = "saved"
        /\ req'[c].snap = req[c].snap /\ req'[c].value = req[c].value
    BY <2>1, <2>2 DEF Clients, VersionInv, TypeOK, Request
  <2>6. /\ rows'[k] = new /\ \A j \in Keys : j # k => rows'[j] = rows[j]
        /\ updates'[k] = updates[k] + 1
        /\ \A j \in Keys : j # k => updates'[j] = updates[j]
    BY <2>1, <2>2 DEF VersionInv, TypeOK
  <2>7. VersionCountsUpdates'
    BY <2>2, <2>3, <2>4, <2>6 DEF SerialInv, VersionCountsUpdates
  <2>8. \A d \in Writers : req[d] # Idle => req[d].key \in Keys
    BY DEF Clients, VersionInv, TypeOK, Request
  <2>9. \A d \in Writers :
          d # c /\ req[d] # Idle /\ req[d].op = "PUT" /\ req[d].key = k => k \in overlapped
    BY <2>1 DEF SerialInv, PutsUnderWay
  <2>10. ReadsBackOwnWrite'
    BY <2>1, <2>2, <2>3, <2>4, <2>5, <2>6, <2>8, <2>9
       DEF SerialInv, ReadsBackOwnWrite, InHandler
  <2>11. (\A e, d \in Writers :
          /\ e \in PutsUnderWay(req[e].key)
          /\ d \in PutsUnderWay(req[e].key)
          /\ req[e].key \notin overlapped
          => e = d)'
    BY <2>1, <2>2, <2>5, <2>9 DEF SerialInv, PutsUnderWay
  <2>12. (\A d \in Writers :
          InHandler(d, "PUT", "loaded") /\ req[d].key \notin overlapped =>
            /\ req[d].snap.version = rows[req[d].key].version
            /\ req[d].snap.value = rows[req[d].key].value)'
    BY <2>2, <2>5, <2>6, <2>8, <2>9 DEF SerialInv, InHandler
  <2> QED
    BY <2>7, <2>10, <2>11, <2>12 DEF SerialInv
<1>5. ASSUME NEW c \in Writers, DeleteCommit(c)
      PROVE  SerialInv'
  <2> DEFINE k == req[c].key
             new == DeletedRow(rows[k])
  <2>1. /\ c \in Clients
        /\ req[c] \in Request
        /\ k \in Keys
        /\ rows[k] \in Row
        /\ req[c].op = "DELETE"
    BY <1>5 DEF Clients, VersionInv, TypeOK, HandlerInv, DeleteCommit, InHandler, Request
  <2>2. new.version = rows[k].version /\ new.value = rows[k].value
    BY <2>1 DEF DeletedRow, Row
  <2> HIDE DEF new
  <2>3. /\ rows' = [rows EXCEPT ![k] = new]
        /\ req' = [req EXCEPT ![c].at = "saved"]
        /\ UNCHANGED <<updates, overlapped>>
    BY <1>5 DEF DeleteCommit, Commit, new
  <2>4. /\ \A j \in Keys : rows'[j].version = rows[j].version /\ rows'[j].value = rows[j].value
        /\ \A j \in Keys : rows'[j] # NoRow => rows[j] # NoRow
    BY <2>1, <2>2, <2>3, ConstantsOK DEF VersionInv, TypeOK
  <2>5. /\ \A d \in Writers : d # c => req'[d] = req[d]
        /\ req'[c] # Idle => req'[c].op = "DELETE"
    BY <2>1, <2>3 DEF Clients, VersionInv, TypeOK, Request
  <2>6. \A d \in Writers : req[d] # Idle => req[d].key \in Keys
    BY DEF Clients, VersionInv, TypeOK, Request
  <2>7. VersionCountsUpdates'
    BY <2>3, <2>4 DEF SerialInv, VersionCountsUpdates
  <2>8. ReadsBackOwnWrite'
    BY <2>3, <2>4, <2>5, <2>6 DEF SerialInv, ReadsBackOwnWrite, InHandler
  <2> QED
    BY <2>3, <2>4, <2>5, <2>6, <2>7, <2>8 DEF SerialInv, InHandler, PutsUnderWay
<1>6. ASSUME NEW c \in Clients, CreateIntegrityError(c) \/ Refresh(c) \/ DbError(c)
      PROVE  SerialInv'
  BY <1>6, QuietSerialInv DEF CreateIntegrityError, Refresh, DbError, Respond, VersionInv, TypeOK
<1>7. ASSUME Crash
      PROVE  SerialInv'
  BY <1>7, QuietSerialInv DEF Crash
<1>8. ASSUME NEW c \in Clients, ReadRequest(c)
      PROVE  SerialInv'
  BY <1>1, <1>8 DEF ReadRequest, ReadConfig, NotFound, ListConfigs
<1>9. ASSUME NEW c \in Writers, WriteRequest(c)
      PROVE  SerialInv'
  <2>1. ASSUME NEW k \in Keys, CreateConflict(c, k)
        PROVE  SerialInv'
    BY <1>1, <2>1 DEF CreateConflict, Clients
  <2>2. ASSUME NEW k \in Keys, DeleteLoad(c, k)
        PROVE  SerialInv'
    BY <1>2, <2>2 DEF DeleteLoad, IsActive, VersionInv, TypeOK, Row
  <2>3. ASSUME NEW k \in Keys, NEW v \in Values, CreateLoad(c, k, v) \/ UpdateLoad(c, k, v)
        PROVE  SerialInv'
    BY <1>2, <2>3 DEF CreateLoad, UpdateLoad
  <2> QED
    BY <1>9, <2>1, <2>2, <2>3 DEF WriteRequest
<1>10. ASSUME UNCHANGED vars
       PROVE  SerialInv'
  BY <1>10, QuietSerialInv DEF vars
<1> QED
  BY <1>3, <1>4, <1>5, <1>6, <1>7, <1>8, <1>9, <1>10 DEF Next, Handler, Clients

(* As long as its PUTs do not overlap, a key's version counts its updates. *)
THEOREM SerialPutsCount == Spec => []VersionCountsUpdates
<1>1. SerialInv => VersionCountsUpdates
  BY DEF SerialInv
<1> QED
  BY <1>1, InitVersionInv, NextVersionInv, InitSerialInv, NextSerialInv, PTL DEF Spec

(* As long as PUTs do not overlap, each answers with what it wrote. *)
THEOREM SerialPutsReadBack == Spec => []ReadsBackOwnWrite
<1>1. SerialInv => ReadsBackOwnWrite
  BY DEF SerialInv
<1> QED
  BY <1>1, InitVersionInv, NextVersionInv, InitSerialInv, NextSerialInv, PTL DEF Spec

(* Only a PUT that overlapped another takes a version back. *)
THEOREM SerialVersionsRise == Spec => VersionRisesInTurn
<1>1. ASSUME VersionInv, VersionInv', SerialInv, SerialInv', [Next]_vars
      PROVE  \A k \in Keys \ overlapped : rows[k] # NoRow =>
               rows'[k] # NoRow /\ rows'[k].version >= rows[k].version
  <2> SUFFICES ASSUME NEW k \in Keys, k \notin overlapped, rows[k] # NoRow
               PROVE  rows'[k] # NoRow /\ rows'[k].version >= rows[k].version
    OBVIOUS
  <2>1. /\ rows[k].version = updates[k] + 1 /\ updates[k] \in Nat /\ updates'[k] \in Nat
    BY <1>1 DEF SerialInv, VersionCountsUpdates, VersionInv, TypeOK
  <2>2. rows'[k] # NoRow /\ updates'[k] >= updates[k]
    <3>1. [Lifecycle!Next]_(Lifecycle!vars)
      BY <1>1, StepOfLife
    <3>2. PhaseOf(rows[k]) # "absent"
      BY DEF PhaseOf
    <3>3. PhaseOf(rows'[k]) # "absent" /\ updates'[k] >= updates[k]
      <4>1. [j \in Keys |-> PhaseOf(rows[j])][k] # "absent"
        BY <3>2
      <4>2. /\ [j \in Keys |-> PhaseOf(rows'[j])][k] # "absent"
            /\ updates' = updates \/ \E j \in Keys : updates' = [updates EXCEPT ![j] = @ + 1]
        BY <3>1, <4>1 DEF Lifecycle!Next, Lifecycle!vars, Lifecycle!Create, Lifecycle!Update,
           Lifecycle!Delete
      <4>3. updates \in [Keys -> Nat]
        BY <1>1 DEF VersionInv, TypeOK
      <4> QED
        BY <4>2, <4>3
    <3> QED
      BY <3>3 DEF PhaseOf
  <2>3. rows' = rows \/ overlapped' = overlapped
    <3>1. ASSUME NEW c \in Clients, ReadRequest(c) \/ DbError(c)
          PROVE  rows' = rows
      BY <3>1 DEF ReadRequest, ReadConfig, NotFound, ListConfigs, Answer, DbError
    <3>2. ASSUME NEW c \in Writers, WriteRequest(c)
          PROVE  rows' = rows
      BY <3>2 DEF WriteRequest, CreateConflict, DeleteLoad, CreateLoad, UpdateLoad, Answer, Load
    <3>3. ASSUME NEW c \in Writers, Handler(c)
          PROVE  overlapped' = overlapped
      BY <3>3 DEF Handler, CreateCommit, CreateIntegrityError, UpdateCommit, DeleteCommit, Commit,
         Refresh
    <3> QED
      BY <1>1, <3>1, <3>2, <3>3 DEF Next, Crash, vars
  <2>4. CASE rows' = rows
    BY <2>1, <2>4 DEF VersionInv, TypeOK
  <2>5. CASE overlapped' = overlapped
    <3>1. rows'[k].version = updates'[k] + 1
      BY <1>1, <2>2, <2>5 DEF SerialInv, VersionCountsUpdates
    <3> QED
      BY <2>1, <2>2, <3>1
  <2> QED
    BY <2>3, <2>4, <2>5
<1> QED
  BY <1>1, InitVersionInv, NextVersionInv, InitSerialInv, NextSerialInv, PTL
     DEF Spec, VersionRisesInTurn

-----------------------------------------------------------------------------
(* A key that was deleted is deleted for good: nothing brings it back, not *)
(* even a POST of the same key, and a restart does not.                    *)
THEOREM DeletedForGood ==
  ASSUME NEW k \in Keys
  PROVE  Spec => [](PhaseOf(rows[k]) = "deleted" => [](PhaseOf(rows[k]) = "deleted"))
<1> DEFINE Deleted == PhaseOf(rows[k]) = "deleted"
<1>1. VersionInv /\ Deleted /\ [Next]_vars => Deleted'
  <2> SUFFICES ASSUME VersionInv, Deleted, [Next]_vars PROVE Deleted'
    OBVIOUS
  <2>1. [Lifecycle!Next]_(Lifecycle!vars)
    BY StepOfLife
  <2>2. [j \in Keys |-> PhaseOf(rows[j])][k] = "deleted"
    OBVIOUS
  <2>3. [j \in Keys |-> PhaseOf(rows'[j])][k] = "deleted"
    BY <2>1, <2>2 DEF Lifecycle!Next, Lifecycle!vars, Lifecycle!Create, Lifecycle!Update,
       Lifecycle!Delete
  <2> QED
    BY <2>3
<1> HIDE DEF Deleted
<1>2. Spec => [](Deleted => []Deleted)
  BY <1>1, InitVersionInv, NextVersionInv, PTL DEF Spec
<1> QED
  BY <1>2 DEF Deleted
=============================================================================
