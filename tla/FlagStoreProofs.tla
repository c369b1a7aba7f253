--------------------------- MODULE FlagStoreProofs ---------------------------
(* Theorems about the flag router and the rollout. *)
EXTENDS FlagStore, FiniteSets, FiniteSetTheorems, TLAPS

-----------------------------------------------------------------------------
(* The rollout. *)

(* Multiplying by the parts of a percent keeps the order. *)
LEMMA PartsKeepOrder ==
  ASSUME NEW m \in Nat, NEW n \in Nat
  PROVE  m < n <=> m * Parts < n * Parts
BY PartsOK, SMT

(* The shortcuts at 0 and 100 percent agree with the comparison. *)
LEMMA ShortcutsAgree ==
  ASSUME NEW enabled \in BOOLEAN, NEW p \in Percentages, NEW b \in Buckets
  PROVE  evaluate_flag(enabled, p, b) <=> enabled /\ b * Parts < p
<1>1. b * Parts < 100 * Parts
  BY PartsKeepOrder DEF Buckets
<1>2. b * Parts \in Nat /\ p \in Nat
  BY PartsOK, SMT DEF Buckets, Percentages
<1>3. p = 0 => ~ (b * Parts < p)
  BY <1>2
<1> QED
  BY <1>1, <1>3 DEF evaluate_flag

(* b is below the rounded percentage iff its part is below the percentage. *)
LEMMA RoundingUp ==
  ASSUME NEW p \in Percentages, NEW b \in Buckets
  PROVE  b < WholePercent(p) <=> b * Parts < p
BY PartsOK, SMTT(60) DEF Percentages, Buckets, WholePercent

(* evaluate_flag turns an enabled flag on for exactly as many of the       *)
(* hundred buckets as its percentage, rounded up, says, and these are the  *)
(* lowest: raising the percentage only adds agents.                        *)
THEOREM RolloutShare ==
  ASSUME NEW p \in Percentages
  PROVE  LET on == {b \in Buckets : evaluate_flag(TRUE, p, b)}
         IN  /\ Cardinality(on) = WholePercent(p)
             /\ \A q \in Percentages :
                  p <= q => on \subseteq {b \in Buckets : evaluate_flag(TRUE, q, b)}
<1> DEFINE on == {b \in Buckets : evaluate_flag(TRUE, p, b)}
<1>1. WholePercent(p) \in 0 .. 100
  BY PartsOK, SMTT(60) DEF Percentages, WholePercent
<1>2. \A b \in Buckets : evaluate_flag(TRUE, p, b) <=> b < WholePercent(p)
  BY ShortcutsAgree, RoundingUp
<1>3. on = {b \in 0 .. 99 : b < WholePercent(p)}
  BY <1>2, Zenon DEF Buckets
<1>4. Cardinality(on) = WholePercent(p)
  <2> DEFINE w == WholePercent(p)
  <2>1. w \in 0 .. 100
    BY <1>1
  <2> HIDE DEF w, on
  <2>2. {b \in 0 .. 99 : b < w} = 0 .. w - 1
    BY <2>1
  <2>3. Cardinality(0 .. w - 1) = IF 0 > w - 1 THEN 0 ELSE w - 1 - 0 + 1
    BY <2>1, FS_Interval
  <2>4. Cardinality(0 .. w - 1) = w
    BY <2>1, <2>3
  <2> QED
    BY <1>3, <2>2, <2>4 DEF w
<1>5. ASSUME NEW q \in Percentages, p <= q, NEW b \in on
      PROVE  b \in Buckets /\ evaluate_flag(TRUE, q, b)
  <2>1. b \in Buckets /\ b * Parts < p
    BY <1>5, ShortcutsAgree
  <2>2. b * Parts \in Nat /\ p \in Nat /\ q \in Nat
    BY <2>1, PartsOK, SMT DEF Buckets, Percentages
  <2>3. b * Parts < q
    BY <1>5, <2>1, <2>2
  <2> QED
    BY <2>1, <2>3, ShortcutsAgree
<1> HIDE DEF on
<1>6. \A q \in Percentages :
         p <= q => on \subseteq {b \in Buckets : evaluate_flag(TRUE, q, b)}
  BY <1>5
<1> QED
  BY <1>4, <1>6 DEF on

-----------------------------------------------------------------------------
(* What a handler knows: the flag it writes has a row, which never goes    *)
(* away, and every field it sent and found as wanted has been held.        *)
HandlerInv ==
  \A c \in Clients : req[c] # Idle =>
    LET p == req[c].patch IN
      /\ req[c].op = "POST" => p \in Payloads
      /\ req[c].op = "DELETE" => p = Disable
      /\ req[c].op # "POST" => p \in Patches \cup {Disable} /\ req[c].snap \in Flag
      /\ req[c].op # "POST" \/ req[c].at = "saved" => flags[req[c].name] # NoFlag
      /\ held[c] \subseteq DOMAIN p
      /\ req[c].op # "POST" => Equal(p, req[c].snap) \subseteq held[c]
      /\ req[c].at = "saved" => held[c] = DOMAIN p

FlagInv == TypeOK /\ HandlerInv

(* The flags some PUT may still enable.                                    *)
Reenabling == {n \in Names : Enabling(n) # {}}

(* No PUT that enables a flag is left when a DELETE that met none is       *)
(* answered, and the flag is disabled from the DELETE's commit at the      *)
(* latest.                                                                 *)
KillInv ==
  /\ KilledFlagStaysOff
  /\ \A n \in off : n \notin Reenabling
  /\ \A c \in quiet :
       /\ req[c] # Idle /\ req[c].op = "DELETE"
       /\ req[c].name \notin Reenabling
       /\ req[c].at = "saved" \/ ~ req[c].snap.enabled => ~ flags[req[c].name].enabled

-----------------------------------------------------------------------------
(* What a body of POST, a body of PUT and DELETE's patch set. *)
LEMMA PayloadFields ==
  ASSUME NEW p \in Payloads
  PROVE  DOMAIN p = Fields /\ p \in Flag
BY FlagConstantsOK DEF Flag, Fields

LEMMA PatchFields ==
  ASSUME NEW p \in Patches \cup {Disable}
  PROVE  /\ DOMAIN p \subseteq Fields
         /\ "enabled" \in DOMAIN p => p["enabled"] \in BOOLEAN \cup {Null}
         /\ "rollout_pct" \in DOMAIN p => p["rollout_pct"] \in Percentages \cup {Null}
         /\ "rules" \in DOMAIN p => p["rules"] \in Rules
BY FlagConstantsOK DEF Disable, Fields

(* What an UPDATE that is accepted leaves of the flag. *)
LEMMA UpdatedFlagType ==
  ASSUME NEW p \in Patches \cup {Disable}, SatisfiesNotNull(p),
         NEW current \in Flag, NEW snap \in Flag
  PROVE  /\ UpdatedFlag(current, snap, p) \in Flag
         /\ \A f \in Fields : UpdatedFlag(current, snap, p)[f] =
                                UpdatedColumn(current, snap, p, f)
<1>1. /\ UpdatedColumn(current, snap, p, "enabled") \in BOOLEAN
      /\ UpdatedColumn(current, snap, p, "rollout_pct") \in Percentages
      /\ UpdatedColumn(current, snap, p, "rules") \in Rules
  BY PatchFields DEF UpdatedColumn, SatisfiesNotNull, Sends, Flag
<1> QED
  BY <1>1 DEF UpdatedFlag, Flag, Fields

LEMMA InitFlagInv == Init => FlagInv
BY FlagConstantsOK DEF Init, FlagInv, TypeOK, HandlerInv, NoResponse, Response

(* Answering a request, with the table as it is, preserves FlagInv. *)
LEMMA RespondKeeps ==
  ASSUME FlagInv, NEW c \in Clients,
         resp' \in [Clients -> Response], req' = [req EXCEPT ![c] = Idle],
         held' = [held EXCEPT ![c] = {}], quiet' = quiet \ {c},
         UNCHANGED flags, off' \in SUBSET Names
  PROVE  FlagInv'
<1>1. \A d \in Clients \ {c} : req'[d] = req[d] /\ held'[d] = held[d]
  BY DEF FlagInv, TypeOK
<1>2. req'[c] = Idle
  BY DEF FlagInv, TypeOK
<1>3. TypeOK'
  BY DEF FlagInv, TypeOK
<1> QED
  BY <1>1, <1>2, <1>3 DEF FlagInv, HandlerInv

(* So does loading a flag for a POST, or for a PUT or DELETE. *)
LEMMA LoadKeeps ==
  ASSUME FlagInv, NEW c \in Writers, NEW op \in {"POST", "PUT", "DELETE"},
         NEW n \in Names, NEW p, Load(c, op, n, p),
         op = "POST" => p \in Payloads /\ held' = [held EXCEPT ![c] = {}],
         op = "DELETE" => p = Disable,
         op # "POST" => /\ p \in Patches \cup {Disable} /\ flags[n] # NoFlag
                        /\ held' = [held EXCEPT ![c] = Equal(p, flags[n])],
         quiet' \in SUBSET Clients, off' \in SUBSET Names
  PROVE  FlagInv'
<1> USE FlagConstantsOK
<1>0. c \in Clients /\ TypeOK /\ HandlerInv
  BY DEF Clients, FlagInv
<1>1. \A d \in Clients \ {c} : req'[d] = req[d] /\ held'[d] = held[d]
  BY <1>0 DEF TypeOK, Load
<1>2. /\ req'[c] = [op |-> op, at |-> "loaded", name |-> n, patch |-> p, snap |-> flags[n]]
      /\ held'[c] = IF op = "POST" THEN {} ELSE Equal(p, flags[n])
      /\ UNCHANGED flags
  BY <1>0 DEF TypeOK, Load
<1>3. flags[n] \in Flag \cup {NoFlag} /\ p \in Payloads \cup Patches \cup {Disable}
  BY <1>0 DEF TypeOK
<1>4. DOMAIN p \subseteq Fields
  BY PayloadFields, PatchFields
<1>5. Equal(p, flags[n]) \subseteq DOMAIN p
  BY DEF Equal
<1>6. req'[c] \in Request
  BY <1>2, <1>3 DEF Request
<1>7. TypeOK'
  <2>1. req' \in [Clients -> Request \cup {Idle}]
    BY <1>0, <1>1, <1>2, <1>6 DEF TypeOK, Load
  <2>2. held' \in [Clients -> SUBSET Fields]
    BY <1>0, <1>4, <1>5 DEF TypeOK
  <2>3. resp' \in [Clients -> Response]
    BY <1>0 DEF TypeOK, Load, NoResponse, Response
  <2> QED
    BY <1>0, <1>2, <2>1, <2>2, <2>3 DEF TypeOK
<1>8. HandlerInv'
  <2>1. ASSUME NEW d \in Clients \ {c}, req'[d] # Idle
        PROVE  /\ req'[d] = req[d] /\ held'[d] = held[d]
               /\ flags'[req'[d].name] = flags[req[d].name]
    BY <1>1, <1>2
  <2> QED
    BY <1>0, <1>2, <1>3, <1>5, <2>1 DEF HandlerInv
<1> QED
  BY <1>7, <1>8 DEF FlagInv

(* So does a commit that writes each field sent, unless it was found as    *)
(* wanted.                                                                 *)
LEMMA CommitKeeps ==
  ASSUME FlagInv, NEW c \in Writers, req[c] # Idle, req[c].at = "loaded",
         NEW new \in Flag, Commit(c, new),
         \A f \in DOMAIN req[c].patch :
            \/ new[f] = req[c].patch[f]
            \/ req[c].op # "POST" /\ req[c].patch[f] = req[c].snap[f]
  PROVE  FlagInv'
<1> USE FlagConstantsOK
<1> DEFINE n == req[c].name
           met(d) == {f \in DOMAIN req[d].patch : req[d].patch[f] = new[f]}
<1>0. c \in Clients /\ TypeOK /\ HandlerInv
  BY DEF Clients, FlagInv
<1>1. /\ req[c] \in Request /\ n \in Names
      /\ flags' = [flags EXCEPT ![n] = new]
      /\ UNCHANGED <<resp, quiet, off>>
  BY <1>0 DEF TypeOK, Commit, Request
<1>2. /\ \A d \in Clients \ {c} : req'[d] = req[d]
      /\ req'[c] = [req[c] EXCEPT !.at = "saved"]
  BY <1>0 DEF TypeOK, Commit
<1>3. /\ req'[c] \in Request /\ req'[c] # Idle /\ req'[c].at = "saved"
      /\ req'[c].op = req[c].op /\ req'[c].name = n
      /\ req'[c].patch = req[c].patch /\ req'[c].snap = req[c].snap
  BY <1>1, <1>2 DEF Request
<1>4. \A d \in Clients : req[d] # Idle =>
        /\ req'[d] # Idle
        /\ req'[d].op = req[d].op /\ req'[d].name = req[d].name
        /\ req'[d].patch = req[d].patch /\ req'[d].snap = req[d].snap
        /\ d # c => req'[d].at = req[d].at
  BY <1>2, <1>3
<1>5. \A d \in Clients : held'[d] = IF req[d] # Idle /\ req[d].name = n
                                    THEN held[d] \cup met(d) ELSE held[d]
  BY DEF Commit
<1>6. \A j \in Names : flags'[j] = IF j = n THEN new ELSE flags[j]
  BY <1>0, <1>1 DEF TypeOK
<1>7. \A d \in Clients : req[d] # Idle => req[d] \in Request /\ req[d].name \in Names
  BY <1>0 DEF TypeOK, Request
<1>8. HandlerInv'
  <2>1. ASSUME NEW d \in Clients, req[d] # Idle
        PROVE  /\ held[d] \subseteq held'[d]
               /\ held[d] \subseteq DOMAIN req[d].patch => held'[d] \subseteq DOMAIN req[d].patch
    BY <2>1, <1>5
  <2>2. ASSUME NEW d \in Clients, req[d] # Idle, flags[req[d].name] # NoFlag
        PROVE  flags'[req[d].name] # NoFlag
    BY <2>2, <1>6, <1>7
  <2>3. flags'[n] # NoFlag
    BY <1>1, <1>6
  <2>4. held'[c] = DOMAIN req[c].patch
    <3>1. held'[c] = held[c] \cup met(c) /\ held[c] \subseteq DOMAIN req[c].patch
      BY <1>0, <1>5 DEF HandlerInv
    <3>2. ASSUME NEW f \in DOMAIN req[c].patch PROVE f \in held'[c]
      <4>1. CASE new[f] = req[c].patch[f]
        BY <3>1, <4>1
      <4>2. CASE req[c].op # "POST" /\ req[c].patch[f] = req[c].snap[f]
        <5>1. f \in Equal(req[c].patch, req[c].snap)
          BY <4>2 DEF Equal
        <5> QED
          BY <1>0, <3>1, <4>2, <5>1 DEF HandlerInv
      <4> QED
        BY <4>1, <4>2
    <3> QED
      BY <3>1, <3>2
  <2>5. ASSUME NEW d \in Clients \ {c}, req'[d] # Idle
        PROVE  req'[d] = req[d]
    BY <1>2
  <2> HIDE DEF met, n
  <2>6. \A d \in Clients : Equal(req'[d].patch, req'[d].snap) =
                           {f \in DOMAIN req'[d].patch : req'[d].patch[f] = req'[d].snap[f]}
    BY DEF Equal
  <2>7. ASSUME NEW d \in Clients \ {c}, req'[d] # Idle
        PROVE  LET p == req'[d].patch IN
                 /\ req'[d].op = "POST" => p \in Payloads
                 /\ req'[d].op = "DELETE" => p = Disable
                 /\ req'[d].op # "POST" => p \in Patches \cup {Disable} /\ req'[d].snap \in Flag
                 /\ req'[d].op # "POST" \/ req'[d].at = "saved" => flags'[req'[d].name] # NoFlag
                 /\ held'[d] \subseteq DOMAIN p
                 /\ req'[d].op # "POST" => Equal(p, req'[d].snap) \subseteq held'[d]
                 /\ req'[d].at = "saved" => held'[d] = DOMAIN p
    BY <1>0, <2>1, <2>2, <2>5, <2>7 DEF HandlerInv
  <2>8. LET p == req'[c].patch IN
          /\ req'[c].op = "POST" => p \in Payloads
          /\ req'[c].op = "DELETE" => p = Disable
          /\ req'[c].op # "POST" => p \in Patches \cup {Disable} /\ req'[c].snap \in Flag
          /\ req'[c].op # "POST" \/ req'[c].at = "saved" => flags'[req'[c].name] # NoFlag
          /\ held'[c] \subseteq DOMAIN p
          /\ req'[c].op # "POST" => Equal(p, req'[c].snap) \subseteq held'[c]
          /\ req'[c].at = "saved" => held'[c] = DOMAIN p
    BY <1>0, <1>3, <2>1, <2>3, <2>4 DEF HandlerInv
  <2> QED
    BY <2>7, <2>8 DEF HandlerInv
<1>9. TypeOK'
  <2>1. req' \in [Clients -> Request \cup {Idle}]
    BY <1>0, <1>2, <1>3 DEF TypeOK, Commit
  <2>2. \A d \in Clients : req[d] # Idle => DOMAIN req[d].patch \subseteq Fields
    BY <1>0, PayloadFields, PatchFields DEF HandlerInv
  <2>3. held' \in [Clients -> SUBSET Fields]
    <3>1. ASSUME NEW d \in Clients PROVE held'[d] \in SUBSET Fields
      <4>1. held[d] \in SUBSET Fields
        BY <1>0 DEF TypeOK
      <4>2. met(d) \subseteq DOMAIN req[d].patch
        OBVIOUS
      <4> HIDE DEF met, n
      <4>3. CASE req[d] # Idle /\ req[d].name = n
        BY <1>5, <2>2, <4>1, <4>2, <4>3
      <4>4. CASE ~ (req[d] # Idle /\ req[d].name = n)
        BY <1>5, <4>1, <4>4
      <4> QED
        BY <4>3, <4>4
    <3> QED
      BY <3>1 DEF Commit
  <2>4. flags' \in [Names -> Flag \cup {NoFlag}]
    BY <1>0, <1>1 DEF TypeOK
  <2> QED
    BY <1>0, <1>1, <2>1, <2>3, <2>4 DEF TypeOK
<1> QED
  BY <1>8, <1>9 DEF FlagInv

(* A step preserves FlagInv. *)
LEMMA NextFlagInv == FlagInv /\ [Next]_vars => FlagInv'
<1> SUFFICES ASSUME FlagInv, [Next]_vars PROVE FlagInv'
  OBVIOUS
<1> USE FlagConstantsOK
<1>0. TypeOK /\ HandlerInv
  BY DEF FlagInv
<1>1. ASSUME NEW c \in Clients, ReadRequest(c)
      PROVE  FlagInv'
  <2>1. PICK n \in Names : NotFound(c, n) \/ ReadFlag(c, n) \/ \E a \in Agents : EvaluateFlag(c, n, a)
    BY <1>1 DEF ReadRequest
  <2>2. CASE NotFound(c, n)
    <3>1. resp' \in [Clients -> Response]
      BY <1>0, <1>1, <2>2 DEF NotFound, Answer, Respond, Response, TypeOK
    <3>2. /\ req' = [req EXCEPT ![c] = Idle] /\ held' = [held EXCEPT ![c] = {}]
          /\ quiet' = quiet \ {c} /\ UNCHANGED <<flags, off>>
      BY <2>2 DEF NotFound, Answer, Respond
    <3>3. off' \in SUBSET Names
      BY <1>0, <3>2 DEF TypeOK
    <3> QED
      BY <1>1, <3>1, <3>2, <3>3, RespondKeeps
  <2>3. CASE ReadFlag(c, n)
    <3>1. resp' \in [Clients -> Response]
      BY <1>0, <1>1, <2>3 DEF ReadFlag, Answer, Respond, Response, TypeOK
    <3>2. /\ req' = [req EXCEPT ![c] = Idle] /\ held' = [held EXCEPT ![c] = {}]
          /\ quiet' = quiet \ {c} /\ UNCHANGED <<flags, off>>
      BY <2>3 DEF ReadFlag, Answer, Respond
    <3>3. off' \in SUBSET Names
      BY <1>0, <3>2 DEF TypeOK
    <3> QED
      BY <1>1, <3>1, <3>2, <3>3, RespondKeeps
  <2>4. CASE \E a \in Agents : EvaluateFlag(c, n, a)
    <3>1. PICK a \in Agents : EvaluateFlag(c, n, a)
      BY <2>4
    <3>2. resp' \in [Clients -> Response]
      BY <1>0, <3>1 DEF EvaluateFlag, Answer, Respond, Response, TypeOK, OnFor, evaluate_flag
    <3> QED
      BY <1>0, <3>1, <3>2, RespondKeeps DEF EvaluateFlag, Answer, Respond, TypeOK
  <2> QED
    BY <2>1, <2>2, <2>3, <2>4
<1>2. ASSUME NEW c \in Clients, DbError(c)
      PROVE  FlagInv'
  <2>1. resp' \in [Clients -> Response]
    BY <1>0, <1>2 DEF DbError, Respond, Response, TypeOK
  <2>2. /\ req' = [req EXCEPT ![c] = Idle] /\ held' = [held EXCEPT ![c] = {}]
        /\ quiet' = quiet \ {c} /\ UNCHANGED <<flags, off>>
    BY <1>2 DEF DbError, Respond
  <2>3. off' \in SUBSET Names
    BY <1>0, <2>2 DEF TypeOK
  <2> QED
    BY <2>1, <2>2, <2>3, RespondKeeps
<1>3. ASSUME NEW c \in Writers, WriteRequest(c)
      PROVE  FlagInv'
  <2>0. c \in Clients
    BY DEF Clients
  <2>1. PICK n \in Names : \/ CreateConflict(c, n) \/ DeleteLoad(c, n)
                           \/ \E p \in Payloads : CreateLoad(c, n, p)
                           \/ \E p \in Patches : UpdateLoad(c, n, p)
    BY <1>3 DEF WriteRequest
  <2>2. CASE CreateConflict(c, n)
    <3>1. resp' \in [Clients -> Response]
      BY <1>0, <2>0, <2>2 DEF CreateConflict, Answer, Respond, Response, TypeOK
    <3>2. /\ req' = [req EXCEPT ![c] = Idle] /\ held' = [held EXCEPT ![c] = {}]
          /\ quiet' = quiet \ {c} /\ UNCHANGED <<flags, off>>
      BY <2>2 DEF CreateConflict, Answer, Respond
    <3>3. off' \in SUBSET Names
      BY <1>0, <3>2 DEF TypeOK
    <3> QED
      BY <2>0, <3>1, <3>2, <3>3, RespondKeeps
  <2>3. CASE DeleteLoad(c, n)
    BY <1>0, <2>0, <2>3, LoadKeeps DEF DeleteLoad, TypeOK
  <2>4. ASSUME NEW p \in Payloads, CreateLoad(c, n, p) PROVE FlagInv'
    BY <1>0, <2>4, LoadKeeps DEF CreateLoad, TypeOK
  <2>5. ASSUME NEW p \in Patches, UpdateLoad(c, n, p) PROVE FlagInv'
    <3>1. quiet' \in SUBSET Clients /\ off' \in SUBSET Names
      BY <1>0, <2>5 DEF UpdateLoad, TypeOK
    <3> QED
      BY <2>5, <3>1, LoadKeeps DEF UpdateLoad
  <2> QED
    BY <2>1, <2>2, <2>3, <2>4, <2>5
<1>4. ASSUME NEW c \in Writers, CreateCommit(c)
      PROVE  FlagInv'
  <2>1. req[c] # Idle /\ req[c].op = "POST" /\ req[c].at = "loaded"
    BY <1>4 DEF CreateCommit, InHandler
  <2>2. req[c].patch \in Payloads
    BY <1>0, <2>1 DEF HandlerInv, Clients
  <2> QED
    BY <1>4, <2>1, <2>2, PayloadFields, CommitKeeps DEF CreateCommit
<1>5. ASSUME NEW c \in Writers, UpdateCommit(c)
      PROVE  FlagInv'
  <2> DEFINE p == req[c].patch
             current == flags[req[c].name]
             new == UpdatedFlag(current, req[c].snap, p)
  <2>1. /\ req[c] # Idle /\ req[c].op # "POST" /\ req[c].at = "loaded"
        /\ SatisfiesNotNull(p) /\ Commit(c, new)
    BY <1>5 DEF UpdateCommit, InHandler
  <2>2. p \in Patches \cup {Disable} /\ req[c].snap \in Flag /\ current \in Flag
    <3>1. req[c].name \in Names
      BY <1>0, <2>1 DEF TypeOK, Clients, Request
    <3> QED
      BY <1>0, <2>1, <3>1 DEF TypeOK, HandlerInv, Clients
  <2> HIDE DEF current
  <2>3. new \in Flag /\ \A f \in Fields : new[f] = UpdatedColumn(current, req[c].snap, p, f)
    BY <2>1, <2>2, UpdatedFlagType
  <2>4. \A f \in DOMAIN p : new[f] = p[f] \/ p[f] = req[c].snap[f]
    BY <2>2, <2>3, PatchFields DEF UpdatedColumn
  <2> HIDE DEF new
  <2> QED
    BY <2>1, <2>3, <2>4, CommitKeeps
<1>6. ASSUME NEW c \in Writers, CreateIntegrityError(c) \/ UpdateIntegrityError(c) \/ Refresh(c)
      PROVE  FlagInv'
  <2>0. c \in Clients
    BY DEF Clients
  <2>1. CASE CreateIntegrityError(c)
    <3>1. resp' \in [Clients -> Response]
      BY <1>0, <2>0, <2>1 DEF CreateIntegrityError, Respond, Response, TypeOK
    <3>2. /\ req' = [req EXCEPT ![c] = Idle] /\ held' = [held EXCEPT ![c] = {}]
          /\ quiet' = quiet \ {c} /\ UNCHANGED <<flags, off>>
      BY <2>1 DEF CreateIntegrityError, Respond
    <3>3. off' \in SUBSET Names
      BY <1>0, <3>2 DEF TypeOK
    <3> QED
      BY <2>0, <3>1, <3>2, <3>3, RespondKeeps
  <2>2. CASE UpdateIntegrityError(c)
    <3>1. resp' \in [Clients -> Response]
      BY <1>0, <2>0, <2>2 DEF UpdateIntegrityError, Respond, Response, TypeOK
    <3>2. /\ req' = [req EXCEPT ![c] = Idle] /\ held' = [held EXCEPT ![c] = {}]
          /\ quiet' = quiet \ {c} /\ UNCHANGED <<flags, off>>
      BY <2>2 DEF UpdateIntegrityError, Respond
    <3>3. off' \in SUBSET Names
      BY <1>0, <3>2 DEF TypeOK
    <3> QED
      BY <2>0, <3>1, <3>2, <3>3, RespondKeeps
  <2>3. CASE Refresh(c)
    <3>1. off' \in SUBSET Names
      BY <1>0, <2>0, <2>3 DEF Refresh, TypeOK, Request
    <3>2. resp' \in [Clients -> Response]
      BY <1>0, <2>3 DEF Refresh, Respond, Response, TypeOK
    <3> QED
      BY <2>0, <2>3, <3>1, <3>2, RespondKeeps DEF Refresh, Respond
  <2> QED
    BY <1>6, <2>1, <2>2, <2>3
<1>7. CASE Crash
  BY <1>0, <1>7 DEF Crash, FlagInv, TypeOK, HandlerInv, NoResponse, Response
<1>8. CASE UNCHANGED vars
  BY <1>0, <1>8 DEF vars, FlagInv, TypeOK, HandlerInv, Equal
<1> QED
  BY <1>1, <1>2, <1>3, <1>4, <1>5, <1>6, <1>7, <1>8 DEF Next, Handler

(* Every reachable state is of its type; null never enters a column that   *)
(* is NOT NULL.                                                            *)
THEOREM TypeCorrect == Spec => []TypeOK
<1>1. FlagInv => TypeOK
  BY DEF FlagInv
<1> QED
  BY <1>1, InitFlagInv, NextFlagInv, PTL DEF Spec

(* Every field of a write that is about to be acknowledged has been in     *)
(* effect since the write loaded the flag.                                 *)
THEOREM WritesTakeEffect == Spec => []AcknowledgedWasInEffect
<1>1. FlagInv => AcknowledgedWasInEffect
  BY DEF FlagInv, HandlerInv, AcknowledgedWasInEffect, InHandler, Clients
<1> QED
  BY <1>1, InitFlagInv, NextFlagInv, PTL DEF Spec

(* A stored flag is on for exactly the buckets below its percentage        *)
(* rounded up, however finely percentages are divided.                     *)
THEOREM RolloutIsExact == Spec => []RolloutReachesItsShare
<1>1. TypeOK => RolloutReachesItsShare
  <2> SUFFICES ASSUME TypeOK, NEW n \in Names, flags[n] # NoFlag, NEW b \in Buckets
               PROVE  evaluate_flag(flags[n].enabled, flags[n].rollout_pct, b) <=>
                        flags[n].enabled /\ b < WholePercent(flags[n].rollout_pct)
    BY DEF RolloutReachesItsShare
  <2>1. flags[n].enabled \in BOOLEAN /\ flags[n].rollout_pct \in Percentages
    BY DEF TypeOK, Flag
  <2> QED
    BY <2>1, ShortcutsAgree, RoundingUp
<1> QED
  BY <1>1, TypeCorrect, PTL

-----------------------------------------------------------------------------
(* How a step changes a flag that is stored. *)
LEMMA StepOfFlag ==
  ASSUME FlagInv, [Next]_vars, NEW n \in Names, flags[n] # NoFlag, flags'[n] # flags[n]
  PROVE  /\ flags[n] \in Flag /\ flags'[n] \in Flag
         /\ \E c \in Writers :
              /\ UpdateCommit(c) /\ req[c].name = n
              /\ req[c].patch \in Patches \cup {Disable} /\ req[c].snap \in Flag
              /\ SatisfiesNotNull(req[c].patch)
              /\ flags'[n] = UpdatedFlag(flags[n], req[c].snap, req[c].patch)
<1>0. TypeOK /\ TypeOK' /\ HandlerInv
  BY NextFlagInv DEF FlagInv
<1>1. ASSUME NEW c \in Writers, CreateCommit(c) PROVE FALSE
  <2>1. req[c].name \in Names /\ flags[req[c].name] = NoFlag
    BY <1>0, <1>1 DEF CreateCommit, InHandler, TypeOK, Clients, Request
  <2>2. flags' = [flags EXCEPT ![req[c].name] = req[c].patch]
    BY <1>1 DEF CreateCommit, Commit
  <2> QED
    BY <1>0, <2>1, <2>2 DEF TypeOK
<1>2. PICK c \in Writers : UpdateCommit(c)
  <2>1. \A c \in Clients : ReadRequest(c) \/ DbError(c) => UNCHANGED flags
    BY DEF ReadRequest, NotFound, ReadFlag, EvaluateFlag, Answer, DbError
  <2>2. \A c \in Writers : WriteRequest(c) => UNCHANGED flags
    BY DEF WriteRequest, CreateConflict, DeleteLoad, CreateLoad, UpdateLoad, Load, Answer
  <2>3. \A c \in Writers : CreateIntegrityError(c) \/ UpdateIntegrityError(c) \/ Refresh(c)
                             => UNCHANGED flags
    BY DEF CreateIntegrityError, UpdateIntegrityError, Refresh
  <2>4. Crash \/ UNCHANGED vars => UNCHANGED flags
    BY DEF Crash, vars
  <2> QED
    BY <1>1, <2>1, <2>2, <2>3, <2>4 DEF Next, Handler
<1>3. /\ req[c].name \in Names
      /\ req[c].patch \in Patches \cup {Disable} /\ req[c].snap \in Flag
      /\ SatisfiesNotNull(req[c].patch)
  BY <1>0, <1>2 DEF UpdateCommit, InHandler, TypeOK, HandlerInv, Clients, Request
<1>4. flags' = [flags EXCEPT ![req[c].name] =
                  UpdatedFlag(flags[req[c].name], req[c].snap, req[c].patch)]
  BY <1>2 DEF UpdateCommit, Commit
<1>5. req[c].name = n
  BY <1>0, <1>3, <1>4 DEF TypeOK
<1>6. flags'[n] = UpdatedFlag(flags[n], req[c].snap, req[c].patch)
  BY <1>0, <1>4, <1>5 DEF TypeOK
<1>7. flags[n] \in Flag
  BY <1>0 DEF TypeOK
<1>8. flags'[n] \in Flag
  BY <1>3, <1>6, <1>7, UpdatedFlagType
<1> QED
  BY <1>2, <1>3, <1>5, <1>6, <1>7, <1>8

(* No commit, however stale, changes a column its client did not ask to    *)
(* change from what it saw.                                                *)
THEOREM NoUnaskedChange == Spec => ColumnsChangeKnowingly
<1>1. ASSUME FlagInv, [Next]_vars, NEW n \in Names, NEW f \in Fields,
             flags[n] # NoFlag, flags'[n][f] # flags[n][f]
      PROVE  \E c \in Writers :
               /\ InHandler(c, {"PUT", "DELETE"}, "loaded")
               /\ req[c].name = n
               /\ f \in DOMAIN req[c].patch
               /\ flags'[n][f] = req[c].patch[f]
               /\ flags'[n][f] # req[c].snap[f]
  <2>1. flags'[n] # flags[n]
    BY <1>1
  <2>2. /\ flags[n] \in Flag
        /\ \E c \in Writers :
             /\ UpdateCommit(c) /\ req[c].name = n
             /\ req[c].patch \in Patches \cup {Disable} /\ req[c].snap \in Flag
             /\ SatisfiesNotNull(req[c].patch)
             /\ flags'[n] = UpdatedFlag(flags[n], req[c].snap, req[c].patch)
    BY <1>1, <2>1, StepOfFlag
  <2>3. PICK c \in Writers :
             /\ UpdateCommit(c) /\ req[c].name = n
             /\ req[c].patch \in Patches \cup {Disable} /\ req[c].snap \in Flag
             /\ SatisfiesNotNull(req[c].patch)
             /\ flags'[n] = UpdatedFlag(flags[n], req[c].snap, req[c].patch)
    BY <2>2
  <2>4. flags'[n][f] = UpdatedColumn(flags[n], req[c].snap, req[c].patch, f)
    BY <2>2, <2>3, UpdatedFlagType
  <2> QED
    BY <1>1, <2>3, <2>4 DEF UpdatedColumn, UpdateCommit
<1>2. FlagInv /\ [Next]_vars => [ColumnsStep]_vars
  BY <1>1 DEF ColumnsStep
<1> QED
  BY <1>2, InitFlagInv, NextFlagInv, PTL DEF Spec, ColumnsChangeKnowingly

(* Agents gain and lose a flag only with its switch or its percentage, for *)
(* any hash.                                                               *)
THEOREM NoReshuffle == Spec => AgentsMoveWithRollout
<1>1. ASSUME FlagInv, [Next]_vars PROVE AgentsStep
  <2> SUFFICES ASSUME NEW n \in Names, NEW a \in Agents, flags[n] # NoFlag,
                      OnFor(flags[n], n, a) # OnFor(flags'[n], n, a)
               PROVE  /\ OnFor(flags[n], n, a) /\ ~ OnFor(flags'[n], n, a) =>
                           \/ ~ flags'[n].enabled
                           \/ flags'[n].rollout_pct < flags[n].rollout_pct
                      /\ ~ OnFor(flags[n], n, a) /\ OnFor(flags'[n], n, a) =>
                           \/ ~ flags[n].enabled
                           \/ flags'[n].rollout_pct > flags[n].rollout_pct
    BY DEF AgentsStep
  <2>1. flags[n] \in Flag /\ flags'[n] \in Flag
    BY <1>1, StepOfFlag
  <2>2. Bucket[a][n] \in Buckets
    BY FlagConstantsOK
  <2>3. Bucket[a][n] * Parts \in Nat
    BY <2>2, PartsOK, SMT DEF Buckets
  <2>4. \A flag \in Flag : /\ flag.enabled \in BOOLEAN /\ flag.rollout_pct \in Nat
                           /\ flag.rollout_pct \in Percentages
    BY PartsOK DEF Flag, Percentages
  <2>5. \A flag \in Flag : OnFor(flag, n, a) <=>
                             flag.enabled /\ Bucket[a][n] * Parts < flag.rollout_pct
    BY <2>2, <2>4, ShortcutsAgree DEF OnFor
  <2> QED
    BY <2>1, <2>3, <2>4, <2>5
<1>2. FlagInv /\ [Next]_vars => [AgentsStep]_vars
  BY <1>1
<1> QED
  BY <1>2, InitFlagInv, NextFlagInv, PTL DEF Spec, AgentsMoveWithRollout

-----------------------------------------------------------------------------
(* The kill switch. *)

(* A step after which every flag that was disabled still is, no client has *)
(* newly become an enabling PUT, and the two histories have not grown,     *)
(* preserves KillInv.                                                      *)
LEMMA KillKept ==
  ASSUME FlagInv, KillInv,
         off' \subseteq off, quiet' \subseteq quiet,
         \A n \in Names : flags[n] # NoFlag /\ ~ flags[n].enabled =>
                            flags'[n] # NoFlag /\ ~ flags'[n].enabled,
         \A n \in off' : n \notin Reenabling',
         \A c \in quiet' : /\ req'[c] = req[c] /\ req[c].name \notin Reenabling',
         \A c \in Clients : resp'[c].killed => ~ resp'[c].on
  PROVE  KillInv'
<1>1. \A n \in off : flags[n] # NoFlag /\ ~ flags[n].enabled /\ n \in Names
  BY DEF KillInv, KilledFlagStaysOff, FlagInv, TypeOK
<1>2. \A c \in quiet : /\ c \in Clients /\ req[c] # Idle /\ req[c].op = "DELETE"
                       /\ req[c].name \in Names /\ flags[req[c].name] # NoFlag
  BY DEF KillInv, FlagInv, TypeOK, HandlerInv, Request
<1>3. KilledFlagStaysOff'
  BY <1>1 DEF KilledFlagStaysOff
<1>4. ASSUME NEW c \in quiet'
      PROVE  /\ req'[c] # Idle /\ req'[c].op = "DELETE"
             /\ req[c].name \notin Reenabling'
             /\ req'[c].at = "saved" \/ ~ req'[c].snap.enabled => ~ flags'[req'[c].name].enabled
  BY <1>2, <1>4 DEF KillInv
<1>5. \A c \in quiet' : req'[c].name \notin Reenabling'
  BY <1>4
<1> QED
  BY <1>3, <1>4, <1>5 DEF KillInv

(* A step in which no client becomes an enabling PUT leaves none where     *)
(* there was none.                                                         *)
LEMMA NoNewEnabling ==
  ASSUME \A d \in Writers : \/ req'[d] = req[d]
                            \/ req'[d] = Idle
                            \/ req'[d].op # "PUT"
                            \/ req'[d].at # "loaded"
                            \/ ~ Sends(req'[d].patch, "enabled", TRUE)
  PROVE  Reenabling' \subseteq Reenabling
BY DEF Reenabling, Enabling, InHandler, Sends

LEMMA InitKillInv == Init => KillInv
BY DEF Init, KillInv, KilledFlagStaysOff, NoResponse

(* Answering a request preserves KillInv, if the answer does.              *)
LEMMA RespondKeepsKill ==
  ASSUME FlagInv, KillInv, NEW c \in Clients,
         req' = [req EXCEPT ![c] = Idle], quiet' = quiet \ {c},
         UNCHANGED flags, off' \subseteq off,
         \A d \in Clients : resp'[d].killed => ~ resp'[d].on
  PROVE  KillInv'
<1>1. \A d \in Clients : req'[d] = req[d] \/ req'[d] = Idle
  BY DEF FlagInv, TypeOK
<1>2. Reenabling' \subseteq Reenabling
  BY <1>1, NoNewEnabling DEF Clients
<1>3. \A d \in quiet' : req'[d] = req[d] /\ req[d].name \notin Reenabling
  BY DEF FlagInv, TypeOK, KillInv
<1>4. \A n \in off' : n \notin Reenabling'
  BY <1>2 DEF KillInv
<1>5. \A d \in quiet' : req[d].name \notin Reenabling'
  BY <1>2, <1>3
<1> QED
  BY <1>3, <1>4, <1>5, KillKept

(* What loading a flag does to what KillInv speaks of. *)
LEMMA LoadEffects ==
  ASSUME FlagInv, KillInv, NEW c \in Writers, NEW n \in Names,
         NEW op \in {"POST", "PUT", "DELETE"}, NEW p, Load(c, op, n, p)
  PROVE  /\ c \notin quiet /\ UNCHANGED flags
         /\ req'[c] = [op |-> op, at |-> "loaded", name |-> n, patch |-> p, snap |-> flags[n]]
         /\ \A d \in Clients \ {c} : req'[d] = req[d]
         /\ \A d \in Clients : resp'[d].killed => ~ resp'[d].on
         /\ op # "PUT" \/ ~ Sends(p, "enabled", TRUE) => Reenabling' \subseteq Reenabling
         /\ Reenabling' \subseteq Reenabling \cup {n}
<1>0. TypeOK /\ c \in Clients /\ \A d \in Clients : resp[d].killed => ~ resp[d].on
  BY DEF FlagInv, KillInv, KilledFlagStaysOff, Clients
<1>1. /\ req[c] = Idle /\ UNCHANGED flags
      /\ req'[c] = [op |-> op, at |-> "loaded", name |-> n, patch |-> p, snap |-> flags[n]]
      /\ \A d \in Clients \ {c} : req'[d] = req[d]
  BY <1>0 DEF Load, TypeOK
<1>2. \A d \in Clients : resp'[d].killed => ~ resp'[d].on
  BY <1>0 DEF Load, TypeOK, NoResponse
<1>3. c \notin quiet
  BY <1>1 DEF KillInv
<1>4. req'[c].op = op /\ req'[c].name = n /\ req'[c].patch = p
  BY <1>1
<1>5. \A d \in Writers \ {c} : req'[d] = req[d]
  BY <1>1 DEF Clients
<1>6. op # "PUT" \/ ~ Sends(p, "enabled", TRUE) => Reenabling' \subseteq Reenabling
  BY <1>4, <1>5 DEF Reenabling, Enabling, InHandler, Sends
<1>7. Reenabling' \subseteq Reenabling \cup {n}
  BY <1>4, <1>5 DEF Reenabling, Enabling, InHandler, Sends
<1> QED
  BY <1>1, <1>2, <1>3, <1>6, <1>7

(* A step preserves KillInv. *)
LEMMA NextKillInv == FlagInv /\ KillInv /\ [Next]_vars => KillInv'
<1> SUFFICES ASSUME FlagInv, KillInv, [Next]_vars PROVE KillInv'
  OBVIOUS
<1>0. /\ TypeOK /\ HandlerInv /\ KilledFlagStaysOff
      /\ \A d \in Clients : resp[d].killed => ~ resp[d].on
  BY DEF FlagInv, KillInv, KilledFlagStaysOff
<1>1. ASSUME NEW c \in Clients, ReadRequest(c)
      PROVE  KillInv'
  <2>1. PICK n \in Names : NotFound(c, n) \/ ReadFlag(c, n) \/ \E a \in Agents : EvaluateFlag(c, n, a)
    BY <1>1 DEF ReadRequest
  <2>2. CASE NotFound(c, n)
    BY <1>0, <2>2, RespondKeepsKill DEF NotFound, Answer, Respond, TypeOK
  <2>3. CASE ReadFlag(c, n)
    BY <1>0, <2>3, RespondKeepsKill DEF ReadFlag, Answer, Respond, TypeOK
  <2>4. ASSUME NEW a \in Agents, EvaluateFlag(c, n, a) PROVE KillInv'
    <3>1. n \in off => ~ OnFor(flags[n], n, a)
      BY <1>0 DEF KilledFlagStaysOff, OnFor, evaluate_flag
    <3>2. resp' = [resp EXCEPT ![c] = [status |-> 200, on |-> OnFor(flags[n], n, a),
                                       killed |-> n \in off]]
      BY <2>4 DEF EvaluateFlag, Answer, Respond
    <3>3. \A d \in Clients : resp'[d].killed => ~ resp'[d].on
      BY <1>0, <3>1, <3>2 DEF TypeOK
    <3> QED
      BY <2>4, <3>3, RespondKeepsKill DEF EvaluateFlag, Answer, Respond
  <2> QED
    BY <2>1, <2>2, <2>3, <2>4
<1>2. ASSUME NEW c \in Clients, DbError(c)
      PROVE  KillInv'
  BY <1>0, <1>2, RespondKeepsKill DEF DbError, Respond, TypeOK
<1>3. ASSUME NEW c \in Writers, WriteRequest(c)
      PROVE  KillInv'
  <2>0. c \in Clients
    BY DEF Clients
  <2>1. PICK n \in Names : \/ CreateConflict(c, n) \/ DeleteLoad(c, n)
                           \/ \E p \in Payloads : CreateLoad(c, n, p)
                           \/ \E p \in Patches : UpdateLoad(c, n, p)
    BY <1>3 DEF WriteRequest
  <2>2. CASE CreateConflict(c, n)
    BY <1>0, <2>0, <2>2, RespondKeepsKill DEF CreateConflict, Answer, Respond, TypeOK
  <2>3. CASE DeleteLoad(c, n)
    <3>1. Load(c, "DELETE", n, Disable) /\ UNCHANGED off /\ flags[n] # NoFlag
      BY <2>3 DEF DeleteLoad
    <3>2. quiet' = IF n \notin Reenabling THEN quiet \cup {c} ELSE quiet
      BY <2>3 DEF DeleteLoad, Reenabling
    <3>3. Reenabling' \subseteq Reenabling
      BY <3>1, LoadEffects
    <3>4. /\ req'[c] # Idle /\ req'[c].op = "DELETE" /\ req'[c].name = n
          /\ req'[c].at = "loaded" /\ req'[c].snap = flags[n] /\ UNCHANGED flags
          /\ \A d \in Clients \ {c} : req'[d] = req[d]
          /\ c \notin quiet
          /\ \A d \in Clients : resp'[d].killed => ~ resp'[d].on
      <4>1. TypeOK'
        BY NextFlagInv DEF FlagInv
      <4>2. req'[c] \in Request \cup {Idle} /\ flags[n] \in Flag
        BY <1>0, <2>0, <3>1, <4>1 DEF TypeOK
      <4>3. [op |-> "DELETE", at |-> "loaded", name |-> n, patch |-> Disable, snap |-> flags[n]]
              \in Request
        BY <4>2 DEF Request
      <4>4. req'[c] = [op |-> "DELETE", at |-> "loaded", name |-> n,
                       patch |-> Disable, snap |-> flags[n]]
        BY <1>0, <2>0, <3>1 DEF Load, TypeOK
      <4>5. c \notin quiet /\ UNCHANGED flags
        BY <3>1, LoadEffects
      <4>6. /\ \A d \in Clients \ {c} : req'[d] = req[d]
            /\ \A d \in Clients : resp'[d].killed => ~ resp'[d].on
        BY <3>1, LoadEffects
      <4>7. req'[c] # Idle
        BY <4>3, <4>4, FlagConstantsOK
      <4> QED
        BY <4>4, <4>5, <4>6, <4>7
    <3>5. KilledFlagStaysOff' /\ \A m \in off' : m \notin Reenabling'
      BY <1>0, <3>1, <3>3, <3>4 DEF KilledFlagStaysOff, KillInv
    <3>6. ASSUME NEW d \in quiet', d # c
          PROVE  /\ req'[d] # Idle /\ req'[d].op = "DELETE"
                 /\ req[d].name \notin Reenabling' /\ req'[d] = req[d]
                 /\ req'[d].at = "saved" \/ ~ req'[d].snap.enabled => ~ flags'[req'[d].name].enabled
      <4>1. d \in quiet /\ d \in Clients
        BY <1>0, <3>2, <3>6 DEF TypeOK
      <4> QED
        BY <3>3, <3>4, <3>6, <4>1 DEF KillInv
    <3>7. c \in quiet' => n \notin Reenabling'
      BY <3>2, <3>3, <3>4
    <3>8. \A d \in quiet' : req'[d].name \notin Reenabling'
      BY <3>4, <3>6, <3>7
    <3> QED
      BY <3>4, <3>5, <3>6, <3>8 DEF KillInv
  <2>4. ASSUME NEW p \in Payloads, CreateLoad(c, n, p) PROVE KillInv'
    <3>1. Load(c, "POST", n, p) /\ UNCHANGED <<quiet, off>>
      BY <2>4 DEF CreateLoad
    <3>2. /\ c \notin quiet /\ UNCHANGED flags
          /\ \A d \in Clients \ {c} : req'[d] = req[d]
          /\ \A d \in Clients : resp'[d].killed => ~ resp'[d].on
          /\ Reenabling' \subseteq Reenabling
      BY <3>1, LoadEffects
    <3>3. \A m \in off' : m \notin Reenabling'
      BY <3>1, <3>2 DEF KillInv
    <3>4. \A d \in quiet' : req'[d] = req[d] /\ req[d].name \notin Reenabling'
      BY <1>0, <3>1, <3>2 DEF KillInv, TypeOK
    <3> QED
      BY <3>1, <3>2, <3>3, <3>4, KillKept
  <2>5. ASSUME NEW p \in Patches, UpdateLoad(c, n, p) PROVE KillInv'
    <3>1. Load(c, "PUT", n, p)
      BY <2>5 DEF UpdateLoad
    <3>2. /\ c \notin quiet /\ UNCHANGED flags
          /\ \A d \in Clients \ {c} : req'[d] = req[d]
          /\ \A d \in Clients : resp'[d].killed => ~ resp'[d].on
          /\ ~ Sends(p, "enabled", TRUE) => Reenabling' \subseteq Reenabling
          /\ Reenabling' \subseteq Reenabling \cup {n}
      BY <3>1, LoadEffects
    <3>3. CASE Sends(p, "enabled", TRUE)
      <4>1. quiet' = {d \in quiet : req[d].name # n} /\ off' = off \ {n}
        BY <2>5, <3>3 DEF UpdateLoad
      <4>2. \A m \in off' : m \notin Reenabling'
        BY <3>2, <4>1 DEF KillInv
      <4>3. \A d \in quiet' : req'[d] = req[d] /\ req[d].name \notin Reenabling'
        BY <1>0, <3>2, <4>1 DEF KillInv, TypeOK
      <4> QED
        BY <3>2, <4>1, <4>2, <4>3, KillKept
    <3>4. CASE ~ Sends(p, "enabled", TRUE)
      <4>1. UNCHANGED <<quiet, off>>
        BY <2>5, <3>4 DEF UpdateLoad
      <4>2. \A m \in off' : m \notin Reenabling'
        BY <3>2, <3>4, <4>1 DEF KillInv
      <4>3. \A d \in quiet' : req'[d] = req[d] /\ req[d].name \notin Reenabling'
        BY <1>0, <3>2, <3>4, <4>1 DEF KillInv, TypeOK
      <4> QED
        BY <3>2, <4>1, <4>2, <4>3, KillKept
    <3> QED
      BY <3>3, <3>4
  <2> QED
    BY <2>1, <2>2, <2>3, <2>4, <2>5
<1>4. ASSUME NEW c \in Writers, NEW new \in Flag, InHandler(c, {"POST", "PUT", "DELETE"}, "loaded"),
             Commit(c, new)
      PROVE  /\ c \in Clients /\ req[c].name \in Names
             /\ \A m \in Names : flags'[m] = IF m = req[c].name THEN new ELSE flags[m]
             /\ req'[c] = [req[c] EXCEPT !.at = "saved"]
             /\ \A d \in Clients \ {c} : req'[d] = req[d]
             /\ Reenabling' \subseteq Reenabling
             /\ UNCHANGED <<resp, quiet, off>>
             /\ req'[c].at = "saved" /\ req'[c] # Idle
             /\ req'[c].op = req[c].op /\ req'[c].name = req[c].name
  <2>1. c \in Clients /\ req[c] \in Request
    BY <1>0, <1>4 DEF Clients, InHandler, TypeOK
  <2>2. /\ req[c].name \in Names /\ UNCHANGED <<resp, quiet, off>>
        /\ flags' = [flags EXCEPT ![req[c].name] = new]
        /\ req' = [req EXCEPT ![c].at = "saved"]
    BY <1>4, <2>1 DEF Commit, Request
  <2>3. /\ \A m \in Names : flags'[m] = IF m = req[c].name THEN new ELSE flags[m]
        /\ req'[c] = [req[c] EXCEPT !.at = "saved"]
        /\ \A d \in Clients \ {c} : req'[d] = req[d]
    BY <1>0, <2>1, <2>2 DEF TypeOK
  <2>4. /\ req'[c].at = "saved" /\ req'[c] \in Request
        /\ req'[c].op = req[c].op /\ req'[c].name = req[c].name
    BY <2>1, <2>3 DEF Request
  <2>5. Reenabling' \subseteq Reenabling
    BY <2>3, <2>4, NoNewEnabling DEF Clients
  <2> QED
    BY <2>1, <2>2, <2>3, <2>4, <2>5, FlagConstantsOK
<1>5. ASSUME NEW c \in Writers, CreateCommit(c)
      PROVE  KillInv'
  <2> DEFINE n == req[c].name
  <2>1. /\ InHandler(c, {"POST", "PUT", "DELETE"}, "loaded") /\ req[c].op = "POST"
        /\ req[c] # Idle /\ flags[n] = NoFlag /\ Commit(c, req[c].patch)
    BY <1>5 DEF CreateCommit, InHandler
  <2>2. req[c].patch \in Flag
    BY <1>0, <2>1, FlagConstantsOK DEF HandlerInv, Clients
  <2>3. /\ c \in Clients
        /\ \A m \in Names : m # n => flags'[m] = flags[m]
        /\ \A d \in Clients \ {c} : req'[d] = req[d]
        /\ Reenabling' \subseteq Reenabling
        /\ UNCHANGED <<resp, quiet, off>>
    BY <1>4, <2>1, <2>2
  <2>4. c \notin quiet
    BY <2>1 DEF KillInv
  <2>5. \A m \in off' : m \notin Reenabling'
    BY <2>3 DEF KillInv
  <2>6. \A d \in quiet' : req'[d] = req[d] /\ req[d].name \notin Reenabling'
    BY <1>0, <2>3, <2>4 DEF KillInv, TypeOK
  <2>7. \A m \in Names : flags[m] # NoFlag => flags'[m] = flags[m]
    BY <2>1, <2>3
  <2> QED
    BY <1>0, <2>3, <2>5, <2>6, <2>7, KillKept
<1>6. ASSUME NEW c \in Writers, UpdateCommit(c)
      PROVE  KillInv'
  <2> DEFINE n == req[c].name
             p == req[c].patch
             current == flags[n]
             new == UpdatedFlag(current, req[c].snap, p)
  <2>1. /\ InHandler(c, {"POST", "PUT", "DELETE"}, "loaded") /\ req[c].op \in {"PUT", "DELETE"}
        /\ req[c] # Idle /\ req[c].at = "loaded" /\ SatisfiesNotNull(p) /\ Commit(c, new)
    BY <1>6 DEF UpdateCommit, InHandler
  <2>2. /\ p \in Patches \cup {Disable} /\ req[c].snap \in Flag /\ current \in Flag
        /\ n \in Names /\ current # NoFlag
    <3>1. n \in Names
      BY <1>0, <2>1 DEF TypeOK, Clients, Request
    <3> QED
      BY <1>0, <2>1, <3>1 DEF TypeOK, HandlerInv, Clients
  <2>3. new \in Flag /\ new.enabled = UpdatedColumn(current, req[c].snap, p, "enabled")
    BY <2>1, <2>2, UpdatedFlagType DEF Fields
  <2> HIDE DEF new
  <2>4. /\ c \in Clients
        /\ \A m \in Names : flags'[m] = IF m = n THEN new ELSE flags[m]
        /\ \A d \in Clients \ {c} : req'[d] = req[d]
        /\ Reenabling' \subseteq Reenabling
        /\ UNCHANGED <<resp, quiet, off>>
        /\ req'[c] # Idle /\ req'[c].op = req[c].op /\ req'[c].name = n
    BY <1>4, <2>1, <2>3
  <2>5. n \notin Reenabling /\ ~ current.enabled => ~ new.enabled
    <3>1. CASE Sends(p, "enabled", TRUE)
      <4>1. CASE req[c].op = "PUT"
        BY <2>1, <2>2, <3>1, <4>1 DEF Reenabling, Enabling, InHandler, Sends
      <4>2. CASE req[c].op = "DELETE"
        <5>1. p = Disable
          BY <1>0, <2>1, <2>4, <4>2 DEF HandlerInv
        <5> QED
          BY <3>1, <5>1 DEF Sends, Disable
      <4> QED
        BY <2>1, <4>1, <4>2
    <3>2. CASE ~ Sends(p, "enabled", TRUE)
      <4>1. "enabled" \in DOMAIN p => p["enabled"] = FALSE
        BY <2>1, <2>2, <3>2, PatchFields DEF SatisfiesNotNull, Sends
      <4> QED
        BY <2>3, <4>1 DEF UpdatedColumn
    <3> QED
      BY <3>1, <3>2
  <2>6. c \in quiet => ~ new.enabled
    <3> SUFFICES ASSUME c \in quiet PROVE ~ new.enabled
      OBVIOUS
    <3>1. /\ req[c].op = "DELETE"
          /\ ~ req[c].snap.enabled => ~ current.enabled
      BY DEF KillInv
    <3>2. p = Disable
      BY <1>0, <2>1, <2>4, <3>1 DEF HandlerInv
    <3>3. new.enabled = IF req[c].snap.enabled # FALSE THEN FALSE ELSE current.enabled
      BY <2>3, <3>2 DEF UpdatedColumn, Disable
    <3> QED
      BY <2>2, <3>1, <3>3 DEF Flag
  <2>7. ASSUME NEW m \in Names, flags[m] # NoFlag, ~ flags[m].enabled, m \notin Reenabling
        PROVE  flags'[m] # NoFlag /\ ~ flags'[m].enabled
    BY <2>3, <2>4, <2>5, <2>7, FlagConstantsOK
  <2>8. KilledFlagStaysOff' /\ \A m \in off' : m \notin Reenabling'
    <3>1. \A m \in off' : m \in Names /\ flags[m] # NoFlag /\ ~ flags[m].enabled /\ m \notin Reenabling
      BY <1>0, <2>4 DEF KilledFlagStaysOff, KillInv, TypeOK
    <3> QED
      BY <1>0, <2>4, <2>7, <3>1 DEF KilledFlagStaysOff
  <2>9. ASSUME NEW d \in quiet'
        PROVE  /\ req'[d] # Idle /\ req'[d].op = "DELETE" /\ req'[d].name = req[d].name
               /\ req[d].name \notin Reenabling'
               /\ req'[d].at = "saved" \/ ~ req'[d].snap.enabled => ~ flags'[req'[d].name].enabled
    <3>1. /\ d \in quiet /\ d \in Clients /\ req[d] # Idle /\ req[d].op = "DELETE"
          /\ req[d].name \notin Reenabling
          /\ req[d].at = "saved" \/ ~ req[d].snap.enabled => ~ flags[req[d].name].enabled
      BY <1>0, <2>4 DEF KillInv, TypeOK
    <3>2. CASE d = c
      BY <2>2, <2>4, <2>6, <3>1, <3>2
    <3>3. CASE d # c
      <4>1. req'[d] = req[d] /\ req[d].name \in Names /\ flags[req[d].name] # NoFlag
        BY <1>0, <2>4, <3>1, <3>3 DEF TypeOK, HandlerInv, Request
      <4>2. ~ flags[req[d].name].enabled => ~ flags'[req[d].name].enabled
        BY <2>7, <3>1, <4>1
      <4> QED
        BY <2>4, <3>1, <4>1, <4>2
    <3> QED
      BY <3>2, <3>3
  <2>10. \A d \in quiet' : req'[d].name \notin Reenabling'
    BY <2>9
  <2> QED
    BY <2>8, <2>9, <2>10 DEF KillInv
<1>7. ASSUME NEW c \in Writers, CreateIntegrityError(c) \/ UpdateIntegrityError(c)
      PROVE  KillInv'
  <2>0. c \in Clients
    BY DEF Clients
  <2>1. CASE CreateIntegrityError(c)
    BY <1>0, <2>0, <2>1, RespondKeepsKill DEF CreateIntegrityError, Respond, TypeOK
  <2>2. CASE UpdateIntegrityError(c)
    BY <1>0, <2>0, <2>2, RespondKeepsKill DEF UpdateIntegrityError, Respond, TypeOK
  <2> QED
    BY <1>7, <2>1, <2>2
<1>8. ASSUME NEW c \in Writers, Refresh(c)
      PROVE  KillInv'
  <2>0. c \in Clients /\ req[c] # Idle /\ req[c].at = "saved"
    BY <1>8 DEF Clients, Refresh
  <2>1. /\ req' = [req EXCEPT ![c] = Idle] /\ quiet' = quiet \ {c} /\ UNCHANGED flags
        /\ off' = IF req[c].op = "DELETE" /\ c \in quiet THEN off \cup {req[c].name} ELSE off
    BY <1>8 DEF Refresh, Respond
  <2>2. \A d \in Clients : resp'[d].killed => ~ resp'[d].on
    BY <1>0, <1>8 DEF Refresh, Respond, TypeOK
  <2>3. \A d \in Clients : req'[d] = req[d] \/ req'[d] = Idle
    BY <1>0, <2>1 DEF TypeOK
  <2>4. Reenabling' \subseteq Reenabling
    BY <2>3, NoNewEnabling DEF Clients
  <2>5. c \in quiet => /\ flags[req[c].name] # NoFlag /\ ~ flags[req[c].name].enabled
                       /\ req[c].name \notin Reenabling
    BY <1>0, <2>0 DEF KillInv, HandlerInv
  <2>6. \A m \in off' : flags[m] # NoFlag /\ ~ flags[m].enabled /\ m \notin Reenabling
    BY <1>0, <2>1, <2>5 DEF KilledFlagStaysOff, KillInv
  <2>7. \A d \in quiet' : d \in quiet /\ req'[d] = req[d]
    BY <1>0, <2>1 DEF TypeOK
  <2>8. KilledFlagStaysOff' /\ \A m \in off' : m \notin Reenabling'
    BY <2>1, <2>2, <2>4, <2>6 DEF KilledFlagStaysOff
  <2>9. ASSUME NEW d \in quiet'
        PROVE  /\ req'[d] # Idle /\ req'[d].op = "DELETE"
               /\ req[d].name \notin Reenabling'
               /\ req'[d].at = "saved" \/ ~ req'[d].snap.enabled => ~ flags'[req'[d].name].enabled
    BY <2>1, <2>4, <2>7, <2>9 DEF KillInv
  <2>10. \A d \in quiet' : req'[d].name \notin Reenabling'
    BY <2>7, <2>9
  <2> QED
    BY <2>8, <2>9, <2>10 DEF KillInv
<1>9. CASE Crash
  <2>1. /\ \A d \in Clients : req'[d] = Idle
        /\ quiet' = {} /\ UNCHANGED <<flags, off>>
    BY <1>9 DEF Crash
  <2>2. \A d \in Clients : resp'[d].killed => ~ resp'[d].on
    BY <1>0, <1>9 DEF Crash, NoResponse
  <2>3. \A m \in off' : m \notin Reenabling'
    BY <2>1 DEF Reenabling, Enabling, InHandler, Clients
  <2> QED
    BY <2>1, <2>2, <2>3, KillKept
<1>10. CASE UNCHANGED vars
  BY <1>10 DEF vars, KillInv, KilledFlagStaysOff, Reenabling, Enabling, InHandler
<1> QED
  BY <1>1, <1>2, <1>3, <1>5, <1>6, <1>7, <1>8, <1>9, <1>10 DEF Next, Handler

(* A flag that was switched off stays off, and evaluates as off, until a   *)
(* PUT that enables it loads it.                                           *)
THEOREM KilledStaysOff == Spec => []KilledFlagStaysOff
<1>1. KillInv => KilledFlagStaysOff
  BY DEF KillInv
<1> QED
  BY <1>1, InitFlagInv, NextFlagInv, InitKillInv, NextKillInv, PTL DEF Spec
-----------------------------------------------------------------------------
(* The router implements the board. *)

(* A request of one client is nothing to the calls of the others. *)
LEMMA OtherCalls ==
  ASSUME NEW c \in Clients, NEW r, TypeOK, req' = [req EXCEPT ![c] = r]
  PROVE  /\ \A d \in Clients \ {c} : CallOf(d)' = CallOf(d)
         /\ req'[c] = r
BY DEF TypeOK, CallOf, Waiting

LEMMA OtherAnswers ==
  ASSUME NEW c \in Clients, NEW r, TypeOK, resp' = [resp EXCEPT ![c] = r]
  PROVE  /\ \A d \in Clients \ {c} : AnswerOf(d)' = AnswerOf(d)
         /\ resp'[c] = r
BY DEF TypeOK, AnswerOf

(* A call in progress is told from none. *)
LEMMA CallInProgress ==
  ASSUME FlagInv, NEW c \in Clients
  PROVE  CallOf(c) = Idle <=> req[c] = Idle
<1>1. CASE req[c] # Idle
  <2>1. req[c] \in Request /\ DOMAIN req[c].patch \subseteq Fields
    BY <1>1, PayloadFields, PatchFields DEF FlagInv, TypeOK, HandlerInv
  <2>2. Waiting(c) \in SUBSET Fields
    BY <2>1 DEF Waiting
  <2>3. CallOf(c) \in Calls
    BY <1>1, <2>1, <2>2 DEF CallOf, Calls, Request
  <2> QED
    BY <1>1, <2>3, FlagConstantsOK
<1> QED
  BY <1>1 DEF CallOf

(* The response to c ends its call: with success only if nothing is left   *)
(* to write.                                                               *)
LEMMA RespondMaps ==
  ASSUME FlagInv, NEW c \in Clients,
         req' = [req EXCEPT ![c] = Idle], UNCHANGED flags,
         resp'[c].status # 0, \A d \in Clients \ {c} : resp'[d] = resp[d],
         resp'[c].status \in {200, 201} => req[c] = Idle \/ req[c].at = "saved"
  PROVE  Board!Next
<1>0. TypeOK
  BY DEF FlagInv
<1>1. /\ \A d \in Clients \ {c} : CallOf(d)' = CallOf(d) /\ AnswerOf(d)' = AnswerOf(d)
      /\ req'[c] = Idle
  <2>1. \A d \in Clients \ {c} : CallOf(d)' = CallOf(d)
    BY <1>0, OtherCalls
  <2>2. \A d \in Clients \ {c} : AnswerOf(d)' = AnswerOf(d)
    BY DEF AnswerOf
  <2>3. req'[c] = Idle
    BY <1>0 DEF TypeOK
  <2> QED
    BY <2>1, <2>2, <2>3
<1>2. CallOf(c)' = Idle
  BY <1>1 DEF CallOf
<1>3. AnswerOf(c)' = IF resp'[c].status \in {200, 201} THEN "ok" ELSE "failed"
  BY <1>1 DEF AnswerOf
<1>4. CallOf(c) = Idle <=> req[c] = Idle
  BY CallInProgress
<1>5. [d \in Clients |-> CallOf(d)]' = [[d \in Clients |-> CallOf(d)] EXCEPT ![c] = Idle]
  BY <1>1, <1>2
<1>6. [d \in Clients |-> AnswerOf(d)]' =
        [[d \in Clients |-> AnswerOf(d)] EXCEPT ![c] = AnswerOf(c)']
  BY <1>1
<1>7. CASE req[c] = Idle
  <2>1. [d \in Clients |-> CallOf(d)]' = [d \in Clients |-> CallOf(d)]
    BY <1>4, <1>5, <1>7
  <2>2. Board!Ask(c)
    BY <1>3, <1>4, <1>6, <1>7, <2>1 DEF Board!Ask
  <2> QED
    BY <2>2 DEF Board!Next
<1>8. CASE req[c] # Idle /\ resp'[c].status \in {200, 201}
  <2>1. CallOf(c).wait = {} /\ CallOf(c) # Idle
    BY <1>4, <1>8 DEF CallOf, Waiting
  <2>2. [d \in Clients |-> AnswerOf(d)]' = [[d \in Clients |-> AnswerOf(d)] EXCEPT ![c] = "ok"]
    BY <1>3, <1>6, <1>8
  <2>3. Board!Acknowledge(c)
    BY <1>5, <2>1, <2>2 DEF Board!Acknowledge
  <2> QED
    BY <2>3 DEF Board!Next
<1>9. CASE req[c] # Idle /\ resp'[c].status \notin {200, 201}
  <2>1. [d \in Clients |-> AnswerOf(d)]' = [[d \in Clients |-> AnswerOf(d)] EXCEPT ![c] = "failed"]
    BY <1>3, <1>6, <1>9
  <2>2. Board!Fail(c)
    BY <1>4, <1>5, <1>9, <2>1 DEF Board!Fail
  <2> QED
    BY <2>2 DEF Board!Next
<1> QED
  BY <1>7, <1>8, <1>9

(* A load starts a call. *)
LEMMA LoadMaps ==
  ASSUME FlagInv, NEW c \in Clients, NEW op \in {"POST", "PUT", "DELETE"}, NEW n \in Names,
         NEW p \in Payloads \cup Patches \cup {Disable}, Load(c, op, n, p),
         op = "POST" => p \in Payloads, op = "POST" <=> flags[n] = NoFlag
  PROVE  Board!Next
<1>0. TypeOK
  BY DEF FlagInv
<1>1. /\ \A d \in Clients \ {c} : CallOf(d)' = CallOf(d) /\ AnswerOf(d)' = AnswerOf(d)
      /\ req'[c] = [op |-> op, at |-> "loaded", name |-> n, patch |-> p, snap |-> flags[n]]
      /\ resp'[c] = NoResponse
  <2> DEFINE r == [op |-> op, at |-> "loaded", name |-> n, patch |-> p, snap |-> flags[n]]
  <2>1. req' = [req EXCEPT ![c] = r]
    BY DEF Load
  <2>2. resp' = [resp EXCEPT ![c] = NoResponse]
    BY DEF Load
  <2> HIDE DEF r
  <2>3. (\A d \in Clients \ {c} : CallOf(d)' = CallOf(d)) /\ req'[c] = r
    BY <1>0, <2>1, OtherCalls
  <2>4. (\A d \in Clients \ {c} : AnswerOf(d)' = AnswerOf(d)) /\ resp'[c] = NoResponse
    BY <1>0, <2>2, OtherAnswers
  <2> QED
    BY <2>3, <2>4 DEF r
<1>2. req'[c] \in Request
  BY <1>0, <1>1 DEF Request, TypeOK
<1>3. CallOf(c)' = [name |-> n, entry |-> p, new |-> flags[n] = NoFlag,
                    wait |-> Board!Unlike(n, p)]
  <2>1. req'[c] # Idle
    BY <1>2, FlagConstantsOK
  <2>2. /\ req'[c].op = op /\ req'[c].at = "loaded" /\ req'[c].name = n
        /\ req'[c].patch = p /\ req'[c].snap = flags[n]
    BY <1>1
  <2>3. Waiting(c)' = Board!Unlike(n, p)
    BY <2>2 DEF Waiting, Board!Unlike
  <2>4. CallOf(c)' = [name |-> n, entry |-> p, new |-> (op = "POST"), wait |-> Waiting(c)']
    BY <2>1, <2>2 DEF CallOf
  <2> QED
    BY <2>3, <2>4
<1>4. AnswerOf(c)' = "none"
  BY <1>1 DEF AnswerOf, NoResponse
<1>5. CallOf(c) = Idle
  BY CallInProgress DEF Load
<1>6. flags[n] = NoFlag => DOMAIN p = Fields
  BY PayloadFields
<1>7. Board!Call(c, n, p)
  BY <1>1, <1>3, <1>4, <1>5, <1>6 DEF Board!Call, Load
<1> QED
  BY <1>7 DEF Board!Next

(* A flag is given by its columns. *)
LEMMA FlagAsFunction ==
  ASSUME NEW flag \in Flag
  PROVE  flag = [f \in Fields |-> flag[f]]
BY DEF Flag, Fields

(* A commit that writes the fields the call waits for, and leaves the      *)
(* others, is the effect of the call, or no step if it waits for none.     *)
LEMMA CommitMaps ==
  ASSUME FlagInv, NEW c \in Clients, req[c] # Idle, req[c].at = "loaded",
         NEW new \in Flag, Commit(c, new),
         req[c].op = "POST" <=> flags[req[c].name] = NoFlag,
         \A f \in Fields : new[f] = IF f \in Waiting(c) THEN req[c].patch[f]
                                    ELSE flags[req[c].name][f]
  PROVE  Board!Next \/ UNCHANGED Board!vars
<1> DEFINE n == req[c].name
           r == [req[c] EXCEPT !.at = "saved"]
<1>0. TypeOK /\ req[c] \in Request /\ n \in Names
  BY DEF FlagInv, TypeOK, Request
<1>1. /\ flags' = [flags EXCEPT ![n] = new]
      /\ req' = [req EXCEPT ![c] = r]
      /\ UNCHANGED resp
  BY <1>0 DEF Commit, TypeOK
<1>2. /\ r \in Request /\ r.at = "saved" /\ r.op = req[c].op /\ r.name = n
      /\ r.patch = req[c].patch
  BY <1>0 DEF Request
<1>3. r # Idle
  BY <1>2, FlagConstantsOK
<1> HIDE DEF r, n
<1>4. (\A d \in Clients \ {c} : CallOf(d)' = CallOf(d)) /\ req'[c] = r
  BY <1>0, <1>1, OtherCalls
<1>5. \A d \in Clients : AnswerOf(d)' = AnswerOf(d)
  BY <1>1 DEF AnswerOf
<1>6. CallOf(c) = [name |-> n, entry |-> req[c].patch, new |-> (req[c].op = "POST"),
                   wait |-> Waiting(c)]
  BY DEF CallOf, n
<1>7. CallOf(c)' = [name |-> n, entry |-> req[c].patch, new |-> (req[c].op = "POST"),
                    wait |-> {}]
  <2>1. Waiting(c)' = {}
    BY <1>2, <1>4 DEF Waiting
  <2> QED
    BY <1>2, <1>3, <1>4, <2>1 DEF CallOf
<1>8. new = [f \in Fields |-> IF f \in Waiting(c) THEN req[c].patch[f] ELSE flags[n][f]]
  <2>1. new = [f \in Fields |-> new[f]]
    BY FlagAsFunction
  <2> QED
    BY <2>1 DEF n
<1>9. CASE Waiting(c) # {}
  <2>1. CallOf(c) # Idle
    BY CallInProgress
  <2>2. /\ CallOf(c).name = n /\ CallOf(c).entry = req[c].patch
        /\ CallOf(c).wait = Waiting(c) /\ CallOf(c).new = (flags[n] = NoFlag)
    BY <1>6 DEF n
  <2>3. CallOf(c)' = [CallOf(c) EXCEPT !.wait = {}]
    BY <1>6, <1>7
  <2>4. flags' = [flags EXCEPT ![n] =
                    [f \in Fields |-> IF f \in CallOf(c).wait THEN CallOf(c).entry[f]
                                      ELSE flags[n][f]]]
    BY <1>1, <1>8, <2>2
  <2>5. [d \in Clients |-> CallOf(d)]' = [[d \in Clients |-> CallOf(d)] EXCEPT ![c].wait = {}]
    BY <1>4, <2>3
  <2>6. [d \in Clients |-> AnswerOf(d)]' = [d \in Clients |-> AnswerOf(d)]
    BY <1>5
  <2>7. Board!Apply(c)
    BY <1>9, <2>1, <2>2, <2>4, <2>5, <2>6 DEF Board!Apply
  <2> QED
    BY <2>7 DEF Board!Next
<1>10. CASE Waiting(c) = {}
  <2>1. req[c].op # "POST"
    <3>1. ASSUME req[c].op = "POST" PROVE FALSE
      <4>1. req[c].patch \in Payloads
        BY <3>1 DEF FlagInv, HandlerInv
      <4>2. Waiting(c) = Fields
        BY <3>1, <4>1, PayloadFields DEF Waiting
      <4> QED
        BY <1>10, <4>2 DEF Fields
    <3> QED
      BY <3>1
  <2>2. flags[n] \in Flag
    BY <1>0, <2>1 DEF TypeOK, n
  <2>3. new = flags[n]
    BY <1>8, <1>10, <2>2, FlagAsFunction
  <2>4. flags' = flags
    BY <1>0, <1>1, <2>3 DEF TypeOK
  <2>5. CallOf(c)' = CallOf(c)
    BY <1>6, <1>7, <1>10
  <2>6. /\ [d \in Clients |-> CallOf(d)]' = [d \in Clients |-> CallOf(d)]
        /\ [d \in Clients |-> AnswerOf(d)]' = [d \in Clients |-> AnswerOf(d)]
    BY <1>4, <1>5, <2>5
  <2> QED
    BY <2>4, <2>6 DEF Board!vars
<1> QED
  BY <1>9, <1>10

(* A restart forgets every call. *)
LEMMA CrashMaps ==
  ASSUME FlagInv, Crash
  PROVE  Board!Next
<1>1. \A c \in Clients : CallOf(c)' = Idle
  BY DEF Crash, CallOf
<1>2. \A c \in Clients : AnswerOf(c)' = IF CallOf(c) = Idle THEN AnswerOf(c) ELSE "none"
  BY CallInProgress DEF Crash, AnswerOf, NoResponse
<1>3. Board!Forget
  BY <1>1, <1>2 DEF Board!Forget, Crash
<1> QED
  BY <1>3 DEF Board!Next

LEMMA InitMaps == Init => Board!Init
BY DEF Init, Board!Init, CallOf, AnswerOf, NoResponse

LEMMA NextMaps ==
  ASSUME FlagInv, [Next]_vars
  PROVE  [Board!Next]_Board!vars
<1>0. TypeOK /\ HandlerInv
  BY DEF FlagInv
<1>1. ASSUME NEW c \in Clients, ReadRequest(c) PROVE Board!Next
  <2>1. PICK n \in Names : NotFound(c, n) \/ ReadFlag(c, n) \/ \E a \in Agents : EvaluateFlag(c, n, a)
    BY <1>1 DEF ReadRequest
  <2>2. /\ req[c] = Idle
        /\ req' = [req EXCEPT ![c] = Idle] /\ UNCHANGED flags
        /\ resp'[c].status # 0
        /\ \A d \in Clients \ {c} : resp'[d] = resp[d]
    BY <1>0, <2>1 DEF NotFound, ReadFlag, EvaluateFlag, Answer, Respond, TypeOK
  <2> QED
    BY <2>2, RespondMaps
<1>2. ASSUME NEW c \in Clients, DbError(c) PROVE Board!Next
  <2>1. /\ req' = [req EXCEPT ![c] = Idle] /\ UNCHANGED flags
        /\ resp'[c].status # 0 /\ resp'[c].status \notin {200, 201}
        /\ \A d \in Clients \ {c} : resp'[d] = resp[d]
    BY <1>0, <1>2 DEF DbError, Respond, TypeOK
  <2> QED
    BY <2>1, RespondMaps
<1>3. ASSUME NEW c \in Writers, WriteRequest(c) PROVE Board!Next
  <2>0. c \in Clients
    BY DEF Clients
  <2>1. PICK n \in Names : \/ CreateConflict(c, n) \/ DeleteLoad(c, n)
                           \/ \E p \in Payloads : CreateLoad(c, n, p)
                           \/ \E p \in Patches : UpdateLoad(c, n, p)
    BY <1>3 DEF WriteRequest
  <2>2. CASE CreateConflict(c, n)
    <3>1. /\ req' = [req EXCEPT ![c] = Idle] /\ UNCHANGED flags
          /\ resp'[c].status # 0 /\ resp'[c].status \notin {200, 201}
          /\ \A d \in Clients \ {c} : resp'[d] = resp[d]
      BY <1>0, <2>0, <2>2 DEF CreateConflict, Answer, Respond, TypeOK
    <3> QED
      BY <2>0, <3>1, RespondMaps
  <2>3. CASE DeleteLoad(c, n)
    BY <2>0, <2>3, LoadMaps DEF DeleteLoad
  <2>4. ASSUME NEW p \in Payloads, CreateLoad(c, n, p) PROVE Board!Next
    BY <2>0, <2>4, LoadMaps DEF CreateLoad
  <2>5. ASSUME NEW p \in Patches, UpdateLoad(c, n, p) PROVE Board!Next
    BY <2>0, <2>5, LoadMaps DEF UpdateLoad
  <2> QED
    BY <2>1, <2>2, <2>3, <2>4, <2>5
<1>4. ASSUME NEW c \in Writers, CreateCommit(c) PROVE Board!Next \/ UNCHANGED Board!vars
  <2>1. /\ c \in Clients /\ req[c] # Idle /\ req[c].op = "POST" /\ req[c].at = "loaded"
        /\ flags[req[c].name] = NoFlag /\ Commit(c, req[c].patch)
    BY <1>4 DEF CreateCommit, InHandler, Clients
  <2>2. req[c].patch \in Payloads
    BY <1>0, <2>1 DEF HandlerInv
  <2>3. Waiting(c) = Fields
    BY <2>1, <2>2, PayloadFields DEF Waiting
  <2> QED
    BY <2>1, <2>2, <2>3, PayloadFields, CommitMaps
<1>5. ASSUME NEW c \in Writers, UpdateCommit(c) PROVE Board!Next \/ UNCHANGED Board!vars
  <2> DEFINE p == req[c].patch
             current == flags[req[c].name]
             new == UpdatedFlag(current, req[c].snap, p)
  <2>1. /\ c \in Clients /\ req[c] # Idle /\ req[c].op # "POST" /\ req[c].at = "loaded"
        /\ SatisfiesNotNull(p) /\ Commit(c, new)
    BY <1>5 DEF UpdateCommit, InHandler, Clients
  <2>2. /\ p \in Patches \cup {Disable} /\ req[c].snap \in Flag
        /\ current \in Flag /\ current # NoFlag
    <3>1. req[c].name \in Names
      BY <1>0, <2>1 DEF TypeOK, Request
    <3> QED
      BY <1>0, <2>1, <3>1 DEF TypeOK, HandlerInv
  <2> HIDE DEF current
  <2>3. new \in Flag /\ \A f \in Fields : new[f] = UpdatedColumn(current, req[c].snap, p, f)
    BY <2>1, <2>2, UpdatedFlagType
  <2>4. \A f \in Fields : UpdatedColumn(current, req[c].snap, p, f) =
                            IF f \in Waiting(c) THEN p[f] ELSE current[f]
    BY <2>1 DEF UpdatedColumn, Waiting
  <2> HIDE DEF new
  <2> QED
    BY <2>1, <2>2, <2>3, <2>4, CommitMaps DEF current
<1>6. ASSUME NEW c \in Writers, CreateIntegrityError(c) \/ UpdateIntegrityError(c) \/ Refresh(c)
      PROVE  Board!Next
  <2>0. c \in Clients
    BY DEF Clients
  <2>1. CASE CreateIntegrityError(c)
    <3>1. /\ req' = [req EXCEPT ![c] = Idle] /\ UNCHANGED flags
          /\ resp'[c].status # 0 /\ resp'[c].status \notin {200, 201}
          /\ \A d \in Clients \ {c} : resp'[d] = resp[d]
      BY <1>0, <2>0, <2>1 DEF CreateIntegrityError, Respond, TypeOK
    <3> QED
      BY <2>0, <3>1, RespondMaps
  <2>2. CASE UpdateIntegrityError(c)
    <3>1. /\ req' = [req EXCEPT ![c] = Idle] /\ UNCHANGED flags
          /\ resp'[c].status # 0 /\ resp'[c].status \notin {200, 201}
          /\ \A d \in Clients \ {c} : resp'[d] = resp[d]
      BY <1>0, <2>0, <2>2 DEF UpdateIntegrityError, Respond, TypeOK
    <3> QED
      BY <2>0, <3>1, RespondMaps
  <2>3. CASE Refresh(c)
    <3>1. /\ req' = [req EXCEPT ![c] = Idle] /\ UNCHANGED flags
          /\ resp'[c].status # 0 /\ req[c].at = "saved"
          /\ \A d \in Clients \ {c} : resp'[d] = resp[d]
      BY <1>0, <2>0, <2>3 DEF Refresh, Respond, TypeOK
    <3> QED
      BY <2>0, <3>1, RespondMaps
  <2> QED
    BY <1>6, <2>1, <2>2, <2>3
<1>7. CASE Crash
  BY <1>7, CrashMaps
<1>8. CASE UNCHANGED vars
  <2>1. /\ \A c \in Clients : CallOf(c)' = CallOf(c) /\ AnswerOf(c)' = AnswerOf(c)
        /\ UNCHANGED flags
    BY <1>8 DEF vars, CallOf, Waiting, AnswerOf
  <2> QED
    BY <2>1 DEF Board!vars
<1> QED
  BY <1>1, <1>2, <1>3, <1>4, <1>5, <1>6, <1>7, <1>8 DEF Next, Handler

(* Concurrent, stale and failing requests on any number of flags amount to *)
(* calls that each set the fields they found unlike what they ask, and no  *)
(* others, at one moment before they are answered.                         *)
THEOREM RefinesBoard == Spec => ImplementsBoard
<1> QED
  BY InitMaps, NextMaps, InitFlagInv, NextFlagInv, PTL DEF Spec, ImplementsBoard, Board!Spec
=============================================================================
