------------------------------ MODULE FlagBoard ------------------------------
(***************************************************************************)
(* What the flag router promises to the callers of a write, without        *)
(* sessions, loaded rows or statements: a call lists fields to set; the    *)
(* ones that are not as asked when it starts are set together, at one      *)
(* moment before the call is answered ok, and nothing else is touched,     *)
(* then or later; a call that is not answered ok took effect once or not   *)
(* at all.  The router of FlagStore implements it.                         *)
(***************************************************************************)
CONSTANTS
  Names,      \* flag names
  Callers,    \* clients
  Fields,     \* the columns a caller may set
  Entries,    \* what a call may ask for, functions from the fields it sets
  NoFlag,     \* no flag with this name
  None        \* the caller has no call in progress

VARIABLES
  board,      \* the flags
  call,       \* the call each caller has in progress
  answer      \* "ok" or "failed", how the caller's last call or read ended

vars == <<board, call, answer>>

Init ==
  /\ board = [n \in Names |-> NoFlag]
  /\ call = [c \in Callers |-> None]
  /\ answer = [c \in Callers |-> "none"]

(* The fields of e that the flag has not got as e asks. *)
Unlike(n, e) ==
  IF board[n] = NoFlag THEN DOMAIN e ELSE {f \in DOMAIN e : e[f] # board[n][f]}

(* c asks for e; a new flag needs every field. *)
Call(c, n, e) ==
  /\ call[c] = None
  /\ board[n] = NoFlag => DOMAIN e = Fields
  /\ call' = [call EXCEPT ![c] = [name |-> n, entry |-> e, new |-> board[n] = NoFlag,
                                  wait |-> Unlike(n, e)]]
  /\ answer' = [answer EXCEPT ![c] = "none"]
  /\ UNCHANGED board

(* The fields c waits for are set; a flag is made only where there is none. *)
Apply(c) ==
  /\ call[c] # None
  /\ call[c].wait # {}
  /\ LET n == call[c].name IN
       /\ call[c].new = (board[n] = NoFlag)
       /\ board' = [board EXCEPT ![n] =
                      [f \in Fields |-> IF f \in call[c].wait THEN call[c].entry[f]
                                        ELSE board[n][f]]]
  /\ call' = [call EXCEPT ![c].wait = {}]
  /\ UNCHANGED answer

(* c is told that its call succeeded: it waits for nothing any more. *)
Acknowledge(c) ==
  /\ call[c] # None
  /\ call[c].wait = {}
  /\ call' = [call EXCEPT ![c] = None]
  /\ answer' = [answer EXCEPT ![c] = "ok"]
  /\ UNCHANGED board

(* c is told that its call failed, which says nothing of its effect. *)
Fail(c) ==
  /\ call[c] # None
  /\ call' = [call EXCEPT ![c] = None]
  /\ answer' = [answer EXCEPT ![c] = "failed"]
  /\ UNCHANGED board

(* c reads, or asks for what is refused at once. *)
Ask(c) ==
  /\ call[c] = None
  /\ UNCHANGED <<board, call>>
  /\ \E a \in {"ok", "failed"} : answer' = [answer EXCEPT ![c] = a]

(* Every call in progress is forgotten, without an answer. *)
Forget ==
  /\ call' = [c \in Callers |-> None]
  /\ answer' = [c \in Callers |-> IF call[c] = None THEN answer[c] ELSE "none"]
  /\ UNCHANGED board

Next ==
  \/ \E c \in Callers : Ask(c) \/ Apply(c) \/ Acknowledge(c) \/ Fail(c)
  \/ \E c \in Callers, n \in Names, e \in Entries : Call(c, n, e)
  \/ Forget

Spec == Init /\ [][Next]_vars
=============================================================================
