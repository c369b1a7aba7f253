---------------------------- MODULE KeyLifecycle ----------------------------
(***************************************************************************)
(* What the config API promises about one (namespace, key) pair, without   *)
(* its requests, sessions and transactions.  A key is created once, is     *)
(* live until it is deleted, and is never live again.  Its version starts  *)
(* at 1, and no version number runs ahead of the number of updates that    *)
(* were applied to the key.                                                *)
(*                                                                         *)
(* The specification is deliberately weak in the two places where the code *)
(* is: an update may hand out a version that was handed out before, and a  *)
(* straggling update may still touch a key that has just been deleted.     *)
(***************************************************************************)
EXTENDS Naturals

CONSTANT Keys

VARIABLES
  phase,     \* where each key is in its life
  version,   \* the version the key's row carries, 0 before it exists
  updates    \* how many updates were applied to the key

vars == <<phase, version, updates>>

Phases == {"absent", "live", "deleted"}

Init ==
  /\ phase = [k \in Keys |-> "absent"]
  /\ version = [k \in Keys |-> 0]
  /\ updates = [k \in Keys |-> 0]

Create(k) ==
  /\ phase[k] = "absent"
  /\ phase' = [phase EXCEPT ![k] = "live"]
  /\ version' = [version EXCEPT ![k] = 1]
  /\ UNCHANGED updates

Update(k) ==
  /\ phase[k] # "absent"
  /\ updates' = [updates EXCEPT ![k] = @ + 1]
  /\ \E n \in 2 .. updates[k] + 2 : version' = [version EXCEPT ![k] = n]
  /\ UNCHANGED phase

Delete(k) ==
  /\ phase[k] = "live"
  /\ phase' = [phase EXCEPT ![k] = "deleted"]
  /\ UNCHANGED <<version, updates>>

Next == \E k \in Keys : Create(k) \/ Update(k) \/ Delete(k)

Spec == Init /\ [][Next]_vars
=============================================================================
