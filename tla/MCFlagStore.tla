----------------------------- MODULE MCFlagStore -----------------------------
(* Small instances of FlagStore: percentages in halves of a percent, and   *)
(* agents at the edges of the buckets.                                     *)
EXTENDS FlagStore, TLC

CONSTANTS f1, f2, w1, w2, r1, first, second, last, team

OneName == {f1}
TwoNames == {f1, f2}
TwoWriters == {w1, w2}
OneReader == {r1}

EdgeAgents == {first, second, last}
EdgeBuckets == [a \in Agents |-> [n \in Names |->
                  CASE a = first -> 0 [] a = second -> 1 [] a = last -> 99]]

NullOrTeam == {Null, team}

SmallPayloads ==
  {[enabled |-> TRUE, rollout_pct |-> Parts, rules |-> team],
   [enabled |-> FALSE, rollout_pct |-> 100 * Parts, rules |-> Null]}

(* Switch on, raise the rollout to a fraction of a percent, switch off at  *)
(* 0 percent, clear the rules, and null where it is not allowed.           *)
SmallPatches ==
  {[f \in {"enabled"} |-> TRUE],
   [f \in {"rollout_pct"} |-> 98 * Parts + 1],
   [f \in {"enabled", "rollout_pct"} |-> IF f = "enabled" THEN FALSE ELSE 0],
   [f \in {"rules"} |-> Null],
   [f \in {"enabled", "rollout_pct"} |-> IF f = "enabled" THEN Null ELSE 2 * Parts]}

AllFaults == {"db", "crash"}

(* The two writers are interchangeable. *)
Symmetry == Permutations(Writers)
=============================================================================
