------------------------------- MODULE Rollout -------------------------------
(***************************************************************************)
(* evaluate_flag (src/src/routers/flags.py): whether a flag is on for an   *)
(* agent.  An agent falls into one of a hundred buckets by the hash of its *)
(* id and the flag's name; a flag is on for the buckets below its          *)
(* percentage.  Percentages are floats: they are counted here in parts of  *)
(* a percent.                                                              *)
(***************************************************************************)
EXTENDS Naturals

CONSTANTS
  Parts       \* parts in a percent

ASSUME PartsOK == Parts \in Nat \ {0}

Buckets == 0 .. 99
Percentages == 0 .. 100 * Parts

(* Variants: the bucket at the percentage is on as well; one percent is    *)
(* taken for the whole.                                                    *)
evaluate_inclusive(enabled, rollout_pct, bucket) ==
  enabled /\ rollout_pct # 0 /\ bucket * Parts <= rollout_pct

evaluate_fraction(enabled, rollout_pct, bucket) ==
  enabled /\ (rollout_pct = Parts \/ bucket * Parts < rollout_pct)

evaluate_flag(enabled, rollout_pct, bucket) ==
  /\ enabled
  /\ \/ rollout_pct = 100 * Parts
     \/ rollout_pct # 0 /\ bucket * Parts < rollout_pct

(* The percentage, rounded up to a whole number of buckets. *)
WholePercent(rollout_pct) == (rollout_pct + Parts - 1) \div Parts
=============================================================================
