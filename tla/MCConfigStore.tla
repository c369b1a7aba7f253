---------------------------- MODULE MCConfigStore ----------------------------
(* Small instances of ConfigStore.  one, true and two stand for JSON 1,    *)
(* true and 2: Python compares the first two equal.                        *)
EXTENDS ConfigStore, TLC

CONSTANTS k1, k2, w1, w2, r1, one, true, two, n1

OneKey == {k1}
TwoKeys == {k1, k2}
TwoWriters == {w1, w2}
OneWriter == {w1}
OneReader == {r1}
NoReader == {}

Distinct == {one, two}
Confusable == {one, true, two}
DistinctClass == [v \in Distinct |-> v]
ConfusableClass == (one :> one @@ true :> one @@ two :> two)

OneNamespace == {n1}
Single == [k \in Keys |-> n1]

NoFaults == {}
AllFaults == {"db", "crash"}
=============================================================================
