------------------------------ MODULE MCWatchers ------------------------------
(* Small instances of Watchers. *)
EXTENDS Watchers, TLC

CONSTANTS c1, c2, t1, t2, t3

OneConn == {c1}
TwoConns == {c1, c2}
TwoTasks == {t1, t2}
ThreeTasks == {t1, t2, t3}

(* c1 watches every namespace, c2 the one of row 1. *)
AllOrFirst == [c \in Conns |-> IF c = c1 THEN Ids ELSE {1} \cap Ids]

NoFaults == {}
SelectFaults == {"select"}
AllFaults == {"select", "crash"}

Symmetry == Permutations(Tasks)
=============================================================================
