------------------------------ MODULE MCSdkWatch ------------------------------
(* One application that watches again and again, over two connections. *)
EXTENDS SdkWatch

CONSTANTS p1, c1, c2, t1, t2

OneApp == {p1}
TwoConns == {c1, c2}
TwoTasks == {t1, t2}
Both == [p \in {p1} |-> {c1, c2}]
Everything == [c \in {c1, c2} |-> 1 .. NumRows]
AllFaults == {"select", "crash"}
=============================================================================
