----------------------------- MODULE MCSdkClient -----------------------------
(* Small instances of SdkClient: two callers on one key, with a third      *)
(* place in the server for a request that a timeout left behind; and one   *)
(* caller alone.                                                           *)
EXTENDS SdkClient, TLC

CONSTANTS k1, p1, p2, w1, w2, w3, v1, v2, n1

OneKey == {k1}
TwoProcs == {p1, p2}
ThreeSlots == {w1, w2, w3}
OneProc == {p1}
OneSlot == {w1}
NoReader == {}
TwoValues == {v1, v2}
SameOnly == [v \in Values |-> v]
OneNamespace == {n1}
Single == [k \in Keys |-> n1]
AllFaults == {"db", "crash"}
NoFaults == {}

Symmetry == Permutations(TwoProcs) \cup Permutations(ThreeSlots) \cup Permutations(TwoValues)

(* What the future of a state and the properties depend on: not versions,  *)
(* not the history of ConfigStore's own properties, not answers nobody     *)
(* waits for, and of a call that is over only what a property looks at.    *)
RowSeen(row) == IF row = NoRow THEN NoRow ELSE <<row.value, row.active>>

RequestSeen(r) ==
  IF r = Idle THEN Idle
  ELSE <<r.op, r.at, r.value, IF r.op = "PUT" THEN r.snap.value ELSE NoRow>>

CallSeen(p) ==
  IF call[p] = NoCall THEN NoCall
  ELSE IF Open(p)
       THEN <<call[p], shown[p], rivals[p], IF Answered(p) THEN resp[call[p].slot].status ELSE 0>>
  ELSE IF call[p].fn = "set" /\ call[p].state = "returned"
       THEN <<call[p].key, call[p].value, shown[p], rivals[p]>>
  ELSE IF call[p].fn = "set" /\ call[p].status = 404 THEN call[p].key
  ELSE NoCall

SdkView == <<[k \in Keys |-> RowSeen(rows[k])], [c \in Writers |-> RequestSeen(req[c])],
             [p \in Procs |-> CallSeen(p)], updates, sent>>
=============================================================================
