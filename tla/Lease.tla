------------------------------- MODULE Lease -------------------------------
(* What a lock with an expiry promises: at most one process at a time holds  *)
(* a key on a lease that has not run out.                                    *)
CONSTANTS Nodes, Keys

VARIABLE holders    \* holders[k]: the processes with an unexpired lease on k

Init == holders = [k \in Keys |-> {}]

Grant(n, k) == holders[k] = {} /\ holders' = [holders EXCEPT ![k] = {n}]

\* Given back, lapsed, or lost with its process.
End(n) == \E ks \in SUBSET Keys :
  /\ \A k \in ks : n \in holders[k]
  /\ holders' = [k \in Keys |-> IF k \in ks THEN holders[k] \ {n} ELSE holders[k]]

Next ==
  /\ holders' # holders
  /\ \E n \in Nodes : End(n) \/ \E k \in Keys : Grant(n, k)

Spec == Init /\ [][Next]_holders
=============================================================================
