----------------------------- MODULE LossyFifo -----------------------------
(* What the log queue promises per destination: entries come out in the order *)
(* they went in, each at most once; some may be left out.                     *)
EXTENDS Naturals, Sequences

CONSTANTS Dests, Entries

VARIABLES pending, out

Init == pending = [d \in Dests |-> <<>>] /\ out = [d \in Dests |-> <<>>]

Offer(d, e) == pending' = [pending EXCEPT ![d] = Append(@, e)] /\ UNCHANGED out

\* The first n entries are through: at most one of them came out, the others were
\* left out.
Take(d) ==
  \E n \in 1..Len(pending[d]) :
    /\ pending' = [pending EXCEPT ![d] = SubSeq(@, n + 1, Len(@))]
    /\ \/ UNCHANGED out
       \/ \E i \in 1..n : out' = [out EXCEPT ![d] = Append(@, pending[d][i])]

Next ==
  /\ pending' # pending
  /\ \E d \in Dests : Take(d) \/ \E e \in Entries : Offer(d, e)

Spec == Init /\ [][Next]_<<pending, out>>
=============================================================================
