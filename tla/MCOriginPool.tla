--------------------------- MODULE MCOriginPool ---------------------------
(* Instances of OriginPool for model checking.  Requests are interchangeable: *)
(* no action tells one from another.                                         *)
EXTENDS OriginPool, TLC

Symmetry == Permutations(Requests)
=============================================================================
