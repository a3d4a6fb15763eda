-------------------------- MODULE MCConfigHistory --------------------------
(* Two nodes, two calls each at most; the labels keep one body off both nodes, *)
(* which are interchangeable.                                                 *)
EXTENDS ConfigHistory, TLC

CONSTANTS c1, c2

ForeignPairs == Nodes \X {c2}
Symmetry == Permutations(Nodes)
=============================================================================
