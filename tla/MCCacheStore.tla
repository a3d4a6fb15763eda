--------------------------- MODULE MCCacheStore ---------------------------
(* Instances of CacheStore for model checking.  Puts are interchangeable: no   *)
(* action tells one from another.                                             *)
EXTENDS CacheStore, TLC

Symmetry == Permutations(Puts)
=============================================================================
