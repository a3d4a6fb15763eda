--------------------------- MODULE MCConfigSync ---------------------------
(* Instances of ConfigSync for model checking. *)
EXTENDS ConfigSync, TLC
=============================================================================
