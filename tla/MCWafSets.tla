----------------------------- MODULE MCWafSets -----------------------------
(***************************************************************************)
(* Two worker threads, and an allocator that may use an address again.     *)
(***************************************************************************)
EXTENDS WafSets
=============================================================================
