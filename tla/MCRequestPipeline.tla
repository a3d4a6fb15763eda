------------------------ MODULE MCRequestPipeline ------------------------
(* Instances of RequestPipeline for model checking. *)
EXTENDS RequestPipeline
=============================================================================
