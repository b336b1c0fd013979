----------------------------- MODULE MCPipeline -----------------------------
(* Instances of Pipeline for TLC: a main thread, a worker and a neighbour. *)
EXTENDS Pipeline

=============================================================================
