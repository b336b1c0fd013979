--------------------------- MODULE MCTracrThread ----------------------------
(* Instances of TracrThread for TLC; the values are in the cfg files. *)
EXTENDS CounterThread
=============================================================================
