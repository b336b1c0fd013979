---------------------------- MODULE MCTracrCore -----------------------------
(* Instances of TracrCore for TLC: a main thread m and some workers. *)
EXTENDS TracrCore, TLC

\* Nothing tells the workers apart.
Workers == Permutations(Worker)

=============================================================================
