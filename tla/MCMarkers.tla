----------------------------- MODULE MCMarkers ------------------------------
(* Instances of Markers and Channels for TLC; labels are interchangeable. *)
EXTENDS Channels, TLC

Labels == Permutations(Label)

=============================================================================
