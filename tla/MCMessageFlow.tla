--------------------------- MODULE MCMessageFlow ---------------------------
(* What the two processes record, and the traces of MCParaver, for TLC. *)
EXTENDS MessageFlow, MCParaver

OtherTraces ==
  /\ Init
  /\ sender = 1 /\ place = << "over", "over" >> /\ msg = << 0, 0 >>
  /\ sync_pipe = FALSE /\ data_pipe = << >> /\ clock = 0

AnyTraces == (FlowInit \/ OtherTraces) /\ [][FlowNext]_flowVars

=============================================================================
