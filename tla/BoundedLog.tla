----------------------------- MODULE BoundedLog -----------------------------
(***************************************************************************)
(* What a TraCR thread promises, without array or index: a log that keeps  *)
(* at most Capacity elements and is published to a file when the thread    *)
(* ends.  When the log is full a new element pushes the oldest one out     *)
(* ("periodic"), is dropped ("ignore") or ends the process ("abort").      *)
(***************************************************************************)
EXTENDS Integers, Sequences

CONSTANTS Capacity, Policy, Element

VARIABLES
  log,      \* the elements kept, oldest first
  file,     \* what was published last
  failed    \* the process ended with an error

Init == log = << >> /\ file = << >> /\ failed = FALSE

Room == Len(log) < Capacity

Keep(e) ==
  /\ ~ failed
  /\ Room
  /\ log' = Append(log, e)
  /\ UNCHANGED << file, failed >>

PushOut(e) ==
  /\ ~ failed
  /\ Policy = "periodic" /\ ~ Room
  /\ log' = Append(Tail(log), e)
  /\ UNCHANGED << file, failed >>

Fail ==
  /\ ~ failed
  /\ Policy = "abort" /\ ~ Room
  /\ failed' = TRUE
  /\ UNCHANGED << log, file >>

\* An empty log publishes nothing: an earlier file stays as it is.
Publish ==
  /\ ~ failed
  /\ file' = IF log = << >> THEN file ELSE log
  /\ log' = << >>
  /\ UNCHANGED failed

Next == (\E e \in Element : Keep(e) \/ PushOut(e)) \/ Fail \/ Publish

Spec == Init /\ [][Next]_<< log, file, failed >>

=============================================================================
