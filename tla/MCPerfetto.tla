----------------------------- MODULE MCPerfetto -----------------------------
(* Instances of Perfetto for TLC. *)
EXTENDS Perfetto

CONSTANT Time

Payload(C, E) == [channelId : C, eventId : E, timestamp : Time]

\* The files with at most n payloads over the channels C and the event ids E.
File(C, E, n) ==
  {f \in UNION {[1 .. k -> Payload(C, E)] : k \in 0 .. n} : InTimeOrder(f)}

Proc(pairs, channels, labels, starts, ends) ==
  [files : pairs, num_channels : channels, num_labels : labels,
   start_time : starts, end_time : ends]

Kinds == {0, EVENTID_RESET, EVENTID_FLOW_START}

\* One proc, two threads that share two channels.
OneProc ==
  LET pairs == (File({0, 1}, Kinds, 3) \X File({0, 1}, Kinds, 1))
                 \cup (File({0, 1}, Kinds, 2) \X File({0, 1}, Kinds, 2))
  IN  {<< proc >> : proc \in Proc(pairs, {2}, {0}, {0}, {3})}

\* Two procs: marks on channels that may not exist, with labels that may be
\* missing and anchors that may not fit; the second one is well-behaved.
TwoProcs ==
  LET E     == {0, 1, EVENTID_RESET, EVENTID_FLOW_END}
      odd   == Proc(File({0, 1}, E, 2) \X File({0}, {0, EVENTID_RESET}, 1),
                    {1, 2}, {0, 1}, {1, 3, UInt64Max}, {0, 3})
      plain == Proc({<< <<[channelId |-> 0, eventId |-> 0, timestamp |-> 2],
                          [channelId |-> 0, eventId |-> EVENTID_RESET, timestamp |-> 3]>> >>},
                    {1}, {1}, {1}, {3})
  IN  {<< a, b >> : a \in odd, b \in plain}

OneOrTwoProcs == OneProc \cup TwoProcs

=============================================================================
