----------------------------- MODULE MCParaver ------------------------------
(* Instances of Paraver for TLC. *)
EXTENDS Paraver

CONSTANTS Time, FlowId

Sets  == [channelId : {0}, eventId : {0, 1, EVENTID_RESET}, extraId : {0},
          timestamp : Time]
Flows == [channelId : {0}, eventId : {EVENTID_FLOW_START, EVENTID_FLOW_END},
          extraId : FlowId, timestamp : Time]

\* The files with at most n payloads from the set P.
File(P, n) == {f \in UNION {[1 .. k -> P] : k \in 0 .. n} : InTimeOrder(f)}

Proc(pairs, labels, starts, ends) ==
  [files : pairs, num_channels : {1}, num_labels : labels, start_time : starts,
   end_time : ends]

\* Two procs with flows between them and within.
FlowFiles == File(Flows, 2)

Messages ==
  Proc(FlowFiles \X File({x \in Flows : x.extraId = 1}, 1), {0}, {0}, {3})
    \X Proc({<< f >> : f \in FlowFiles}, {0}, {1}, {3})

\* Two procs with sets and resets of two threads on one channel, labels that may
\* be missing and anchors that may not fit, and a flow from one to the other.
OneFlow == << [channelId |-> 0, eventId |-> EVENTID_FLOW_START, extraId |-> 1,
               timestamp |-> 1],
              [channelId |-> 0, eventId |-> EVENTID_FLOW_END, extraId |-> 1,
               timestamp |-> 2] >>

States2 ==
  Proc(File(Sets, 2) \X File({s \in Sets : s.eventId # 1}, 1),
       {0, 1}, {0, 2, UInt64Max}, {0, 3})
    \X Proc({<< OneFlow >>}, {0}, {0, 1}, {3})

TwoProcs == Messages \cup States2

=============================================================================
