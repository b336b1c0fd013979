------------------------------- MODULE MCDump -------------------------------
(* Instances of Dump for TLC. *)
EXTENDS Dump

CONSTANTS UInt32Max, Time

Sets(channels)   == [channelId : channels, eventId : {0}, extraId : {0}, timestamp : Time]
Resets(channels) == [channelId : channels, eventId : {EVENTID_RESET},
                     extraId : {UInt32Max}, timestamp : Time]
Flows == [channelId : {0}, eventId : {EVENTID_FLOW_END}, extraId : {0}, timestamp : Time]

Stamped == Sets({0, 1}) \cup Resets({0, 1}) \cup Flows

\* The files of at most n payloads from the set P.
File(P, n) == {f \in UNION {[1 .. k -> P] : k \in 0 .. n} : InTimeOrder(f)}

\* Two threads that may share a channel, and three that have one each, with events
\* nobody closes.
Threads ==
  (File(Stamped, 2) \X File(Sets({0}) \cup Resets({0}) \cup Flows, 2))
    \cup [1 .. 3 -> File(Sets({0}), 2)]

=============================================================================
