---------------------------- MODULE TracrPayload ----------------------------
(***************************************************************************)
(* The 16-byte record every instrumentation call stores: a channel, an     *)
(* event id, an extra id and a timestamp.  The widths of the C++ fields    *)
(* are constants, so that a small model keeps the reserved values at the   *)
(* top of each range.                                                      *)
(***************************************************************************)
EXTENDS Integers, TracrIds

CONSTANTS
  Channel,     \* channel ids in use
  UInt32Max,   \* largest value of the 32-bit extra id
  Timestamp    \* the nanoseconds NanoTimer::now() may return

ASSUME PayloadAssumption ==
  /\ Channel \subseteq Nat
  /\ UInt32Max \in Nat
  /\ Timestamp \subseteq Nat

ExtraId == 0 .. UInt32Max

Payload == [channelId : Channel, eventId : EventId,
            extraId : ExtraId, timestamp : Timestamp]

SetPayload(c, e, x, ts) ==
  [channelId |-> c, eventId |-> e, extraId |-> x, timestamp |-> ts]

\* A reset carries no extra information of its own.
ResetPayload(c, ts) ==
  [channelId |-> c, eventId |-> EVENTID_RESET, extraId |-> UInt32Max,
   timestamp |-> ts]

FlowStartPayload(c, f, ts) ==
  [channelId |-> c, eventId |-> EVENTID_FLOW_START, extraId |-> f,
   timestamp |-> ts]

FlowEndPayload(c, f, ts) ==
  [channelId |-> c, eventId |-> EVENTID_FLOW_END, extraId |-> f,
   timestamp |-> ts]

=============================================================================
