------------------------------ MODULE TracrIds ------------------------------
(***************************************************************************)
(* The event ids: markers are numbered from 0, and the top of the 16-bit   *)
(* range is reserved.  The width is a constant, so that a small model      *)
(* reaches both ends of the range.                                         *)
(***************************************************************************)
EXTENDS Integers

CONSTANT UInt16Max   \* largest value of a 16-bit id

ASSUME IdAssumption == UInt16Max \in Nat /\ UInt16Max >= 3

EVENTID_RESET        == UInt16Max
EVENTID_FLOW_START   == UInt16Max - 1
EVENTID_FLOW_END     == UInt16Max - 2
EVENTID_RESERVED_MIN == EVENTID_FLOW_END

\* The event ids the registration hands out.
MarkerId == 0 .. EVENTID_RESERVED_MIN - 1
EventId  == 0 .. UInt16Max

IsFlow(payload) == payload.eventId \in {EVENTID_FLOW_START, EVENTID_FLOW_END}

=============================================================================
