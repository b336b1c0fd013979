--------------------------- MODULE CounterThread ---------------------------
(***************************************************************************)
(* The recording thread in a build with USE_HW_COUNTER: a marker call      *)
(* reads the counter and stores what ticks_to_ns() makes of it.            *)
(***************************************************************************)
EXTENDS TracrThread, NanoTimer

CONSTANT MaxTicks    \* bound: the last value of the counter

ASSUME CounterAssumption ==
  /\ MaxTicks \in Nat
  /\ \A ticks \in 0 .. MaxTicks : TicksToNs(ticks) \in Timestamp
  /\ MaxTicks * Second <= UInt64Max * Frequency    \* the result has 64 bits

VARIABLE counter

counterVars == << vars, counter >>

CounterInit == Init /\ counter = 0

\* The counter runs on its own, and not backward.
Tick == /\ counter' \in counter + 1 .. MaxTicks
        /\ UNCHANGED vars

CounterNext ==
  \/ Tick
  \/ /\ UNCHANGED counter
     /\ \/ MarkAt(TicksToNs(counter))
        \/ ThreadInit \/ ThreadInitAgain
        \/ InstrumentationOn \/ InstrumentationOff
        \/ ThreadFinalize \/ ThreadFinalizeAgain
        \/ Exited

CounterSpec == CounterInit /\ [][CounterNext]_counterVars

-----------------------------------------------------------------------------
(* Properties. *)

\* Seen through ticks_to_ns(), whose multiplications have 64 bits only, the counter
\* is a clock that does not go back: a thread with this clock behaves as
\* TracrThread says of any.
ClockSpec == Spec

=============================================================================
