----------------------------- MODULE NanoTimer -----------------------------
(***************************************************************************)
(* The clock of a build with USE_HW_COUNTER: a counter of the hardware,    *)
(* converted to nanoseconds in 64-bit arithmetic.                          *)
(***************************************************************************)
EXTENDS Integers

CONSTANTS
  Frequency,   \* ticks of the counter in a second
  Second,      \* nanoseconds in a second
  UInt64Max    \* largest value of the arithmetic

ASSUME TimerAssumption ==
  /\ Frequency \in Nat \ {0} /\ Second \in Nat \ {0}
  /\ UInt64Max \in Nat
  /\ Frequency * Second <= UInt64Max     \* below 18 GHz

Word(n) == n % (UInt64Max + 1)

\* Faulty variant, used to test the properties.
MultipliedFirst(ticks) == Word(ticks * Second) \div Frequency

\* ticks_to_ns(): whole seconds and the rest apart.
TicksToNs(ticks) ==
  Word(Word((ticks \div Frequency) * Second)
         + Word((ticks % Frequency) * Second) \div Frequency)

=============================================================================
