---------------------------- MODULE TraceBuffer -----------------------------
(***************************************************************************)
(* The per-thread trace buffer (class TraCRThread): a fixed array and an   *)
(* index that only grows.  What happens when the array is full is chosen   *)
(* at compile time by Policy:                                              *)
(*   "periodic"  TRACR_POLICY_PERIODIC, overwrite from the beginning;      *)
(*   "ignore"    TRACR_POLICY_IGNORE_IF_FULL, drop what comes next;        *)
(*   "abort"     the default, std::exit(EXIT_FAILURE).                     *)
(***************************************************************************)
EXTENDS Integers, Sequences

CONSTANTS
  Capacity,    \* TRACR_CAPACITY
  Policy,
  Unset        \* an array slot nobody wrote yet, or memory past the array

ASSUME BufferAssumption ==
  /\ Capacity \in Nat \ {0}
  /\ Policy \in {"periodic", "ignore", "abort"}

Slot == 0 .. Capacity - 1

\* The buffers whose written slots hold members of Element.
Buffer(Element) == [traces : [Slot -> Element \cup {Unset}], traceIdx : Nat]

\* The constructor leaves the array uninitialised.
EmptyBuffer == [traces |-> [i \in Slot |-> Unset], traceIdx |-> 0]

IsFull(b) == b.traceIdx >= Capacity

\* The slot store_trace() writes.
NextSlot(b) == IF Policy = "periodic" THEN b.traceIdx % Capacity ELSE b.traceIdx

Stored(b, p) ==
  [traces   |-> [b.traces EXCEPT ![NextSlot(b)] = p],
   traceIdx |-> b.traceIdx + 1]

\* store_trace() ends the process here.
Aborts(b) == Policy = "abort" /\ IsFull(b)

StoreTrace(b, p) == IF Policy # "periodic" /\ IsFull(b) THEN b ELSE Stored(b, p)

Wrapped(b) == Policy = "periodic" /\ b.traceIdx > Capacity

\* Faulty variants of the definitions below, used to test the properties.
OldestIsFirstSlot(b) == 0
WritesWholeArray(b)  == Capacity

\* Where the oldest entry of a wrapped buffer is.
Oldest(b) == b.traceIdx % Capacity

\* How many entries the one write of an unwrapped buffer covers.
NumWritten(b) == b.traceIdx

\* n consecutive slots, from slot i on.
Slots(b, i, n) == [k \in 1 .. n |-> b.traces[i + k - 1]]

\* The contents flush_traces() gives traces.bts: oldest entry first.
FlushTraces(b) ==
  IF Wrapped(b)
  THEN Slots(b, Oldest(b), Capacity - Oldest(b)) \o Slots(b, 0, Oldest(b))
  ELSE Slots(b, 0, NumWritten(b))

\* What instrumentation_get_thread_trace_str() prints: traceIdx entries from
\* the start of the array, whatever lies there.
ThreadTraceStr(b) ==
  [k \in 1 .. b.traceIdx |-> IF k <= Capacity THEN b.traces[k - 1] ELSE Unset]

=============================================================================
