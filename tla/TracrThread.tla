---------------------------- MODULE TracrThread -----------------------------
(***************************************************************************)
(* One thread that records: INSTRUMENTATION_THREAD_INIT, the four marker   *)
(* calls, the runtime switch and INSTRUMENTATION_THREAD_FINALIZE, on the   *)
(* buffer of TraceBuffer.  The interleaving of threads is in TracrCore;    *)
(* here the payloads are complete and the switch enable_tracr may be       *)
(* flipped by anybody between two calls.                                   *)
(*                                                                         *)
(* The caller keeps to the documented order: it marks and finalizes only   *)
(* between THREAD_INIT and THREAD_FINALIZE.                                *)
(***************************************************************************)
EXTENDS TracrPayload, TraceBuffer

CONSTANTS
  NoThread,     \* tracrThread is a nullptr
  MaxStores     \* bound: payloads one TraCR thread stores

ASSUME ThreadAssumption ==
  /\ Unset \notin Payload
  /\ NoThread \notin Buffer(Payload)
  /\ MaxStores \in Nat

VARIABLES
  tracrThread,   \* the buffer, or NoThread
  enable_tracr,
  clock,         \* last value NanoTimer::now() returned
  bts,           \* contents of thread.<tid>/traces.bts, << >> while absent
  status         \* "running"; after std::exit(EXIT_FAILURE), "failed" (the
                 \* buffer is full) or "refused" (a call out of order)

vars == << tracrThread, enable_tracr, clock, bts, status >>

TypeOK ==
  /\ tracrThread \in Buffer(Payload) \cup {NoThread}
  /\ enable_tracr \in BOOLEAN
  /\ clock \in Nat
  /\ bts \in Seq(Payload)
  /\ status \in {"running", "failed", "refused"}

Init ==
  /\ tracrThread = NoThread
  /\ enable_tracr = TRUE
  /\ clock = 0
  /\ bts = << >>
  /\ status = "running"

ThreadInit ==
  /\ status = "running" /\ tracrThread = NoThread
  /\ tracrThread' = EmptyBuffer
  /\ UNCHANGED << enable_tracr, clock, bts, status >>

\* A second THREAD_INIT on the same thread is refused.
ThreadInitAgain ==
  /\ status = "running" /\ tracrThread # NoThread
  /\ status' = "refused"
  /\ UNCHANGED << tracrThread, enable_tracr, clock, bts >>

-----------------------------------------------------------------------------
(* Marker calls. *)

\* The timestamps the next call may read: the clock never goes back, and two
\* calls may read the same nanosecond.
Now == {ts \in Timestamp : ts >= clock}

\* The common part of the four calls: nothing happens while tracing is off.
Store(p) ==
  /\ status = "running" /\ tracrThread # NoThread
  /\ enable_tracr
  /\ tracrThread.traceIdx < MaxStores
  /\ clock' = p.timestamp
  /\ tracrThread' = StoreTrace(tracrThread, p)
  /\ status' = IF Aborts(tracrThread) THEN "failed" ELSE "running"
  /\ UNCHANGED << enable_tracr, bts >>

MarkSet(c, e, x, ts) == Store(SetPayload(c, e, x, ts))

MarkReset(c, ts) == Store(ResetPayload(c, ts))

FlowStart(c, f, ts) == Store(FlowStartPayload(c, f, ts))

FlowEnd(c, f, ts) == Store(FlowEndPayload(c, f, ts))

\* One of the calls, when the clock shows ts.
MarkAt(ts) ==
  \E c \in Channel :
    \/ \E e \in MarkerId, x \in ExtraId : MarkSet(c, e, x, ts)
    \/ MarkReset(c, ts)
    \/ \E f \in ExtraId : FlowStart(c, f, ts) \/ FlowEnd(c, f, ts)

Mark == \E ts \in Now : MarkAt(ts)

-----------------------------------------------------------------------------

InstrumentationOn ==
  /\ status = "running"
  /\ enable_tracr' = TRUE
  /\ UNCHANGED << tracrThread, clock, bts, status >>

InstrumentationOff ==
  /\ status = "running"
  /\ enable_tracr' = FALSE
  /\ UNCHANGED << tracrThread, clock, bts, status >>

\* Flush, then destroy the buffer.  An empty buffer leaves no file.
ThreadFinalize ==
  /\ status = "running" /\ tracrThread # NoThread
  /\ bts' = IF tracrThread.traceIdx = 0 THEN bts ELSE FlushTraces(tracrThread)
  /\ tracrThread' = NoThread
  /\ UNCHANGED << enable_tracr, clock, status >>

ThreadFinalizeAgain ==
  /\ status = "running" /\ tracrThread = NoThread
  /\ status' = "refused"
  /\ UNCHANGED << tracrThread, enable_tracr, clock, bts >>

Exited == status # "running" /\ UNCHANGED vars

Next ==
  \/ ThreadInit \/ ThreadInitAgain
  \/ Mark
  \/ InstrumentationOn \/ InstrumentationOff
  \/ ThreadFinalize \/ ThreadFinalizeAgain
  \/ Exited

Spec == Init /\ [][Next]_vars
-----------------------------------------------------------------------------
(* Properties. *)

\* Whatever the policy, the array and the index behave as a bounded log: at
\* every moment the file that would be written is the log, oldest first.
Log == INSTANCE BoundedLog WITH
         Element <- Payload,
         log     <- IF tracrThread = NoThread THEN << >>
                    ELSE FlushTraces(tracrThread),
         file    <- bts,
         failed  <- status = "failed"

LogSpec == Log!Spec

\* A traces.bts file is in timestamp order, as the merge of the post-processor
\* takes for granted (PayloadMerger, tracr_process.cpp), also after the array
\* wrapped.
FileInTimeOrder ==
  \A i, j \in DOMAIN bts : i < j => bts[i].timestamp <= bts[j].timestamp

\* The debug dump shows the entries the buffer holds, as the flush would.
DumpShowsBuffer ==
  tracrThread # NoThread => ThreadTraceStr(tracrThread) = FlushTraces(tracrThread)

=============================================================================
