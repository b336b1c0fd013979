------------------------------ MODULE Perfetto ------------------------------
(***************************************************************************)
(* The Perfetto writer: for one proc after the other it merges the traces  *)
(* and turns the payloads of every channel into slices, from a set to the  *)
(* next set or reset, and the flow payloads into arrow ends.  Names,       *)
(* extra ids and the metadata events are left out; an event keeps its      *)
(* proc, its track, its event id and its times.                            *)
(***************************************************************************)
EXTENDS ProcData, Sequences, FiniteSets

VARIABLES
  procs,
  p,               \* the proc being written; 0 before the first
  pc,              \* "open", "proc" (between two procs), "merge" or "over"
  merger,
  prev_payloads,   \* per channel, the last payload that changed its state
  traceEvents,     \* what is written to perfetto.json
  good,            \* no write has failed: what is written is in the file
  warned,          \* << proc, file >> of the threads whose last event "got lost"
  result,          \* "running", "ok", "failed", or "undefined": a label index past
                   \* the end of markerLabels
  merged           \* history: the payloads consumed, each with its proc, its file and
                   \* its place in the file

writer == << merger, prev_payloads, traceEvents, merged >>
vars == << procs, p, pc, writer, good, warned, result >>

TypeOK ==
  /\ p \in 0 .. Len(procs)
  /\ pc \in {"open", "proc", "merge", "over"}
  /\ good \in BOOLEAN
  /\ result \in {"running", "ok", "failed", "undefined"}
  /\ pc = "merge" => DOMAIN prev_payloads = 0 .. procs[p].num_channels - 1
  /\ \A i \in DOMAIN traceEvents :
       /\ traceEvents[i].ph \in {"X", "s", "f"}
       /\ traceEvents[i].pid \in DOMAIN procs
       /\ traceEvents[i].tid \in 1 .. procs[traceEvents[i].pid].num_channels
       /\ traceEvents[i].ts \in 0 .. UInt64Max

Init ==
  /\ procs \in Inputs
  /\ p = 0 /\ pc = "open"
  /\ merger = NewMerger(<< >>)
  /\ prev_payloads = << >>
  /\ traceEvents = << >> /\ good = TRUE
  /\ warned = {}
  /\ result = "running"
  /\ merged = << >>

Files == procs[p].files

Open ==
  /\ pc = "open"
  /\ pc' = "proc"
  /\ UNCHANGED << procs, p, writer, good, warned, result >>

OpenFails ==
  /\ pc = "open"
  /\ pc' = "over" /\ result' = "failed"
  /\ UNCHANGED << procs, p, writer, good, warned >>

ClosedPayload == [channelId |-> 0, eventId |-> EVENTID_RESET, timestamp |-> 0]

BeginProc ==
  /\ pc = "proc" /\ p < Len(procs)
  /\ p' = p + 1
  /\ pc' = "merge"
  /\ merger' = NewMerger(procs[p + 1].files)
  /\ prev_payloads' = [c \in 0 .. procs[p + 1].num_channels - 1 |-> ClosedPayload]
  /\ UNCHANGED << procs, traceEvents, merged, good, warned, result >>

IsOpen(payload) == payload.eventId # EVENTID_RESET

InBounds(payload) == payload.channelId < procs[p].num_channels

Emit(event) == traceEvents' = Append(traceEvents, event)

\* next() was called, with top e.
Consume(e) ==
  /\ merger' = Popped(Files, merger, e)
  /\ merged' = Append(merged, [payload |-> PayloadAt(Files, merger, e),
                               pid |-> p, file |-> e.file_idx,
                               place |-> merger.ptrs[e.file_idx] + 1])
  /\ UNCHANGED << procs, p, good, warned >>

\* Faulty variant, used to test the properties.
SkipOutOfBounds(e) ==
  /\ ~ InBounds(PayloadAt(Files, merger, e))
  /\ merger' = Popped(Files, merger, e)
  /\ UNCHANGED << procs, p, pc, prev_payloads, traceEvents, merged, good, warned, result >>

\* The writer gives up: perfetto.json stays without its end.
OutOfBounds(e) ==
  /\ ~ InBounds(PayloadAt(Files, merger, e))
  /\ pc' = "over" /\ result' = "failed"
  /\ UNCHANGED << procs, p, writer, good, warned >>

\* Faulty variant, used to test the properties.
ZeroBasedTrack(payload, pid) ==
  [ph |-> "s", pid |-> pid, tid |-> payload.channelId, eventId |-> payload.eventId,
   ts |-> Sub64(payload.timestamp, SyncStart(procs[pid]))]

\* An arrow leaves ("s") or arrives ("f").
FlowEvent(payload, pid) ==
  [ph |-> IF payload.eventId = EVENTID_FLOW_START THEN "s" ELSE "f",
   pid |-> pid, tid |-> payload.channelId + 1, eventId |-> payload.eventId,
   ts |-> Sub64(payload.timestamp, SyncStart(procs[pid]))]

\* Faulty variant, used to test the properties.
FlowEndsSlice(e) ==
  LET payload == PayloadAt(Files, merger, e)
  IN  /\ InBounds(payload) /\ IsFlow(payload)
      /\ Emit(FlowEvent(payload, p))
      /\ prev_payloads' = [prev_payloads EXCEPT ![payload.channelId].timestamp =
                             payload.timestamp]
      /\ Consume(e)
      /\ UNCHANGED << pc, result >>

\* The slice state of the channel is left alone.
Flow(e) ==
  LET payload == PayloadAt(Files, merger, e)
  IN  /\ InBounds(payload) /\ IsFlow(payload)
      /\ Emit(FlowEvent(payload, p))
      /\ Consume(e)
      /\ UNCHANGED << prev_payloads, pc, result >>

SliceEvent(prev, payload, pid) ==
  [ph |-> "X", pid |-> pid, tid |-> prev.channelId + 1, eventId |-> prev.eventId,
   ts |-> Sub64(prev.timestamp, SyncStart(procs[pid])),
   dur |-> Sub64(payload.timestamp, prev.timestamp)]

\* What the channel remembers.
NewPrev(prev, payload) == payload

\* A set or a reset closes the slice that is open on the channel, if any.
SetOrReset(e) ==
  LET payload == PayloadAt(Files, merger, e)
      c       == payload.channelId
      prev    == prev_payloads[c]
  IN  /\ InBounds(payload) /\ ~ IsFlow(payload)
      /\ IsOpen(prev) => HasLabel(procs[p], prev)
      /\ IF IsOpen(prev) THEN Emit(SliceEvent(prev, payload, p))
                         ELSE UNCHANGED traceEvents
      /\ prev_payloads' = [prev_payloads EXCEPT ![c] = NewPrev(prev, payload)]
      /\ Consume(e)
      /\ UNCHANGED << pc, result >>

\* markerLabels[prev.eventId] is read without a check.
NoLabel(e) ==
  LET payload == PayloadAt(Files, merger, e)
  IN  /\ InBounds(payload) /\ ~ IsFlow(payload)
      /\ IsOpen(prev_payloads[payload.channelId])
      /\ ~ HasLabel(procs[p], prev_payloads[payload.channelId])
      /\ pc' = "over" /\ result' = "undefined"
      /\ UNCHANGED << procs, p, writer, good, warned >>

MergeStep ==
  pc = "merge" /\ \E e \in Tops(merger) :
                    OutOfBounds(e) \/ Flow(e) \/ SetOrReset(e) \/ NoLabel(e)

\* Faulty variant, used to test the properties.
AnyPayload(file) == DOMAIN file

\* The places of a file whose payload changes the state of a channel.
StateChanges(file) == {k \in DOMAIN file : ~ IsFlow(file[k])}

\* validate_last_events_for_perfetto(): a thread is warned of when its last
\* such payload is not a reset.
Unfinished(files) ==
  {i \in DOMAIN files : /\ StateChanges(files[i]) # {}
                        /\ IsOpen(files[i][Max(StateChanges(files[i]))])}

EndProc ==
  /\ pc = "merge" /\ Empty(merger)
  /\ warned' = warned \cup {<< p, i >> : i \in Unfinished(Files)}
  /\ pc' = "proc"
  /\ UNCHANGED << procs, p, writer, good, result >>

\* Nobody looks at the state of the stream after it was opened.
WriteFails ==
  /\ pc \in {"proc", "merge"} /\ good
  /\ good' = FALSE
  /\ UNCHANGED << procs, p, pc, writer, warned, result >>

\* What is reported does not depend on it either.
Close ==
  /\ pc = "proc" /\ p = Len(procs)
  /\ pc' = "over" /\ result' = "ok"
  /\ UNCHANGED << procs, p, writer, good, warned >>

Finished == pc = "over" /\ UNCHANGED vars

Next ==
  \/ Open \/ OpenFails \/ BeginProc \/ MergeStep \/ EndProc
  \/ WriteFails \/ Close \/ Finished

Spec == Init /\ [][Next]_vars

-----------------------------------------------------------------------------
(* Properties. *)

Channels(q) == 0 .. procs[q].num_channels - 1

\* Where in the merge the state of channel c of proc q changes.
Changes(q, c) ==
  {k \in DOMAIN merged : /\ merged[k].pid = q
                         /\ merged[k].payload.channelId = c
                         /\ ~ IsFlow(merged[k].payload)}

\* Where the slices of the channel are.
Slices(q, c) ==
  {i \in DOMAIN traceEvents : /\ traceEvents[i].ph = "X"
                              /\ traceEvents[i].pid = q
                              /\ traceEvents[i].tid = c + 1}

\* The definition of a slice: a set, and whatever changes its channel next.
NextChange(q, c, k, l) ==
  k < l /\ l \in Changes(q, c) /\ \A m \in Changes(q, c) : m <= k \/ l <= m

SliceSets(q, c) ==
  {k \in Changes(q, c) : /\ IsOpen(merged[k].payload)
                         /\ \E l \in Changes(q, c) : k < l}

Before(S, n) == Cardinality({m \in S : m < n})

\* Each channel has exactly the slices its payloads define, in their order,
\* whichever threads they come from and whatever flow payloads lie between them:
\* they are as many, and the n-th slice is that of the n-th set.
SlicesMatch ==
  \A q \in 1 .. p : \A c \in Channels(q) :
    /\ Cardinality(Slices(q, c)) = Cardinality(SliceSets(q, c))
    /\ \A i \in Slices(q, c), k \in SliceSets(q, c) :
         Before(Slices(q, c), i) = Before(SliceSets(q, c), k) =>
           \A l \in Changes(q, c) :
             NextChange(q, c, k, l) =>
               traceEvents[i] = SliceEvent(merged[k].payload, merged[l].payload, q)

\* No subtraction wraps, also when start_time or end_time do not enclose the
\* payloads (a file of an earlier session) or are missing (an older library):
\* all times lie between the sync anchors.
TimesWithinSession ==
  \A i \in DOMAIN traceEvents :
    LET ev   == traceEvents[i]
        proc == procs[ev.pid]
    IN  ev.ts + (IF ev.ph = "X" THEN ev.dur ELSE 0) <= SyncEnd(proc) - SyncStart(proc)

PayloadOf(q, x) == procs[q].files[x[1]][x[2]]

\* What proc q recorded on channel c, by file and place.
Places(q, c) ==
  UNION {{<< i, n >> : n \in {k \in DOMAIN procs[q].files[i] :
                                procs[q].files[i][k].channelId = c}} :
           i \in DOMAIN procs[q].files}

\* The sets and resets of the channel, those of them that are not earlier than any
\* other, and everything an event is due for: sets and flow payloads.
States(q, c) == {x \in Places(q, c) : ~ IsFlow(PayloadOf(q, x))}
Latest(q, c) == {x \in States(q, c) : \A y \in States(q, c) :
                   PayloadOf(q, y).timestamp <= PayloadOf(q, x).timestamp}
Due(q, c)    == {x \in Places(q, c) : PayloadOf(q, x).eventId # EVENTID_RESET}
NoPlace      == << 0, 0 >>

\* An event without its duration, and that of a payload.
Key(ev) == << ev.ph, ev.pid, ev.tid, ev.eventId, ev.ts >>

KeyOf(payload, q) == IF IsFlow(payload) THEN Key(FlowEvent(payload, q))
                                         ELSE Key(SliceEvent(payload, payload, q))

\* Of a file that is reported as written, and to which no write failed: every flow
\* payload and every set of every file of every proc has its event in it, as often
\* as it was recorded, except for one set of a channel at most, and only if no set
\* or reset of the channel is later.
Complete ==
  result = "ok" /\ good =>
    \A q \in DOMAIN procs : \A i \in DOMAIN procs[q].files :
      \A c \in {procs[q].files[i][n].channelId : n \in DOMAIN procs[q].files[i]} :
        \E lost \in Latest(q, c) \cup {NoPlace} : \A x \in Due(q, c) :
          LET key == KeyOf(PayloadOf(q, x), q)
          IN  Cardinality({k \in DOMAIN traceEvents : Key(traceEvents[k]) = key})
                = Cardinality({y \in Due(q, c) \ {lost} : KeyOf(PayloadOf(q, y), q) = key})

\* The last change of some channel of proc q is a set, and file i has it: its event
\* is lost.
LostOf(q, i) ==
  \E c \in Channels(q) : \E k \in Changes(q, c) :
    /\ \A l \in Changes(q, c) : l <= k
    /\ IsOpen(merged[k].payload) /\ merged[k].file = i

\* Every thread has one channel, and no two threads share one.
OwnChannels(q) ==
  \A i, j \in DOMAIN procs[q].files :
    \A k \in DOMAIN procs[q].files[i], l \in DOMAIN procs[q].files[j] :
      i = j <=> procs[q].files[i][k].channelId = procs[q].files[j][l].channelId

\* When every thread has a channel of its own (the layout of the examples), the
\* warning names exactly the threads that lost their last event.
WarningExact ==
  result = "ok" =>
    \A q \in DOMAIN procs : OwnChannels(q) =>
      \A i \in DOMAIN procs[q].files : << q, i >> \in warned <=> LostOf(q, i)

=============================================================================
