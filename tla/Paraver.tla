------------------------------ MODULE Paraver -------------------------------
(***************************************************************************)
(* The Paraver writer (tracr.prv): it collects the payloads of all procs,  *)
(* sorts the sets and resets by time, pairs the two ends of every flow     *)
(* into a communication record, and writes both kinds in time order.       *)
(* tracr.pcf and tracr.row hold names only; what is left of them is that   *)
(* they may not be writable.                                               *)
(***************************************************************************)
EXTENDS ProcData, SequencesExt

VARIABLES
  procs,
  p,               \* the proc being read; 0 before the first
  pc,              \* "open", "proc" (between two procs), "merge", "write", "row"
                   \* or "over"
  merger,
  records,         \* the sets and resets, each with its file and place (history)
  flow_starts,     \* flow id -> ends of arrows
  flow_ends,
  comms,           \* the arrows
  unmatched,
  rec, c,          \* how many records and arrows are written
  prv,             \* what is written to tracr.prv
  good,            \* no write has failed: what is written is in the file
  result           \* "running", "ok", "failed", or "undefined": an index past the
                   \* end of markerColorIds

collected == << merger, records, flow_starts, flow_ends >>
paired    == << comms, unmatched >>
written   == << rec, c, prv, good >>
vars == << procs, p, pc, collected, paired, written, result >>

Row == [task : DOMAIN procs, thread : Nat \ {0}, timestamp : 0 .. UInt64Max]

IsRow(x) == [task |-> x.task, thread |-> x.thread, timestamp |-> x.timestamp] \in Row

TypeOK ==
  /\ p \in 0 .. Len(procs)
  /\ pc \in {"open", "proc", "merge", "write", "row", "over"}
  /\ result \in {"running", "ok", "failed", "undefined"}
  /\ good \in BOOLEAN
  /\ \A i \in DOMAIN records : IsRow(records[i])
  /\ \A f \in {flow_starts, flow_ends} : \A id \in DOMAIN f : f[id] \in Seq(Row)
  /\ \A i \in DOMAIN comms : comms[i].send \in Row /\ comms[i].recv \in Row
  /\ unmatched \in Nat
  /\ rec \in 0 .. Len(records) /\ c \in 0 .. Len(comms)
  /\ Len(prv) = rec + c

NoFlows == [id \in {} |-> << >>]

Init ==
  /\ procs \in Inputs
  /\ p = 0 /\ pc = "open"
  /\ merger = NewMerger(<< >>)
  /\ records = << >>
  /\ flow_starts = NoFlows /\ flow_ends = NoFlows
  /\ comms = << >> /\ unmatched = 0
  /\ rec = 0 /\ c = 0
  /\ prv = << >> /\ good = TRUE
  /\ result = "running"

-----------------------------------------------------------------------------
(* The time base. *)

SinceStart(t, proc) == Sub64(t, SyncStart(proc))

\* Faulty variant, used to test the properties.
FirstProcT0 ==
  LET first == {SinceStart(t, procs[1]) : t \in FirstTimes(procs[1].files)}
  IN  IF first = {} THEN 0 ELSE Min(first)

\* The first payload of all procs, each since its own start.
GlobalT0 ==
  LET first == UNION {{SinceStart(t, procs[q]) : t \in FirstTimes(procs[q].files)} :
                        q \in DOMAIN procs}
      t0    == Min(first \cup {UInt64Max})
  IN  IF t0 = UInt64Max THEN 0 ELSE t0

\* The length of the timeline, in the header of the file.
TotalTime ==
  LET latest == Max({SyncEnd(procs[q]) - SyncStart(procs[q]) : q \in DOMAIN procs}
                      \cup {0})
  IN  IF latest > GlobalT0 THEN latest - GlobalT0 ELSE 0

\* Faulty variant, used to test the properties.
ZeroBasedRow(payload) ==
  [task |-> p, thread |-> payload.channelId,
   timestamp |-> Sub64(SinceStart(payload.timestamp, procs[p]), GlobalT0)]

\* Where a payload is drawn.  Nobody compares the channel with the number of
\* channels.
RowOf(payload) ==
  [task |-> p, thread |-> payload.channelId + 1,
   timestamp |-> Sub64(SinceStart(payload.timestamp, procs[p]), GlobalT0)]

-----------------------------------------------------------------------------
(* Collecting. *)

Files == procs[p].files

\* The pcf comes first.
Open ==
  /\ pc = "open"
  /\ pc' = "proc"
  /\ UNCHANGED << procs, p, collected, paired, written, result >>

Fails(place) ==
  /\ pc = place
  /\ pc' = "over" /\ result' = "failed"
  /\ UNCHANGED << procs, p, collected, paired, written >>

OpenFails == Fails("open")

BeginProc ==
  /\ pc = "proc" /\ p < Len(procs)
  /\ p' = p + 1
  /\ pc' = "merge"
  /\ merger' = NewMerger(procs[p + 1].files)
  /\ UNCHANGED << procs, records, flow_starts, flow_ends, paired, written, result >>

\* The sequence of a flow id, empty if it has none.
Ends(f, id) == IF id \in DOMAIN f THEN f[id] ELSE << >>

WithEnd(f, id, row) ==
  [k \in DOMAIN f \cup {id} |-> IF k = id THEN Append(Ends(f, id), row) ELSE f[k]]

Flow(e) ==
  LET payload == PayloadAt(Files, merger, e)
      id      == payload.extraId
  IN  /\ IsFlow(payload)
      /\ IF payload.eventId = EVENTID_FLOW_START
         THEN flow_starts' = WithEnd(flow_starts, id, RowOf(payload))
              /\ UNCHANGED flow_ends
         ELSE flow_ends' = WithEnd(flow_ends, id, RowOf(payload))
              /\ UNCHANGED flow_starts
      /\ merger' = Popped(Files, merger, e)
      /\ UNCHANGED << records, pc, result >>

\* A reset is drawn as colour 0, whatever the table.
HasColor(payload) ==
  payload.eventId = EVENTID_RESET \/ HasLabel(procs[p], payload)

SetOrReset(e) ==
  LET payload == PayloadAt(Files, merger, e)
      row     == RowOf(payload)
  IN  /\ ~ IsFlow(payload) /\ HasColor(payload)
      /\ records' = Append(records, [task |-> row.task, thread |-> row.thread,
                                     timestamp |-> row.timestamp,
                                     eventId |-> payload.eventId,
                                     file |-> e.file_idx,
                                     place |-> merger.ptrs[e.file_idx] + 1])
      /\ merger' = Popped(Files, merger, e)
      /\ UNCHANGED << flow_starts, flow_ends, pc, result >>

\* markerColorIds[payload.eventId] is read without a check.
NoColor(e) ==
  LET payload == PayloadAt(Files, merger, e)
  IN  /\ ~ IsFlow(payload) /\ ~ HasColor(payload)
      /\ pc' = "over" /\ result' = "undefined"
      /\ UNCHANGED collected

MergeStep ==
  /\ pc = "merge"
  /\ \E e \in Tops(merger) : Flow(e) \/ SetOrReset(e) \/ NoColor(e)
  /\ UNCHANGED << procs, p, paired, written >>

EndProc ==
  /\ pc = "merge" /\ Empty(merger)
  /\ pc' = "proc"
  /\ UNCHANGED << procs, p, collected, paired, written, result >>

-----------------------------------------------------------------------------
(* Sorting and pairing. *)

\* s with the element of rank k at place k.
Ranked(s, rank) == [k \in DOMAIN s |-> s[CHOOSE i \in DOMAIN s : rank[i] = k]]

\* Faulty variant, used to test the properties.
TiesReversed(s) ==
  Ranked(s, [i \in DOMAIN s |-> Cardinality({j \in DOMAIN s :
                                  \/ s[j].timestamp < s[i].timestamp
                                  \/ s[j].timestamp = s[i].timestamp /\ j >= i})])

StableSorted(s) ==
  Ranked(s, [i \in DOMAIN s |-> Cardinality({j \in DOMAIN s :
                                  \/ s[j].timestamp < s[i].timestamp
                                  \/ s[j].timestamp = s[i].timestamp /\ j <= i})])

\* The orders in which std::sort may leave the elements of S, given their times: it
\* keeps none among equal ones.
Sortings(S, time) ==
  {s \in SetToSeqs(S) : \A i, j \in DOMAIN s : i < j => time[s[i]] <= time[s[j]]}

RowTimes(rows) == [k \in DOMAIN rows |-> rows[k].timestamp]

StartOrders(id) == Sortings(DOMAIN flow_starts[id], RowTimes(flow_starts[id]))

\* Faulty variant, used to test the properties.
AsCollected(id) == {[k \in DOMAIN Ends(flow_ends, id) |-> k]}

EndOrders(id) == Sortings(DOMAIN Ends(flow_ends, id), RowTimes(Ends(flow_ends, id)))

NumPairs(id) == Min({Len(Ends(flow_starts, id)), Len(Ends(flow_ends, id))})

\* The arrows of one flow: the first start with the first end, and so on.
PairingsOf(id) ==
  {[i \in 1 .. NumPairs(id) |-> [send |-> flow_starts[id][s[i]],
                                 recv |-> flow_ends[id][e[i]],
                                 flowId |-> id]] :
     s \in StartOrders(id), e \in EndOrders(id)}

\* The arrows of each flow.
Pairings ==
  LET ids == DOMAIN flow_starts
  IN  {arrows \in [ids -> UNION {PairingsOf(id) : id \in ids}] :
         \A id \in ids : arrows[id] \in PairingsOf(id)}

Pairs == UNION {{<< id, i >> : i \in 1 .. NumPairs(id)} : id \in DOMAIN flow_starts}

SendTimes(arrows) == [x \in Pairs |-> arrows[x[1]][x[2]].send.timestamp]

\* What is left of the flows in f behind the last pair.
Rest(f) == UNION {{<< id, i >> : i \in NumPairs(id) + 1 .. Len(f[id])} : id \in DOMAIN f}

\* Faulty variant, used to test the properties.
UnmatchedOfStarts ==
  Cardinality(Rest(flow_starts))
    + Cardinality({x \in Rest(flow_ends) : x[1] \in DOMAIN flow_starts})

\* Left over by a flow that has starts, and the ends of flows without any.
Unmatched == Cardinality(Rest(flow_starts)) + Cardinality(Rest(flow_ends))

\* The hash map has the flows in any order, and the last sort hides it.
SortAndPair ==
  /\ pc = "proc" /\ p = Len(procs)
  /\ records' = StableSorted(records)
  /\ \E arrows \in Pairings : \E order \in Sortings(Pairs, SendTimes(arrows)) :
       comms' = [k \in DOMAIN order |-> arrows[order[k][1]][order[k][2]]]
  /\ unmatched' = Unmatched
  /\ pc' = "write"
  /\ UNCHANGED << procs, p, merger, flow_starts, flow_ends, written, result >>

-----------------------------------------------------------------------------
(* Writing. *)

\* Faulty variant, used to test the properties.
RecordsFirst == rec = Len(records)

\* The next arrow leaves no later than the next record, or there is no record.
ArrowIsNext ==
  rec < Len(records) => comms[c + 1].send.timestamp <= records[rec + 1].timestamp

Write(line) ==
  /\ prv' = Append(prv, line)
  /\ UNCHANGED << procs, p, pc, collected, paired, good, result >>

WriteComm ==
  /\ pc = "write"
  /\ c < Len(comms) /\ ArrowIsNext
  /\ c' = c + 1 /\ UNCHANGED rec
  /\ Write([kind |-> "arrow", timestamp |-> comms[c + 1].send.timestamp,
            line |-> comms[c + 1]])

WriteRecord ==
  /\ pc = "write"
  /\ rec < Len(records) /\ ~ (c < Len(comms) /\ ArrowIsNext)
  /\ rec' = rec + 1 /\ UNCHANGED c
  /\ Write([kind |-> "event", timestamp |-> records[rec + 1].timestamp,
            line |-> records[rec + 1]])

\* Nobody looks at the state of the stream after it was opened.  One that fails at
\* the header has failed before the first of these lines.
WriteFails ==
  /\ pc = "write" /\ good
  /\ good' = FALSE
  /\ UNCHANGED << procs, p, pc, collected, paired, rec, c, prv, result >>

ClosePrv ==
  /\ pc = "write" /\ rec = Len(records) /\ c = Len(comms)
  /\ pc' = "row"
  /\ UNCHANGED << procs, p, collected, paired, written, result >>

WriteRow ==
  /\ pc = "row"
  /\ pc' = "over" /\ result' = "ok"
  /\ UNCHANGED << procs, p, collected, paired, written >>

RowFails == Fails("row")

Finished == pc = "over" /\ UNCHANGED vars

Next ==
  \/ Open \/ OpenFails \/ BeginProc \/ MergeStep \/ EndProc
  \/ SortAndPair \/ WriteComm \/ WriteRecord \/ WriteFails \/ ClosePrv
  \/ WriteRow \/ RowFails \/ Finished

Spec == Init /\ [][Next]_vars

-----------------------------------------------------------------------------
(* Properties. *)

Line(kind) == {i \in DOMAIN prv : prv[i].kind = kind}

\* "Paraver expects the records of all tasks in global time order", with the
\* arrows among them.
PrvInTimeOrder ==
  \A i, j \in DOMAIN prv : i < j => prv[i].timestamp <= prv[j].timestamp

\* Every time in the file lies on the timeline its header announces: neither of
\* the two subtractions wraps, whichever proc begins first and whatever its
\* anchors are.
TimesOnTimeline ==
  LET total == TotalTime
  IN  /\ \A i \in DOMAIN prv : prv[i].timestamp <= total
      /\ \A i \in Line("arrow") : prv[i].line.recv.timestamp <= total

\* The lines of tracr.prv from file i of proc q.
Events(q, i) == {k \in Line("event") : prv[k].line.task = q /\ prv[k].line.file = i}

\* Unless a write failed, each thread's sets and resets are in the file, in the
\* thread's own order also where their times are equal: otherwise a channel would
\* end in the wrong state.
StatesKept ==
  result = "ok" /\ good =>
    \A q \in DOMAIN procs : \A i \in DOMAIN procs[q].files :
      LET file == procs[q].files[i]
      IN  /\ {prv[k].line.place : k \in Events(q, i)}
               = {n \in DOMAIN file : ~ IsFlow(file[n])}
          /\ \A k, l \in Events(q, i) : k < l => prv[k].line.place < prv[l].line.place
          /\ \A k \in Events(q, i) :
               LET payload == file[prv[k].line.place]
               IN  /\ prv[k].line.eventId = payload.eventId
                   /\ prv[k].line.thread = payload.channelId + 1

\* The arrows of one flow id do not cross: of two messages the one sent first is
\* the one received first, whichever procs they come from.
ArrowsDoNotCross ==
  \A i, j \in Line("arrow") :
    LET a == prv[i].line  b == prv[j].line
    IN  a.flowId = b.flowId /\ a.send.timestamp < b.send.timestamp
          => a.recv.timestamp <= b.recv.timestamp

\* The places of the starts, or of the ends, of flows.
FlowPlaces(event) ==
  UNION {UNION {{<< q, i, n >> : n \in {k \in DOMAIN procs[q].files[i] :
                                          procs[q].files[i][k].eventId = event}} :
                  i \in DOMAIN procs[q].files} : q \in DOMAIN procs}

OfFlow(id, places) == {x \in places : procs[x[1]].files[x[2]][x[3]].extraId = id}

FlowIds == UNION {UNION {{procs[q].files[i][k].extraId : k \in DOMAIN procs[q].files[i]} :
                           i \in DOMAIN procs[q].files} : q \in DOMAIN procs}

\* Unless a write failed, every end of an arrow is accounted for: as many arrows of
\* each flow id as it has pairs, in whichever procs and files its ends are, and the
\* number in the warning is that of the ends that are not in the file.
FlowsAccounted ==
  result = "ok" /\ good =>
    LET Starts == FlowPlaces(EVENTID_FLOW_START)
        Stops  == FlowPlaces(EVENTID_FLOW_END)
    IN  /\ \A id \in FlowIds :
             Cardinality({k \in Line("arrow") : prv[k].line.flowId = id})
               = Min({Cardinality(OfFlow(id, Starts)), Cardinality(OfFlow(id, Stops))})
        /\ unmatched = Cardinality(Starts) + Cardinality(Stops)
                         - 2 * Cardinality(Line("arrow"))

=============================================================================
