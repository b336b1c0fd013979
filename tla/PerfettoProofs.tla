--------------------------- MODULE PerfettoProofs ---------------------------
(***************************************************************************)
(* Proofs about the Perfetto writer, for every number of procs, of threads *)
(* and of payloads, whatever channels they are on and whatever anchors     *)
(* their metadata.json has.                                                *)
(***************************************************************************)
EXTENDS Perfetto, MergerProofs

-----------------------------------------------------------------------------
(* The inductive invariant. *)

\* The merge of proc q is over, and nothing of it is left.
Through(q) == q < p \/ (q = p /\ (pc = "proc" \/ result = "ok"))

Control ==
  /\ procs \in Inputs
  /\ p \in 0 .. Len(procs)
  /\ pc \in {"open", "proc", "merge", "over"}
  /\ result \in {"running", "ok", "failed", "undefined"}
  /\ result = "running" \/ pc = "over"
  /\ result = "ok" => p = Len(procs)
  /\ pc = "open" => p = 0
  /\ pc = "merge" => p # 0 /\ Mirrors(Files, merger)
                     /\ DOMAIN prev_payloads = Channels(p)

\* m is the payload at place n of file i of proc q.
IsAt(m, q, i, n) == m.pid = q /\ m.file = i /\ m.place = n

\* What was consumed comes from the files, once and in their order.
Recorded ==
  /\ OwnSeq(merged)
  /\ \A k \in DOMAIN merged :
       /\ merged[k].pid \in 1 .. p
       /\ merged[k].file \in DOMAIN procs[merged[k].pid].files
       /\ merged[k].place \in DOMAIN procs[merged[k].pid].files[merged[k].file]
       /\ merged[k].payload
            = procs[merged[k].pid].files[merged[k].file][merged[k].place]
       /\ merged[k].payload.channelId < procs[merged[k].pid].num_channels
  /\ \A k, l \in DOMAIN merged :
       k < l /\ merged[k].pid = merged[l].pid /\ merged[k].file = merged[l].file
         => merged[k].place < merged[l].place

\* It is all that was read.
AllRecorded ==
  /\ \A q \in DOMAIN procs : Through(q) =>
       \A i \in DOMAIN procs[q].files : \A n \in DOMAIN procs[q].files[i] :
         \E k \in DOMAIN merged : IsAt(merged[k], q, i, n)
  /\ pc = "merge" =>
       \A i \in DOMAIN Files : \A n \in DOMAIN Files[i] :
         n <= merger.ptrs[i] <=> \E k \in DOMAIN merged : IsAt(merged[k], p, i, n)

Warnings ==
  \A q, i : << q, i >> \in warned <=>
    q \in DOMAIN procs /\ Through(q) /\ i \in Unfinished(procs[q].files)

LastChange(q, c, k) == k \in Changes(q, c) /\ \A l \in Changes(q, c) : l <= k

\* prev_payloads has the last change of each channel.
Remembered ==
  pc = "merge" => \A c \in Channels(p) :
    \/ Changes(p, c) = {} /\ ~ IsOpen(prev_payloads[c])
    \/ \E k : LastChange(p, c, k) /\ prev_payloads[c] = merged[k].payload

\* What is consumed is not later than what is to come.
Monotone ==
  pc = "merge" => \A k \in DOMAIN merged : merged[k].pid = p =>
    \A e \in merger.heap : merged[k].payload.timestamp <= e.timestamp

Events ==
  /\ OwnSeq(traceEvents)
  /\ \A i \in DOMAIN traceEvents :
       /\ traceEvents[i].ph \in {"X", "s", "f"}
       /\ traceEvents[i].pid \in 1 .. p
       /\ traceEvents[i].tid \in 1 .. procs[traceEvents[i].pid].num_channels
       /\ traceEvents[i].ts \in 0 .. UInt64Max

IInv ==
  /\ Control /\ Recorded /\ AllRecorded /\ Warnings
  /\ Remembered /\ Monotone /\ Events
  /\ SlicesMatch /\ TimesWithinSession

-----------------------------------------------------------------------------
(* One payload is consumed. *)

\* What the merge offers.
LEMMA MergeFacts ==
  ASSUME IInv, pc = "merge"
  PROVE  /\ p \in DOMAIN procs /\ p \in Nat /\ IsProc(procs[p])
         /\ Traces(Files) /\ Mirrors(Files, merger)
         /\ UInt64Max \in Nat
<1>1. Control
  BY DEF IInv
<1>2. procs \in Inputs /\ p \in 0 .. Len(procs) /\ p # 0 /\ Mirrors(Files, merger)
  BY <1>1 DEF Control
<1>3. p \in DOMAIN procs /\ p \in Nat
  BY <1>2, InputFacts, ProcFacts
<1>  QED  BY <1>2, <1>3, InputFacts, ProcFacts DEF Files

LEMMA TopFacts ==
  ASSUME IInv, pc = "merge", NEW e \in Tops(merger)
  PROVE  LET i       == e.file_idx
             n       == merger.ptrs[e.file_idx] + 1
             payload == PayloadAt(Files, merger, e)
         IN  /\ e \in merger.heap /\ e.timestamp = payload.timestamp
             /\ i \in DOMAIN Files /\ n \in DOMAIN Files[i] /\ payload = Files[i][n]
             /\ merger.ptrs[i] \in Nat /\ n \in Nat
             /\ payload.channelId \in Nat /\ payload.timestamp \in 0 .. UInt64Max
             /\ SyncStart(procs[p]) <= payload.timestamp
             /\ payload.timestamp <= SyncEnd(procs[p])
<1>  DEFINE i == e.file_idx
            n == merger.ptrs[e.file_idx] + 1
            payload == PayloadAt(Files, merger, e)
<1>1. /\ IsProc(procs[p]) /\ Traces(Files) /\ Mirrors(Files, merger) /\ e \in merger.heap
  BY MergeFacts DEF Tops
<1>2. /\ i \in DOMAIN Files /\ n \in 1 .. Len(Files[i]) /\ payload = Files[i][n]
      /\ merger.ptrs[i] \in Nat /\ n \in Nat /\ e.timestamp = payload.timestamp
  BY <1>1, EntryFacts
<1>  HIDE DEF i, n, payload
<1>3. n \in DOMAIN Files[i]
  BY <1>1, <1>2, TraceFacts
<1>4. IsTrace(Files[i])
  BY <1>1, <1>2 DEF IsProc, Files
<1>5. payload.channelId \in Nat /\ payload.timestamp \in 0 .. UInt64Max
  BY <1>2, <1>3, <1>4, Zenon DEF IsTrace
<1>6. SyncStart(procs[p]) <= payload.timestamp /\ payload.timestamp <= SyncEnd(procs[p])
  BY <1>1, <1>2, <1>3, SyncBounds DEF Files
<1>  QED  BY <1>1, <1>2, <1>3, <1>5, <1>6 DEF i, n, payload

LEMMA ConsumeAppends ==
  ASSUME IInv, pc = "merge", NEW e \in Tops(merger), Consume(e)
  PROVE  LET K == Len(merged) + 1
         IN  /\ OwnSeq(merged') /\ DOMAIN merged = 1 .. Len(merged) /\ Len(merged) \in Nat
             /\ DOMAIN merged' = DOMAIN merged \cup {K} /\ K \notin DOMAIN merged
             /\ \A k \in DOMAIN merged : merged'[k] = merged[k] /\ k < K /\ k \in Nat
             /\ K \in Nat
             /\ merged'[K].payload = PayloadAt(Files, merger, e)
             /\ merged'[K].pid = p /\ merged'[K].file = e.file_idx
             /\ merged'[K].place = merger.ptrs[e.file_idx] + 1
             /\ procs' = procs /\ p' = p /\ warned' = warned
<1>  DEFINE x == [payload |-> PayloadAt(Files, merger, e), pid |-> p, file |-> e.file_idx,
                  place |-> merger.ptrs[e.file_idx] + 1]
<1>1. OwnSeq(merged)
  BY DEF IInv, Recorded
<1>2. merged' = Append(merged, x) /\ procs' = procs /\ p' = p /\ warned' = warned
  BY DEF Consume
<1>3. /\ x.payload = PayloadAt(Files, merger, e) /\ x.pid = p /\ x.file = e.file_idx
      /\ x.place = merger.ptrs[e.file_idx] + 1
  OBVIOUS
<1>  HIDE DEF x
<1>4. /\ OwnSeq(merged') /\ DOMAIN merged = 1 .. Len(merged) /\ Len(merged) \in Nat
      /\ DOMAIN merged' = DOMAIN merged \cup {Len(merged) + 1}
      /\ Len(merged) + 1 \notin DOMAIN merged
      /\ merged'[Len(merged) + 1] = x
      /\ \A k \in DOMAIN merged : merged'[k] = merged[k]
  BY <1>1, <1>2, OwnAppend
<1>5. \A k \in DOMAIN merged : k < Len(merged) + 1 /\ k \in Nat
  BY <1>4
<1>  QED  BY <1>2, <1>3, <1>4, <1>5

LEMMA ConsumeMirrors ==
  ASSUME IInv, pc = "merge", NEW e \in Tops(merger), Consume(e)
  PROVE  /\ Mirrors(Files, merger)'
         /\ merger'.ptrs = [merger.ptrs EXCEPT ![e.file_idx] = @ + 1]
         /\ Files' = Files
<1>1. Files' = Files /\ merger' = Popped(Files, merger, e)
  BY DEF Consume, Files
<1>2. e \in merger.heap
  BY DEF Tops
<1>3. /\ Mirrors(Files, merger')
      /\ merger'.ptrs = [merger.ptrs EXCEPT ![e.file_idx] = @ + 1]
  BY <1>1, <1>2, MergeFacts, PoppedMirrors
<1>  QED  BY <1>1, <1>3

LEMMA ConsumeRecorded ==
  ASSUME IInv, pc = "merge", NEW e \in Tops(merger), InBounds(PayloadAt(Files, merger, e)),
         Consume(e)
  PROVE  Recorded'
<1>  DEFINE i == e.file_idx
            n == merger.ptrs[e.file_idx] + 1
            K == Len(merged) + 1
            payload == PayloadAt(Files, merger, e)
<1>1. /\ i \in DOMAIN Files /\ n \in DOMAIN Files[i] /\ payload = Files[i][n]
      /\ merger.ptrs[i] \in Nat
  BY TopFacts
<1>2. /\ OwnSeq(merged') /\ DOMAIN merged' = DOMAIN merged \cup {K} /\ K \notin DOMAIN merged
      /\ \A k \in DOMAIN merged : merged'[k] = merged[k] /\ k < K /\ k \in Nat
      /\ merged'[K].payload = payload /\ merged'[K].pid = p /\ merged'[K].file = i
      /\ merged'[K].place = n /\ procs' = procs /\ p' = p /\ K \in Nat
  BY ConsumeAppends
<1>3. p \in DOMAIN procs /\ p \in 1 .. p
  BY MergeFacts, InputFacts, ProcFacts DEF IInv, Control
<1>4. payload.channelId < procs[p].num_channels
  BY DEF InBounds
<1>  HIDE DEF K, n, i, payload
<1>5. ASSUME NEW k \in DOMAIN merged'
      PROVE  /\ merged'[k].pid \in 1 .. p
             /\ merged'[k].file \in DOMAIN procs[merged'[k].pid].files
             /\ merged'[k].place \in DOMAIN procs[merged'[k].pid].files[merged'[k].file]
             /\ merged'[k].payload
                  = procs[merged'[k].pid].files[merged'[k].file][merged'[k].place]
             /\ merged'[k].payload.channelId < procs[merged'[k].pid].num_channels
  <2>1. CASE k \in DOMAIN merged
    BY <1>2, <2>1 DEF IInv, Recorded
  <2>2. CASE k = K
    BY <1>1, <1>2, <1>3, <1>4, <2>2 DEF Files
  <2>  QED  BY <1>2, <2>1, <2>2
<1>6. ASSUME NEW k \in DOMAIN merged, merged[k].pid = p, merged[k].file = i
      PROVE  merged[k].place < n
  <2>1. merged[k].place \in DOMAIN Files[i]
    BY <1>6 DEF IInv, Recorded, Files
  <2>2. merged[k].place <= merger.ptrs[i]
    BY <1>1, <1>6, <2>1 DEF IInv, AllRecorded, IsAt
  <2>3. DOMAIN Files[i] = 1 .. Len(Files[i]) /\ Len(Files[i]) \in Nat
    BY <1>1, MergeFacts, TraceFacts
  <2>  QED  BY <1>1, <2>1, <2>2, <2>3 DEF n, i
<1>7. ASSUME NEW k \in DOMAIN merged', NEW l \in DOMAIN merged', k < l,
             merged'[k].pid = merged'[l].pid, merged'[k].file = merged'[l].file
      PROVE  merged'[k].place < merged'[l].place
  <2>1. CASE k \in DOMAIN merged /\ l \in DOMAIN merged
    BY <1>2, <1>7, <2>1 DEF IInv, Recorded
  <2>2. CASE k \in DOMAIN merged /\ l = K
    BY <1>2, <1>6, <1>7, <2>2
  <2>3. CASE k = K
    BY <1>2, <1>7, <2>3
  <2>  QED  BY <1>2, <2>1, <2>2, <2>3
<1>  QED  BY <1>2, <1>5, <1>7 DEF Recorded

LEMMA ConsumeAll ==
  ASSUME IInv, pc = "merge", NEW e \in Tops(merger), Consume(e), UNCHANGED << pc, result >>
  PROVE  AllRecorded'
<1>  DEFINE i == e.file_idx
            n == merger.ptrs[e.file_idx] + 1
            K == Len(merged) + 1
<1>1. i \in DOMAIN Files /\ n \in DOMAIN Files[i] /\ merger.ptrs[i] \in Nat
  BY TopFacts
<1>2. /\ DOMAIN merged' = DOMAIN merged \cup {K}
      /\ \A k \in DOMAIN merged : merged'[k] = merged[k]
      /\ merged'[K].pid = p /\ merged'[K].file = i /\ merged'[K].place = n
      /\ procs' = procs /\ p' = p
  BY ConsumeAppends
<1>3. Files' = Files /\ merger'.ptrs = [merger.ptrs EXCEPT ![i] = @ + 1]
  BY ConsumeMirrors
<1>4. merger.ptrs \in [DOMAIN Files -> Nat]
  BY MergeFacts DEF Mirrors
<1>  HIDE DEF K
<1>5. ASSUME NEW q \in DOMAIN procs, Through(q), NEW j \in DOMAIN procs[q].files,
             NEW m \in DOMAIN procs[q].files[j]
      PROVE  \E k \in DOMAIN merged' : IsAt(merged'[k], q, j, m)
  BY <1>2, <1>5 DEF IInv, AllRecorded
<1>6. ASSUME NEW j \in DOMAIN Files, NEW m \in DOMAIN Files[j]
      PROVE  m <= merger'.ptrs[j] <=> \E k \in DOMAIN merged' : IsAt(merged'[k], p, j, m)
  <2>1. m <= merger.ptrs[j] <=> \E k \in DOMAIN merged : IsAt(merged[k], p, j, m)
    BY <1>6 DEF IInv, AllRecorded
  <2>2. IsAt(merged'[K], p, j, m) <=> j = i /\ m = n
    BY <1>2 DEF IsAt
  <2>3. merger'.ptrs[j] = IF j = i THEN merger.ptrs[i] + 1 ELSE merger.ptrs[j]
    BY <1>1, <1>3, <1>4
  <2>4. m \in Nat
    BY MergeFacts, TraceFacts
  <2>5. m <= merger'.ptrs[j] <=> m <= merger.ptrs[j] \/ (j = i /\ m = n)
    BY <1>1, <1>4, <2>3, <2>4
  <2>  QED  BY <1>2, <2>1, <2>2, <2>5
<1>7. \A q : Through(q)' <=> Through(q)
  BY <1>2 DEF Through
<1>  QED  BY <1>2, <1>3, <1>5, <1>6, <1>7 DEF AllRecorded

LEMMA ConsumeMonotone ==
  ASSUME IInv, pc = "merge", NEW e \in Tops(merger), Consume(e), UNCHANGED << pc, result >>
  PROVE  Monotone'
<1>  DEFINE K == Len(merged) + 1
            payload == PayloadAt(Files, merger, e)
<1>1. /\ DOMAIN merged' = DOMAIN merged \cup {K}
      /\ \A k \in DOMAIN merged : merged'[k] = merged[k]
      /\ merged'[K].payload = payload /\ p' = p
  BY ConsumeAppends
<1>2. e \in merger.heap /\ e.timestamp = payload.timestamp
  BY TopFacts
<1>3. merger' = Popped(Files, merger, e)
  BY DEF Consume
<1>4. \A f \in merger'.heap : e.timestamp \in Nat /\ f.timestamp \in Nat /\ e.timestamp <= f.timestamp
  <2>1. e.timestamp \in Nat
    BY <1>2, MergeFacts, EntryFacts
  <2>  QED  BY <1>3, <2>1, MergeFacts, HeapIsLater
<1>  HIDE DEF K, payload
<1>5. ASSUME NEW k \in DOMAIN merged', merged'[k].pid = p, NEW f \in merger'.heap
      PROVE  merged'[k].payload.timestamp <= f.timestamp
  <2>1. CASE k \in DOMAIN merged
    <3>1. merged[k].payload.timestamp <= e.timestamp
      BY <1>1, <1>2, <1>5, <2>1 DEF IInv, Monotone
    <3>2. merged[k].payload.timestamp \in Nat
      <4>1. /\ merged[k].pid = p /\ merged[k].file \in DOMAIN Files
            /\ merged[k].place \in DOMAIN Files[merged[k].file]
            /\ merged[k].payload = Files[merged[k].file][merged[k].place]
        BY <1>1, <1>5, <2>1 DEF IInv, Recorded, Files
      <4>  QED  BY <4>1, MergeFacts DEF Traces
    <3>  QED  BY <1>1, <1>4, <2>1, <3>1, <3>2
  <2>2. CASE k = K
    BY <1>1, <1>2, <1>4, <2>2
  <2>  QED  BY <1>1, <2>1, <2>2
<1>  QED  BY <1>1, <1>5 DEF Monotone

LEMMA ConsumeWarnings ==
  ASSUME IInv, NEW e, Consume(e), UNCHANGED << pc, result >>
  PROVE  Warnings'
<1>1. procs' = procs /\ p' = p /\ warned' = warned
  BY DEF Consume
<1>2. \A q : Through(q)' <=> Through(q)
  BY <1>1 DEF Through
<1>  QED  BY <1>1, <1>2 DEF IInv, Warnings

-----------------------------------------------------------------------------
(* What the channel remembers, and its slices. *)

\* A payload that is consumed changes the state of its channel, unless it is a
\* flow payload, and of no other.
LEMMA ConsumeChanges ==
  ASSUME IInv, pc = "merge", NEW e \in Tops(merger), Consume(e), NEW q, NEW c
  PROVE  LET payload == PayloadAt(Files, merger, e)
         IN  /\ Changes(q, c)' = IF q = p /\ payload.channelId = c /\ ~ IsFlow(payload)
                                 THEN Changes(q, c) \cup {Len(merged) + 1}
                                 ELSE Changes(q, c)
             /\ \A k \in Changes(q, c) : /\ k \in DOMAIN merged /\ merged'[k] = merged[k]
                                         /\ k \in Nat /\ k < Len(merged) + 1
             /\ Len(merged) + 1 \in Nat /\ merged'[Len(merged) + 1].payload = payload
<1>  DEFINE K == Len(merged) + 1
            payload == PayloadAt(Files, merger, e)
<1>1. /\ DOMAIN merged' = DOMAIN merged \cup {K}
      /\ \A k \in DOMAIN merged : merged'[k] = merged[k] /\ k < K /\ k \in Nat
      /\ merged'[K].payload = payload /\ merged'[K].pid = p /\ K \in Nat
      /\ K \notin DOMAIN merged
  BY ConsumeAppends
<1>  HIDE DEF K, payload
<1>2. \A k \in DOMAIN merged : k \in Changes(q, c)' <=> k \in Changes(q, c)
  BY <1>1 DEF Changes
<1>3. K \in Changes(q, c)' <=> q = p /\ payload.channelId = c /\ ~ IsFlow(payload)
  BY <1>1 DEF Changes
<1>4. \A k : /\ k \in Changes(q, c) => k \in DOMAIN merged
             /\ k \in Changes(q, c)' => k \in DOMAIN merged \cup {K}
  BY <1>1 DEF Changes
<1>5. Changes(q, c)' = IF q = p /\ payload.channelId = c /\ ~ IsFlow(payload)
                       THEN Changes(q, c) \cup {K} ELSE Changes(q, c)
  BY <1>1, <1>2, <1>3, <1>4
<1>  QED  BY <1>1, <1>4, <1>5 DEF K, payload

LEMMA FlowRemembered ==
  ASSUME IInv, pc = "merge", NEW e \in Tops(merger), Flow(e)
  PROVE  Remembered'
<1>1. IsFlow(PayloadAt(Files, merger, e)) /\ Consume(e) /\ UNCHANGED << prev_payloads, pc >>
  BY DEF Flow
<1>2. p' = p /\ Channels(p)' = Channels(p)
  BY <1>1 DEF Consume, Channels
<1>3. ASSUME NEW c
      PROVE  /\ Changes(p, c)' = Changes(p, c)
             /\ \A k \in Changes(p, c) : merged'[k] = merged[k]
  BY <1>1, <1>2, ConsumeChanges
<1>4. ASSUME NEW c \in Channels(p)
      PROVE  \/ Changes(p, c)' = {} /\ ~ IsOpen(prev_payloads'[c])
             \/ \E k : LastChange(p, c, k)' /\ prev_payloads'[c] = merged'[k].payload
  <2>1. CASE Changes(p, c) = {} /\ ~ IsOpen(prev_payloads[c])
    BY <1>1, <1>3, <2>1
  <2>2. CASE \E k : LastChange(p, c, k) /\ prev_payloads[c] = merged[k].payload
    <3>1. PICK k : LastChange(p, c, k) /\ prev_payloads[c] = merged[k].payload
      BY <2>2
    <3>2. LastChange(p, c, k)' /\ prev_payloads'[c] = merged'[k].payload
      BY <1>1, <1>2, <1>3, <3>1 DEF LastChange
    <3>  QED  BY <3>2
  <2>  QED  BY <2>1, <2>2 DEF IInv, Remembered
<1>  QED  BY <1>2, <1>4 DEF Remembered

LEMMA SetOrResetRemembered ==
  ASSUME IInv, pc = "merge", NEW e \in Tops(merger), SetOrReset(e)
  PROVE  Remembered'
<1>  DEFINE payload == PayloadAt(Files, merger, e)
            d == payload.channelId
<1>1. /\ InBounds(payload) /\ ~ IsFlow(payload) /\ Consume(e) /\ UNCHANGED pc
      /\ prev_payloads' = [prev_payloads EXCEPT ![d] = payload]
  BY DEF SetOrReset, NewPrev
<1>  PICK K : K = Len(merged) + 1
  OBVIOUS
<1>2. p' = p /\ Channels(p)' = Channels(p)
  BY <1>1 DEF Consume, Channels
<1>3. DOMAIN prev_payloads = Channels(p)
  BY DEF IInv, Control
<1>4. ASSUME NEW c
      PROVE  /\ Changes(p, c)' = IF d = c THEN Changes(p, c) \cup {K} ELSE Changes(p, c)
             /\ \A k \in Changes(p, c) : merged'[k] = merged[k] /\ k \in Nat /\ k < K
             /\ K \in Nat /\ merged'[K].payload = payload
  BY <1>1, <1>2, ConsumeChanges
<1>  HIDE DEF payload, d
<1>5. ASSUME NEW c \in Channels(p)
      PROVE  \/ Changes(p, c)' = {} /\ ~ IsOpen(prev_payloads'[c])
             \/ \E k : LastChange(p, c, k)' /\ prev_payloads'[c] = merged'[k].payload
  <2>1. CASE c = d
    <3>1. prev_payloads'[c] = merged'[K].payload
      BY <1>1, <1>3, <1>4, <2>1
    <3>2. K \in Changes(p, c)' /\ \A l \in Changes(p, c)' : l <= K
      BY <1>4, <2>1
    <3>3. LastChange(p, c, K)'
      BY <1>2, <3>2 DEF LastChange
    <3>  QED  BY <3>1, <3>3
  <2>2. CASE c # d
    <3>1. Changes(p, c)' = Changes(p, c) /\ prev_payloads'[c] = prev_payloads[c]
      BY <1>1, <1>3, <1>4, <2>2
    <3>2. CASE Changes(p, c) = {} /\ ~ IsOpen(prev_payloads[c])
      BY <3>1, <3>2
    <3>3. CASE \E k : LastChange(p, c, k) /\ prev_payloads[c] = merged[k].payload
      <4>1. PICK k : LastChange(p, c, k) /\ prev_payloads[c] = merged[k].payload
        BY <3>3
      <4>2. LastChange(p, c, k)' /\ prev_payloads'[c] = merged'[k].payload
        BY <1>2, <1>4, <3>1, <4>1 DEF LastChange
      <4>  QED  BY <4>2
    <3>  QED  BY <3>2, <3>3 DEF IInv, Remembered
  <2>  QED  BY <2>1, <2>2
<1>  QED  BY <1>2, <1>5 DEF Remembered

\* SlicesMatch for one channel, as a relation between its slices S, its changes C,
\* the events and what was consumed.
SliceOf(proc, q, prev, payload) ==
  [ph |-> "X", pid |-> q, tid |-> prev.channelId + 1, eventId |-> prev.eventId,
   ts |-> Sub64(prev.timestamp, SyncStart(proc)),
   dur |-> Sub64(payload.timestamp, prev.timestamp)]

SetsIn(C, m) == {k \in C : IsOpen(m[k].payload) /\ \E l \in C : k < l}

NextIn(C, k, l) == k < l /\ l \in C /\ \A n \in C : n <= k \/ l <= n

Paired(S, C, events, m, proc, q) ==
  /\ Cardinality(S) = Cardinality(SetsIn(C, m))
  /\ \A i \in S, k \in SetsIn(C, m) :
       Rank(S, i) = Rank(SetsIn(C, m), k) =>
         \A l \in C : NextIn(C, k, l) =>
                        events[i] = SliceOf(proc, q, m[k].payload, m[l].payload)

Matched(q, c) == Paired(Slices(q, c), Changes(q, c), traceEvents, merged, procs[q], q)

LEMMA MatchIsPaired ==
  SlicesMatch <=> \A q \in 1 .. p : \A c \in Channels(q) : Matched(q, c)
<1>1. \A q, a, b : SliceEvent(a, b, q) = SliceOf(procs[q], q, a, b)
  BY DEF SliceEvent, SliceOf
<1>2. \A q, c : SliceSets(q, c) = SetsIn(Changes(q, c), merged)
  BY DEF SliceSets, SetsIn
<1>3. \A q, c, k, l : NextChange(q, c, k, l) <=> NextIn(Changes(q, c), k, l)
  BY DEF NextChange, NextIn
<1>4. \A S, n : Before(S, n) = Rank(S, n)
  BY DEF Before, Rank
<1>  QED  BY <1>1, <1>2, <1>3, <1>4 DEF SlicesMatch, Matched, Paired

\* A channel nothing happens to.
LEMMA PairedStays ==
  ASSUME NEW S, NEW C, NEW ev, NEW m, NEW proc, NEW q, Paired(S, C, ev, m, proc, q),
         NEW ev2, NEW m2, \A i \in S : ev2[i] = ev[i], \A k \in C : m2[k] = m[k]
  PROVE  Paired(S, C, ev2, m2, proc, q)
<1>1. SetsIn(C, m2) = SetsIn(C, m) /\ SetsIn(C, m) \subseteq C
  BY DEF SetsIn
<1>  QED  BY <1>1 DEF Paired

\* A change of a channel that is not open.
LEMMA PairedUnopened ==
  ASSUME NEW S, NEW C \in SUBSET Nat, NEW ev, NEW m, NEW proc, NEW q,
         Paired(S, C, ev, m, proc, q),
         NEW ev2, NEW m2, \A i \in S : ev2[i] = ev[i], \A k \in C : m2[k] = m[k],
         NEW K \in Nat, \A k \in C : k < K,
         \A k \in C : (\A l \in C : l <= k) => ~ IsOpen(m[k].payload)
  PROVE  Paired(S, C \cup {K}, ev2, m2, proc, q)
<1>  DEFINE D == C \cup {K}
<1>1. SetsIn(D, m2) = SetsIn(C, m)
  <2>1. ASSUME NEW k \in SetsIn(D, m2) PROVE k \in SetsIn(C, m)
    <3>1. k \in C /\ IsOpen(m[k].payload)
      <4>1. k # K
        BY <2>1 DEF SetsIn
      <4>  QED  BY <2>1, <4>1 DEF SetsIn
    <3>2. PICK l \in C : ~ (l <= k)
      BY <3>1
    <3>  QED  BY <3>1, <3>2 DEF SetsIn
  <2>2. ASSUME NEW k \in SetsIn(C, m) PROVE k \in SetsIn(D, m2)
    BY <2>2 DEF SetsIn
  <2>  QED  BY <2>1, <2>2
<1>2. \A k \in SetsIn(C, m) : k \in C /\ \E l \in C : k < l
  BY DEF SetsIn
<1>3. ASSUME NEW k \in SetsIn(C, m), NEW l \in D, NextIn(D, k, l)
      PROVE  l \in C /\ NextIn(C, k, l)
  <2>1. PICK n \in C : k < n
    BY <1>2
  <2>2. k \in Nat /\ n \in Nat /\ l \in Nat /\ n < K
    BY <1>2
  <2>3. n <= k \/ l <= n
    BY <1>3 DEF NextIn
  <2>4. l # K
    BY <2>1, <2>2, <2>3
  <2>  QED  BY <1>3, <2>4 DEF NextIn
<1>4. ASSUME NEW i \in S, NEW k \in SetsIn(C, m), Rank(S, i) = Rank(SetsIn(C, m), k),
             NEW l \in D, NextIn(D, k, l)
      PROVE  ev2[i] = SliceOf(proc, q, m2[k].payload, m2[l].payload)
  BY <1>2, <1>3, <1>4 DEF Paired
<1>5. Cardinality(S) = Cardinality(SetsIn(C, m))
  BY DEF Paired
<1>  HIDE DEF D
<1>6. Paired(S, D, ev2, m2, proc, q)
  BY <1>1, <1>4, <1>5 DEF Paired
<1>  QED  BY <1>6 DEF D

\* A change of an open channel, which writes the slice of its last set.
LEMMA PairedClosed ==
  ASSUME NEW S \in SUBSET Nat, NEW C \in SUBSET Nat, IsFiniteSet(S), IsFiniteSet(C),
         NEW ev, NEW m, NEW proc, NEW q, Paired(S, C, ev, m, proc, q),
         NEW ev2, NEW m2, \A i \in S : ev2[i] = ev[i], \A k \in C : m2[k] = m[k],
         NEW K \in Nat, \A k \in C : k < K,
         NEW h \in C, \A l \in C : l <= h, IsOpen(m[h].payload),
         NEW I \in Nat, \A i \in S : i < I,
         ev2[I] = SliceOf(proc, q, m[h].payload, m2[K].payload)
  PROVE  Paired(S \cup {I}, C \cup {K}, ev2, m2, proc, q)
<1>  DEFINE D == C \cup {K}
            T == SetsIn(C, m)
<1>1. T \in SUBSET C /\ T \in SUBSET Nat /\ \A k \in T : k < h
  <2>1. ASSUME NEW k \in T PROVE k \in C /\ k < h
    <3>1. PICK l \in C : k < l
      BY DEF SetsIn
    <3>2. k \in C /\ l <= h
      BY DEF SetsIn
    <3>3. k \in Nat /\ l \in Nat /\ h \in Nat
      BY <3>2
    <3>  HIDE DEF T
    <3>  QED  BY <3>1, <3>2, <3>3
  <2>  HIDE DEF T
  <2>  QED  BY <2>1
<1>2. IsFiniteSet(T)
  BY <1>1, FS_Subset
<1>3. SetsIn(D, m2) = T \cup {h}
  <2>1. ASSUME NEW k \in SetsIn(D, m2) PROVE k \in T \cup {h}
    <3>1. k \in C /\ IsOpen(m[k].payload)
      <4>1. k # K
        BY <2>1 DEF SetsIn
      <4>  QED  BY <2>1, <4>1 DEF SetsIn
    <3>2. k # h => k < h
      <4>1. k \in Nat /\ h \in Nat /\ k <= h
        BY <3>1
      <4>  HIDE DEF T, D
      <4>  QED  BY <4>1
    <3>  QED  BY <3>1, <3>2 DEF SetsIn
  <2>2. ASSUME NEW k \in T PROVE k \in SetsIn(D, m2)
    BY <2>2 DEF SetsIn
  <2>3. h \in SetsIn(D, m2)
    <3>1. h < K /\ h \in D /\ K \in D /\ IsOpen(m2[h].payload)
      OBVIOUS
    <3>  QED  BY <3>1 DEF SetsIn
  <2>  QED  BY <2>1, <2>2, <2>3
<1>4. \A k \in T : k \in C /\ \E l \in C : k < l
  BY DEF SetsIn
<1>5. ASSUME NEW k \in T, NEW l \in D, NextIn(D, k, l)
      PROVE  l \in C /\ NextIn(C, k, l)
  <2>1. PICK n \in C : k < n
    BY <1>4
  <2>2. k \in Nat /\ n \in Nat /\ l \in Nat /\ n < K
    BY <1>4
  <2>3. n <= k \/ l <= n
    BY <1>5 DEF NextIn
  <2>4. l # K
    BY <2>1, <2>2, <2>3
  <2>  QED  BY <1>5, <2>4 DEF NextIn
<1>6. ASSUME NEW l \in D, NextIn(D, h, l)
      PROVE  l = K
  BY <1>6 DEF NextIn
<1>7. Cardinality(S) = Cardinality(T)
  BY DEF Paired
<1>8. /\ Cardinality(S \cup {I}) = Cardinality(T \cup {h})
      /\ \A i \in S \cup {I}, k \in T \cup {h} :
           Rank(S \cup {I}, i) = Rank(T \cup {h}, k) =>
             \/ i = I /\ k = h
             \/ i \in S /\ k \in T /\ Rank(S, i) = Rank(T, k)
  <2>  HIDE DEF T
  <2>1. h \in Nat /\ T \in SUBSET Nat /\ IsFiniteSet(T) /\ \A k \in T : k < h
    BY <1>1, <1>2
  <2>2. /\ IsFiniteSet(S) /\ S \in SUBSET Nat /\ I \in Nat /\ \A i \in S : i < I
        /\ Cardinality(S) = Cardinality(T)
    BY <1>7
  <2>  QED  BY <2>1, <2>2, RanksGrow, ZenonT(60)
<1>9. ASSUME NEW i \in S, NEW k \in T, Rank(S, i) = Rank(T, k), NEW l \in D, NextIn(D, k, l)
      PROVE  ev2[i] = SliceOf(proc, q, m2[k].payload, m2[l].payload)
  <2>1. l \in C /\ NextIn(C, k, l) /\ k \in C
    BY <1>4, <1>5, <1>9
  <2>2. ev[i] = SliceOf(proc, q, m[k].payload, m[l].payload)
    BY <1>9, <2>1 DEF Paired
  <2>  QED  BY <2>1, <2>2
<1>10. ASSUME NEW l \in D, NextIn(D, h, l)
       PROVE  ev2[I] = SliceOf(proc, q, m2[h].payload, m2[l].payload)
  BY <1>6, <1>10
<1>  HIDE DEF D, T
<1>11. Paired(S \cup {I}, D, ev2, m2, proc, q)
  BY <1>3, <1>8, <1>9, <1>10 DEF Paired
<1>  QED  BY <1>11 DEF D

LEMMA EmitSlices ==
  ASSUME Events, NEW ev, Emit(ev), NEW q, NEW c, NEW I, I = Len(traceEvents) + 1
  PROVE  /\ Slices(q, c)' = IF ev.ph = "X" /\ ev.pid = q /\ ev.tid = c + 1
                            THEN Slices(q, c) \cup {I} ELSE Slices(q, c)
         /\ \A i \in Slices(q, c) : traceEvents'[i] = traceEvents[i] /\ i \in Nat /\ i < I
         /\ I \in Nat /\ traceEvents'[I] = ev
<1>1. OwnSeq(traceEvents) /\ traceEvents' = Append(traceEvents, ev)
  BY DEF Events, Emit
<1>2. /\ DOMAIN traceEvents = 1 .. Len(traceEvents) /\ Len(traceEvents) \in Nat
      /\ DOMAIN traceEvents' = DOMAIN traceEvents \cup {I} /\ I \notin DOMAIN traceEvents
      /\ traceEvents'[I] = ev
      /\ \A i \in DOMAIN traceEvents : traceEvents'[i] = traceEvents[i]
  BY <1>1, OwnAppend
<1>3. \A i \in DOMAIN traceEvents : i \in Slices(q, c)' <=> i \in Slices(q, c)
  BY <1>2 DEF Slices
<1>4. I \in Slices(q, c)' <=> ev.ph = "X" /\ ev.pid = q /\ ev.tid = c + 1
  BY <1>2 DEF Slices
<1>5. \A i : /\ i \in Slices(q, c) => i \in DOMAIN traceEvents
             /\ i \in Slices(q, c)' => i \in DOMAIN traceEvents \cup {I}
  BY <1>2 DEF Slices
<1>6. \A i \in Slices(q, c) : i \in Nat /\ i < I
  BY <1>2, <1>5
<1>7. Slices(q, c)' = IF ev.ph = "X" /\ ev.pid = q /\ ev.tid = c + 1
                      THEN Slices(q, c) \cup {I} ELSE Slices(q, c)
  <2>1. ASSUME NEW i PROVE i \in Slices(q, c)' <=>
                             i \in Slices(q, c)
                               \/ (i = I /\ ev.ph = "X" /\ ev.pid = q /\ ev.tid = c + 1)
    <3>1. CASE i \in DOMAIN traceEvents
      BY <1>2, <1>3, <3>1
    <3>2. CASE i = I
      BY <1>2, <1>4, <1>5, <3>2
    <3>3. CASE i \notin DOMAIN traceEvents \cup {I}
      BY <1>5, <3>3
    <3>  QED  BY <3>1, <3>2, <3>3
  <2>  QED  BY <2>1
<1>  QED  BY <1>2, <1>5, <1>6, <1>7

LEMMA PlacesFinite ==
  ASSUME IInv, NEW q, NEW c
  PROVE  /\ Changes(q, c) \in SUBSET Nat /\ IsFiniteSet(Changes(q, c))
         /\ Slices(q, c) \in SUBSET Nat /\ IsFiniteSet(Slices(q, c))
<1>1. OwnSeq(merged) /\ OwnSeq(traceEvents)
  BY DEF IInv, Recorded, Events
<1>2. /\ DOMAIN merged = 1 .. Len(merged) /\ Len(merged) \in Nat
      /\ DOMAIN traceEvents = 1 .. Len(traceEvents) /\ Len(traceEvents) \in Nat
  BY <1>1, LenProperties DEF OwnSeq
<1>3. IsFiniteSet(DOMAIN merged) /\ IsFiniteSet(DOMAIN traceEvents)
  BY <1>2, FS_Interval
<1>4. Changes(q, c) \in SUBSET DOMAIN merged /\ Slices(q, c) \in SUBSET DOMAIN traceEvents
  BY DEF Changes, Slices
<1>  QED  BY <1>2, <1>3, <1>4, FS_Subset

LEMMA MatchAfter ==
  ASSUME procs' = procs, p' = p,
         \A q \in 1 .. p : \A c \in Channels(q) :
           Paired(Slices(q, c)', Changes(q, c)', traceEvents', merged', procs[q], q)
  PROVE  SlicesMatch'
<1>1. SlicesMatch' <=> (\A q \in 1 .. p : \A c \in Channels(q) : Matched(q, c))'
  BY MatchIsPaired, PTL
<1>2. \A q : Channels(q)' = Channels(q)
  BY DEF Channels
<1>3. \A q, c : Matched(q, c)' <=>
        Paired(Slices(q, c)', Changes(q, c)', traceEvents', merged', procs[q], q)
  BY DEF Matched
<1>  QED  BY <1>1, <1>2, <1>3

LEMMA FlowMatched ==
  ASSUME IInv, pc = "merge", NEW e \in Tops(merger), Flow(e)
  PROVE  SlicesMatch'
<1>  DEFINE payload == PayloadAt(Files, merger, e)
            ev      == FlowEvent(payload, p)
<1>1. IsFlow(payload) /\ Consume(e) /\ Emit(ev)
  BY DEF Flow
<1>2. procs' = procs /\ p' = p
  BY <1>1 DEF Consume
<1>3. ev.ph # "X"
  BY DEF FlowEvent
<1>  HIDE DEF payload, ev
<1>4. ASSUME NEW q \in 1 .. p, NEW c \in Channels(q)
      PROVE  Paired(Slices(q, c)', Changes(q, c)', traceEvents', merged', procs[q], q)
  <2>1. /\ Changes(q, c)' = Changes(q, c)
        /\ \A k \in Changes(q, c) : merged'[k] = merged[k]
    BY <1>1, ConsumeChanges DEF payload
  <2>2. /\ Slices(q, c)' = Slices(q, c)
        /\ \A i \in Slices(q, c) : traceEvents'[i] = traceEvents[i]
    BY <1>1, <1>3, EmitSlices DEF IInv
  <2>3. Paired(Slices(q, c), Changes(q, c), traceEvents, merged, procs[q], q)
    BY MatchIsPaired DEF IInv, Matched
  <2>4. Paired(Slices(q, c), Changes(q, c), traceEvents', merged', procs[q], q)
    BY <2>1, <2>2, <2>3, PairedStays
  <2>  QED  BY <2>1, <2>2, <2>4
<1>  QED  BY <1>2, <1>4, MatchAfter

\* What an open channel remembers is its last change, a set.
LEMMA OpenChannel ==
  ASSUME IInv, pc = "merge", NEW c \in Channels(p), IsOpen(prev_payloads[c])
  PROVE  \E h \in Changes(p, c) : /\ \A l \in Changes(p, c) : l <= h
                                  /\ prev_payloads[c] = merged[h].payload
                                  /\ prev_payloads[c].channelId = c
  BY DEF IInv, Remembered, LastChange, Changes

\* A channel that is not open has not been used, or its last change is a reset.
LEMMA ClosedChannel ==
  ASSUME IInv, pc = "merge", NEW c \in Channels(p), ~ IsOpen(prev_payloads[c]),
         NEW k \in Changes(p, c), \A l \in Changes(p, c) : l <= k
  PROVE  ~ IsOpen(merged[k].payload)
<1>1. PICK h : LastChange(p, c, h) /\ prev_payloads[c] = merged[h].payload
  BY DEF IInv, Remembered
<1>2. h \in Changes(p, c) /\ h <= k /\ k <= h
  BY <1>1 DEF LastChange
<1>3. h = k
  BY <1>2, PlacesFinite
<1>  QED  BY <1>1, <1>3

LEMMA SetOrResetMatched ==
  ASSUME IInv, pc = "merge", NEW e \in Tops(merger), SetOrReset(e)
  PROVE  SlicesMatch'
<1>  DEFINE payload == PayloadAt(Files, merger, e)
            d       == payload.channelId
            prev    == prev_payloads[d]
            ev      == SliceOf(procs[p], p, prev, payload)
<1>  PICK K, I : K = Len(merged) + 1 /\ I = Len(traceEvents) + 1
  OBVIOUS
<1>1. /\ InBounds(payload) /\ ~ IsFlow(payload) /\ Consume(e)
      /\ IsOpen(prev) => Emit(ev)
      /\ ~ IsOpen(prev) => traceEvents' = traceEvents
  BY DEF SetOrReset, SliceEvent, SliceOf
<1>2. procs' = procs /\ p' = p
  BY <1>1 DEF Consume
<1>3. d \in Nat /\ d \in Channels(p) /\ p \in 1 .. p
  <2>1. d \in Nat /\ p \in DOMAIN procs /\ IsProc(procs[p]) /\ p # 0
    BY TopFacts, MergeFacts DEF IInv, Control
  <2>2. p \in Nat /\ procs[p].num_channels \in Nat
    BY <2>1, MergeFacts DEF IsProc
  <2>  QED  BY <1>1, <2>1, <2>2 DEF InBounds, Channels
<1>4. ev.ph = "X" /\ ev.pid = p /\ ev.tid = prev.channelId + 1
  BY DEF SliceOf
<1>5. ASSUME NEW q, NEW c
      PROVE  /\ Changes(q, c)' = IF q = p /\ d = c THEN Changes(q, c) \cup {K} ELSE Changes(q, c)
             /\ \A k \in Changes(q, c) : merged'[k] = merged[k] /\ k < K
             /\ K \in Nat /\ merged'[K].payload = payload
  BY <1>1, ConsumeChanges
<1>  HIDE DEF payload, d, prev, ev
<1>6. ASSUME NEW q \in 1 .. p, NEW c \in Channels(q)
      PROVE  Paired(Slices(q, c)', Changes(q, c)', traceEvents', merged', procs[q], q)
  <2>1. Paired(Slices(q, c), Changes(q, c), traceEvents, merged, procs[q], q)
    BY MatchIsPaired DEF IInv, Matched
  <2>2. CASE ~ (q = p /\ c = d)
    <3>1. /\ Slices(q, c)' = Slices(q, c)
          /\ \A i \in Slices(q, c) : traceEvents'[i] = traceEvents[i]
      <4>1. CASE IsOpen(prev)
        <5>1. prev.channelId = d
          BY <1>3, <4>1, OpenChannel DEF prev
        <5>2. ~ (ev.ph = "X" /\ ev.pid = q /\ ev.tid = c + 1)
          BY <1>3, <1>4, <2>2, <5>1 DEF Channels
        <5>  QED  BY <1>1, <4>1, <5>2, EmitSlices DEF IInv
      <4>2. CASE ~ IsOpen(prev)
        BY <1>1, <4>2 DEF Slices
      <4>  QED  BY <4>1, <4>2
    <3>2. /\ Changes(q, c)' = Changes(q, c)
          /\ \A k \in Changes(q, c) : merged'[k] = merged[k]
      BY <1>5, <2>2
    <3>3. Paired(Slices(q, c), Changes(q, c), traceEvents', merged', procs[q], q)
      BY <2>1, <3>1, <3>2, PairedStays
    <3>  QED  BY <3>1, <3>2, <3>3
  <2>3. CASE q = p /\ c = d /\ ~ IsOpen(prev)
    <3>1. Slices(q, c)' = Slices(q, c) /\ traceEvents' = traceEvents
      BY <1>1, <2>3 DEF Slices
    <3>2. \A k \in Changes(q, c) : (\A l \in Changes(q, c) : l <= k) => ~ IsOpen(merged[k].payload)
      BY <1>3, <2>3, ClosedChannel DEF prev
    <3>3. /\ Changes(q, c) \in SUBSET Nat /\ K \in Nat
          /\ \A k \in Changes(q, c) : merged'[k] = merged[k] /\ k < K
          /\ Changes(q, c)' = Changes(q, c) \cup {K}
      BY <1>5, <2>3, PlacesFinite
    <3>4. Paired(Slices(q, c), Changes(q, c) \cup {K}, traceEvents, merged', procs[q], q)
      BY <2>1, <3>2, <3>3, PairedUnopened
    <3>  QED  BY <3>1, <3>3, <3>4
  <2>4. CASE q = p /\ c = d /\ IsOpen(prev)
    <3>1. PICK h \in Changes(q, c) : /\ \A l \in Changes(q, c) : l <= h
                                     /\ prev = merged[h].payload /\ prev.channelId = d
      BY <1>3, <2>4, OpenChannel DEF prev
    <3>2. /\ Changes(q, c) \in SUBSET Nat /\ K \in Nat /\ IsFiniteSet(Changes(q, c))
          /\ Slices(q, c) \in SUBSET Nat /\ IsFiniteSet(Slices(q, c))
          /\ \A k \in Changes(q, c) : merged'[k] = merged[k] /\ k < K
          /\ Changes(q, c)' = Changes(q, c) \cup {K}
          /\ merged'[K].payload = payload
      BY <1>5, <2>4, PlacesFinite
    <3>3. /\ Slices(q, c)' = Slices(q, c) \cup {I}
          /\ \A i \in Slices(q, c) : traceEvents'[i] = traceEvents[i] /\ i < I
          /\ I \in Nat /\ traceEvents'[I] = ev
      BY <1>1, <1>4, <2>4, <3>1, EmitSlices DEF IInv
    <3>4. traceEvents'[I] = SliceOf(procs[q], q, merged[h].payload, merged'[K].payload)
      BY <2>4, <3>1, <3>2, <3>3 DEF ev
    <3>5. IsOpen(merged[h].payload)
      BY <2>4, <3>1
    <3>6. Paired(Slices(q, c) \cup {I}, Changes(q, c) \cup {K}, traceEvents', merged', procs[q], q)
      <4>  DEFINE S == Slices(q, c)  C == Changes(q, c)  w == procs[q]
      <4>1. /\ \A i \in S : traceEvents'[i] = traceEvents[i]
            /\ \A i \in S : i < I
            /\ I \in Nat
        BY <3>3
      <4>2. /\ \A k \in C : merged'[k] = merged[k]
            /\ \A k \in C : k < K
            /\ K \in Nat
        BY <3>2
      <4>3. C \in SUBSET Nat /\ IsFiniteSet(C) /\ S \in SUBSET Nat /\ IsFiniteSet(S)
        BY <3>2
      <4>4. h \in C /\ \A l \in C : l <= h
        BY <3>1
      <4>5. Paired(S, C, traceEvents, merged, w, q)
        BY <2>1
      <4>6. traceEvents'[I] = SliceOf(w, q, merged[h].payload, merged'[K].payload)
        BY <3>4
      <4>  HIDE DEF S, C, w
      <4>7. Paired(S \cup {I}, C \cup {K}, traceEvents', merged', w, q)
        BY <3>5, <4>1, <4>2, <4>3, <4>4, <4>5, <4>6, PairedClosed
      <4>  QED  BY <4>7 DEF S, C, w
    <3>  QED  BY <3>2, <3>3, <3>6
  <2>  QED  BY <2>2, <2>3, <2>4
<1>  QED  BY <1>2, <1>6, MatchAfter

-----------------------------------------------------------------------------
(* The events and their times. *)

\* An event lies between the sync anchors of its proc.
InSession(ev) ==
  ev.ts + (IF ev.ph = "X" THEN ev.dur ELSE 0)
    <= SyncEnd(procs[ev.pid]) - SyncStart(procs[ev.pid])

LEMMA EmitKeeps ==
  ASSUME IInv, NEW ev, Emit(ev), procs' = procs, p' = p, ev.ph \in {"X", "s", "f"},
         ev.pid \in 1 .. p, ev.tid \in 1 .. procs[ev.pid].num_channels,
         ev.ts \in 0 .. UInt64Max, InSession(ev)
  PROVE  Events' /\ TimesWithinSession'
<1>  PICK I : I = Len(traceEvents) + 1
  OBVIOUS
<1>1. OwnSeq(traceEvents) /\ traceEvents' = Append(traceEvents, ev)
  BY DEF IInv, Events, Emit
<1>2. /\ OwnSeq(traceEvents') /\ DOMAIN traceEvents' = DOMAIN traceEvents \cup {I}
      /\ traceEvents'[I] = ev
      /\ \A i \in DOMAIN traceEvents : traceEvents'[i] = traceEvents[i]
  BY <1>1, OwnAppend
<1>3. ASSUME NEW i \in DOMAIN traceEvents'
      PROVE  /\ traceEvents'[i].ph \in {"X", "s", "f"}
             /\ traceEvents'[i].pid \in 1 .. p
             /\ traceEvents'[i].tid \in 1 .. procs[traceEvents'[i].pid].num_channels
             /\ traceEvents'[i].ts \in 0 .. UInt64Max
             /\ InSession(traceEvents'[i])
  <2>1. CASE i \in DOMAIN traceEvents
    BY <1>2, <2>1 DEF IInv, Events, TimesWithinSession, InSession
  <2>2. CASE i = I
    BY <1>2, <2>2
  <2>  QED  BY <1>2, <2>1, <2>2
<1>4. Events'
  BY <1>2, <1>3 DEF Events
<1>5. TimesWithinSession'
  BY <1>3 DEF TimesWithinSession, InSession
<1>  QED  BY <1>4, <1>5

\* Tracks are numbered from 1.
LEMMA TrackOf ==
  ASSUME IInv, pc = "merge", NEW c \in Channels(p)
  PROVE  c + 1 \in 1 .. procs[p].num_channels /\ p \in 1 .. p
<1>1. p \in Nat /\ p # 0 /\ procs[p].num_channels \in Nat
  BY MergeFacts DEF IInv, Control, IsProc
<1>  QED  BY <1>1 DEF Channels

LEMMA ChannelOfTop ==
  ASSUME IInv, pc = "merge", NEW e \in Tops(merger), InBounds(PayloadAt(Files, merger, e))
  PROVE  PayloadAt(Files, merger, e).channelId \in Channels(p)
<1>1. procs[p].num_channels \in Nat /\ PayloadAt(Files, merger, e).channelId \in Nat
  BY MergeFacts, TopFacts DEF IsProc
<1>  QED  BY <1>1 DEF InBounds, Channels

LEMMA FlowKeepsEvents ==
  ASSUME IInv, pc = "merge", NEW e \in Tops(merger), Flow(e)
  PROVE  Events' /\ TimesWithinSession'
<1>  DEFINE payload == PayloadAt(Files, merger, e)
            ev      == FlowEvent(payload, p)
            t       == payload.timestamp
            start   == SyncStart(procs[p])
            end     == SyncEnd(procs[p])
<1>1. InBounds(payload) /\ Emit(ev) /\ procs' = procs /\ p' = p
  BY DEF Flow, Consume
<1>2. /\ ev.ph \in {"s", "f"} /\ ev.pid = p /\ ev.tid = payload.channelId + 1
      /\ ev.ts = Sub64(t, start)
  BY DEF FlowEvent
<1>3. /\ t \in 0 .. UInt64Max /\ start \in 0 .. UInt64Max /\ end \in 0 .. UInt64Max
      /\ start <= t /\ t <= end /\ UInt64Max \in Nat
  BY TopFacts, MergeFacts, SyncBounds
<1>4. ev.tid \in 1 .. procs[p].num_channels /\ p \in 1 .. p
  BY <1>1, <1>2, ChannelOfTop, TrackOf
<1>  HIDE DEF t, start, end, payload, ev
<1>5. ev.ts = t - start /\ ev.ts \in 0 .. UInt64Max
  BY <1>2, <1>3, Subtraction
<1>6. ev.ts <= end - start
  BY <1>3, <1>5
<1>7. InSession(ev)
  <2>1. ev.ts \in Nat /\ ev.ph # "X"
    BY <1>2, <1>3, <1>5
  <2>2. ev.ts + 0 <= end - start
    BY <1>6, <2>1
  <2>  QED  BY <1>2, <2>1, <2>2 DEF InSession, end, start
<1>  QED  BY <1>1, <1>2, <1>4, <1>5, <1>7, EmitKeeps

\* The set that opens a slice and the payload that closes it are in that order, and
\* both within the anchors.
LEMMA SetOrResetKeepsEvents ==
  ASSUME IInv, pc = "merge", NEW e \in Tops(merger), SetOrReset(e)
  PROVE  Events' /\ TimesWithinSession'
<1>  DEFINE payload == PayloadAt(Files, merger, e)
            d       == payload.channelId
            prev    == prev_payloads[d]
            ev      == SliceEvent(prev, payload, p)
            s       == prev.timestamp
            t       == payload.timestamp
            start   == SyncStart(procs[p])
            end     == SyncEnd(procs[p])
<1>1. /\ InBounds(payload) /\ procs' = procs /\ p' = p
      /\ IsOpen(prev) => Emit(ev)
      /\ ~ IsOpen(prev) => traceEvents' = traceEvents
  BY DEF SetOrReset, Consume
<1>2. CASE ~ IsOpen(prev)
  <2>1. traceEvents' = traceEvents
    BY <1>1, <1>2
  <2>  QED  BY <1>1, <2>1 DEF IInv, Events, TimesWithinSession
<1>3. CASE IsOpen(prev)
  <2>1. /\ ev.ph = "X" /\ ev.pid = p /\ ev.tid = prev.channelId + 1
        /\ ev.ts = Sub64(s, start) /\ ev.dur = Sub64(t, s)
    BY DEF SliceEvent
  <2>2. /\ t \in 0 .. UInt64Max /\ start \in 0 .. UInt64Max /\ end \in 0 .. UInt64Max
        /\ start <= t /\ t <= end /\ UInt64Max \in Nat /\ e \in merger.heap
        /\ e.timestamp = t
    BY TopFacts, MergeFacts, SyncBounds
  <2>3. d \in Channels(p)
    BY <1>1, ChannelOfTop
  <2>4. PICK h \in Changes(p, d) : prev = merged[h].payload /\ prev.channelId = d
    BY <1>3, <2>3, OpenChannel
  <2>5. ev.tid \in 1 .. procs[p].num_channels /\ p \in 1 .. p
    BY <2>1, <2>3, <2>4, TrackOf
  <2>6. /\ h \in DOMAIN merged /\ merged[h].pid = p
        /\ merged[h].file \in DOMAIN Files /\ merged[h].place \in DOMAIN Files[merged[h].file]
        /\ prev = Files[merged[h].file][merged[h].place]
    BY <2>4 DEF Changes, IInv, Recorded, Files
  <2>7. s \in 0 .. UInt64Max /\ start <= s
    BY <2>6, MergeFacts, SyncBounds DEF Files
  <2>8. s <= t
    BY <2>2, <2>4, <2>6 DEF IInv, Monotone
  <2>  HIDE DEF s, t, start, end, prev, payload, d, ev
  <2>9. /\ ev.ts = s - start /\ ev.ts \in 0 .. UInt64Max /\ ev.dur = t - s
    BY <2>1, <2>2, <2>7, <2>8, Subtraction
  <2>10. ev.ts + ev.dur <= end - start
    BY <2>2, <2>7, <2>9
  <2>11. InSession(ev)
    BY <2>1, <2>10 DEF InSession, end, start
  <2>12. Emit(ev)
    BY <1>1, <1>3
  <2>  QED  BY <1>1, <2>1, <2>5, <2>9, <2>11, <2>12, EmitKeeps
<1>  QED  BY <1>2, <1>3

-----------------------------------------------------------------------------
(* The invariant. *)

LEMMA InitInvariant == Init => IInv
<1>  SUFFICES ASSUME Init PROVE IInv
  OBVIOUS
<1>1. /\ procs \in Inputs /\ p = 0 /\ pc = "open" /\ result = "running"
      /\ merged = << >> /\ traceEvents = << >> /\ warned = {}
  BY DEF Init
<1>2. Len(procs) \in Nat /\ DOMAIN procs = 1 .. Len(procs)
  BY <1>1, InputFacts, ProcFacts
<1>3. Control
  BY <1>1, <1>2 DEF Control
<1>4. OwnSeq(<< >>) /\ DOMAIN << >> = {}
  BY EmptyOwn
<1>5. Recorded /\ Events /\ TimesWithinSession
  BY <1>1, <1>4 DEF Recorded, Events, TimesWithinSession
<1>6. \A q \in DOMAIN procs : ~ Through(q)
  BY <1>1, <1>2 DEF Through
<1>7. AllRecorded /\ Warnings
  BY <1>1, <1>6 DEF AllRecorded, Warnings
<1>8. Remembered /\ Monotone
  BY <1>1 DEF Remembered, Monotone
<1>9. SlicesMatch
  BY <1>1 DEF SlicesMatch
<1>  QED  BY <1>3, <1>5, <1>7, <1>8, <1>9 DEF IInv

LEMMA ConsumeInvariant ==
  ASSUME IInv, pc = "merge", NEW e \in Tops(merger), Flow(e) \/ SetOrReset(e)
  PROVE  IInv'
<1>1. /\ InBounds(PayloadAt(Files, merger, e)) /\ Consume(e) /\ UNCHANGED << pc, result >>
  BY DEF Flow, SetOrReset
<1>2. procs' = procs /\ p' = p
  BY <1>1 DEF Consume
<1>3. DOMAIN prev_payloads' = DOMAIN prev_payloads
  BY DEF Flow, SetOrReset
<1>4. Control'
  BY <1>1, <1>2, <1>3, ConsumeMirrors DEF IInv, Control, Channels
<1>5. Recorded' /\ AllRecorded' /\ Warnings' /\ Monotone'
  BY <1>1, ConsumeRecorded, ConsumeAll, ConsumeWarnings, ConsumeMonotone
<1>6. Remembered'
  BY FlowRemembered, SetOrResetRemembered
<1>7. Events' /\ TimesWithinSession'
  BY FlowKeepsEvents, SetOrResetKeepsEvents
<1>8. SlicesMatch'
  BY FlowMatched, SetOrResetMatched
<1>  QED  BY <1>4, <1>5, <1>6, <1>7, <1>8 DEF IInv

\* The writer moves on, or gives up; what it has written stays.
LEMMA MovesInvariant ==
  ASSUME IInv, UNCHANGED << procs, p, merged, traceEvents >>,
         Control', AllRecorded', Warnings', pc' # "merge"
  PROVE  IInv'
<1>1. Recorded' /\ Events' /\ TimesWithinSession'
  BY DEF IInv, Recorded, Events, TimesWithinSession
<1>2. Remembered' /\ Monotone'
  BY DEF Remembered, Monotone
<1>3. SlicesMatch'
  <2>1. \A q, c : /\ Slices(q, c)' = Slices(q, c) /\ Changes(q, c)' = Changes(q, c)
                  /\ Paired(Slices(q, c), Changes(q, c), traceEvents', merged', procs[q], q)
                       <=> Matched(q, c)
    BY DEF Slices, Changes, Matched
  <2>2. \A q \in 1 .. p : \A c \in Channels(q) : Matched(q, c)
    BY MatchIsPaired DEF IInv
  <2>  QED  BY <2>1, <2>2, MatchAfter
<1>  QED  BY <1>1, <1>2, <1>3 DEF IInv

LEMMA BeginInvariant ==
  ASSUME IInv, BeginProc
  PROVE  IInv'
<1>1. /\ pc = "proc" /\ p < Len(procs) /\ p' = p + 1 /\ pc' = "merge"
      /\ merger' = NewMerger(procs[p + 1].files)
      /\ prev_payloads' = [c \in 0 .. procs[p + 1].num_channels - 1 |-> ClosedPayload]
      /\ procs' = procs /\ traceEvents' = traceEvents /\ merged' = merged
      /\ warned' = warned /\ result' = result
  BY DEF BeginProc
<1>2. /\ procs \in Inputs /\ p \in Nat /\ Len(procs) \in Nat /\ DOMAIN procs = 1 .. Len(procs)
      /\ result = "running"
  BY <1>1, InputFacts, ProcFacts DEF IInv, Control
<1>3. p + 1 \in DOMAIN procs /\ p + 1 \in 0 .. Len(procs) /\ p + 1 # 0 /\ 1 .. p \subseteq 1 .. p + 1
  BY <1>1, <1>2
<1>4. Files' = procs[p + 1].files /\ Traces(Files')
  BY <1>1, <1>2, <1>3, InputFacts, ProcFacts DEF Files, Channels
<1>5. Mirrors(Files', merger') /\ merger'.ptrs = [i \in DOMAIN Files' |-> 0]
  BY <1>1, <1>4, NewMirrors DEF NewMerger
<1>6. Control'
  <2>1. DOMAIN prev_payloads' = 0 .. procs'[p'].num_channels - 1
    BY <1>1
  <2>  QED  BY <1>1, <1>2, <1>3, <1>5, <2>1 DEF Control, Channels
<1>7. Recorded'
  BY <1>1, <1>3 DEF IInv, Recorded
<1>8. \A k \in DOMAIN merged : merged[k].pid # p + 1
  BY <1>2 DEF IInv, Recorded
<1>9. \A q \in DOMAIN procs : Through(q)' <=> Through(q)
  BY <1>1, <1>2 DEF Through
<1>10. AllRecorded'
  <2>1. ASSUME NEW i \in DOMAIN Files', NEW n \in DOMAIN Files'[i]
        PROVE  ~ (n <= merger'.ptrs[i]) /\ ~ \E k \in DOMAIN merged : IsAt(merged[k], p + 1, i, n)
    <3>1. merger'.ptrs[i] = 0
      BY <1>5
    <3>2. n \in Nat \ {0}
      BY <1>4, TraceFacts
    <3>  QED  BY <1>8, <3>1, <3>2 DEF IsAt
  <2>2. \A i \in DOMAIN Files' : \A n \in DOMAIN Files'[i] :
          n <= merger'.ptrs[i] <=> \E k \in DOMAIN merged' : IsAt(merged'[k], p', i, n)
    BY <1>1, <2>1
  <2>3. \A q \in DOMAIN procs' : Through(q)' =>
          \A i \in DOMAIN procs'[q].files : \A n \in DOMAIN procs'[q].files[i] :
            \E k \in DOMAIN merged' : IsAt(merged'[k], q, i, n)
    BY <1>1, <1>9 DEF IInv, AllRecorded
  <2>  QED  BY <2>2, <2>3 DEF AllRecorded
<1>11. Warnings'
  BY <1>1, <1>9 DEF IInv, Warnings
<1>12. \A c : Changes(p + 1, c) = {}
  BY <1>8 DEF Changes
<1>13. Remembered'
  <2>  PICK r : r = p + 1
    OBVIOUS
  <2>1. ASSUME NEW c \in Channels(r)
        PROVE  Changes(r, c)' = {} /\ ~ IsOpen(prev_payloads'[c])
    <3>1. prev_payloads'[c] = ClosedPayload
      BY <1>1 DEF Channels
    <3>2. Changes(r, c)' = Changes(r, c)
      BY <1>1 DEF Changes
    <3>  QED  BY <1>12, <3>1, <3>2 DEF ClosedPayload, IsOpen
  <2>2. p' = r /\ Channels(p)' = Channels(r)
    BY <1>1 DEF Channels
  <2>3. \A c : Changes(p, c)' = Changes(r, c)'
    BY <2>2
  <2>  QED  BY <2>1, <2>2, <2>3 DEF Remembered
<1>14. Monotone'
  BY <1>1, <1>8 DEF Monotone
<1>15. Events'
  BY <1>1, <1>3 DEF IInv, Events
<1>16. TimesWithinSession'
  BY <1>1 DEF IInv, TimesWithinSession
<1>17. SlicesMatch'
  <2>1. \A q, c : Slices(q, c)' = Slices(q, c) /\ Changes(q, c)' = Changes(q, c)
    BY <1>1 DEF Slices, Changes
  <2>2. \A q \in 1 .. p : \A c \in Channels(q) : Matched(q, c)
    BY MatchIsPaired DEF IInv
  <2>3. ASSUME NEW c PROVE Matched(p + 1, c)
    <3>1. Slices(p + 1, c) = {}
      BY <1>2 DEF IInv, Events, Slices
    <3>2. SetsIn({}, merged) = {}
      BY DEF SetsIn
    <3>  QED  BY <1>12, <3>1, <3>2 DEF Matched, Paired
  <2>4. \A q \in 1 .. p + 1 : q \in 1 .. p \/ q = p + 1
    BY <1>2
  <2>5. \A q \in 1 .. p + 1 : \A c \in Channels(q) : Matched(q, c)
    BY <2>2, <2>3, <2>4
  <2>6. SlicesMatch' <=> (\A q \in 1 .. p : \A c \in Channels(q) : Matched(q, c))'
    BY MatchIsPaired, PTL
  <2>7. (\A q \in 1 .. p : \A c \in Channels(q) : Matched(q, c))' <=>
          \A q \in 1 .. p + 1 : \A c \in Channels(q) : Matched(q, c)
    BY <1>1, <2>1 DEF Matched, Channels
  <2>  QED  BY <2>5, <2>6, <2>7
<1>  QED  BY <1>6, <1>7, <1>10, <1>11, <1>13, <1>14, <1>15, <1>16, <1>17 DEF IInv

LEMMA EndInvariant ==
  ASSUME IInv, EndProc
  PROVE  IInv'
<1>1. /\ pc = "merge" /\ Empty(merger) /\ pc' = "proc"
      /\ warned' = warned \cup {<< p, i >> : i \in Unfinished(Files)}
      /\ UNCHANGED << procs, p, merged, traceEvents, merger, result, prev_payloads >>
  BY DEF EndProc, writer
<1>2. p \in DOMAIN procs /\ result = "running" /\ Traces(Files) /\ Mirrors(Files, merger) /\ p \in Nat
  BY <1>1, MergeFacts DEF IInv, Control
<1>3. Control'
  BY <1>1 DEF IInv, Control
<1>4. \A q \in DOMAIN procs : /\ Through(q)' <=> Through(q) \/ q = p
                              /\ ~ Through(p)
  BY <1>1, <1>2 DEF Through
<1>5. ASSUME NEW i \in DOMAIN Files, NEW n \in DOMAIN Files[i]
      PROVE  \E k \in DOMAIN merged : IsAt(merged[k], p, i, n)
  <2>1. merger.ptrs[i] = Len(Files[i]) /\ DOMAIN Files[i] = 1 .. Len(Files[i])
    BY <1>1, <1>2, EmptyReadsAll, TraceFacts
  <2>2. n <= merger.ptrs[i]
    BY <2>1
  <2>  QED  BY <1>1, <2>2 DEF IInv, AllRecorded
<1>6. AllRecorded'
  BY <1>1, <1>4, <1>5 DEF IInv, AllRecorded, Files
<1>7. Warnings'
  <2>1. ASSUME NEW q, NEW i
        PROVE  << q, i >> \in warned' <=>
                 q \in DOMAIN procs /\ Through(q)' /\ i \in Unfinished(procs[q].files)
    <3>1. << q, i >> \in warned' <=> << q, i >> \in warned \/ (q = p /\ i \in Unfinished(Files))
      BY <1>1
    <3>2. << q, i >> \in warned <=>
            q \in DOMAIN procs /\ Through(q) /\ i \in Unfinished(procs[q].files)
      BY DEF IInv, Warnings
    <3>  QED  BY <1>2, <1>4, <3>1, <3>2 DEF Files
  <2>  QED  BY <1>1, <2>1 DEF Warnings
<1>  QED  BY <1>1, <1>3, <1>6, <1>7, MovesInvariant

LEMMA NextInvariant == IInv /\ [Next]_vars => IInv'
<1>  SUFFICES ASSUME IInv, [Next]_vars PROVE IInv'
  OBVIOUS
<1>1. CASE Open
  <2>1. /\ UNCHANGED << procs, p, merged, traceEvents, warned, result >> /\ pc = "open"
        /\ pc' = "proc"
    BY <1>1 DEF Open, writer
  <2>2. p = 0 /\ result = "running" /\ procs \in Inputs
    BY <2>1 DEF IInv, Control
  <2>3. \A q \in DOMAIN procs : ~ Through(q) /\ ~ Through(q)'
    BY <2>1, <2>2, InputFacts, ProcFacts DEF Through
  <2>4. Control' /\ AllRecorded' /\ Warnings'
    BY <2>1, <2>3 DEF IInv, Control, AllRecorded, Warnings
  <2>  QED  BY <2>1, <2>4, MovesInvariant
<1>2. CASE OpenFails \/ MergeStep
  <2>1. CASE \E e \in Tops(merger) : pc = "merge" /\ (Flow(e) \/ SetOrReset(e))
    BY <2>1, ConsumeInvariant
  <2>2. CASE OpenFails \/ \E e \in Tops(merger) : pc = "merge" /\ (OutOfBounds(e) \/ NoLabel(e))
    <3>1. /\ UNCHANGED << procs, p, merged, traceEvents, warned >> /\ pc \in {"open", "merge"}
          /\ pc' = "over" /\ result' \in {"failed", "undefined"}
      BY <2>2 DEF OpenFails, OutOfBounds, NoLabel, writer
    <3>2. result = "running"
      BY <3>1 DEF IInv, Control
    <3>3. \A q : Through(q)' <=> Through(q)
      BY <3>1, <3>2 DEF Through
    <3>4. Control' /\ AllRecorded' /\ Warnings'
      BY <3>1, <3>3 DEF IInv, Control, AllRecorded, Warnings
    <3>  QED  BY <3>1, <3>4, MovesInvariant
  <2>  QED  BY <1>2, <2>1, <2>2 DEF MergeStep
<1>3. CASE BeginProc
  BY <1>3, BeginInvariant
<1>4. CASE EndProc
  BY <1>4, EndInvariant
<1>5. CASE Close
  <2>1. /\ UNCHANGED << procs, p, merged, traceEvents, warned >> /\ pc = "proc" /\ pc' = "over"
        /\ result' = "ok" /\ p = Len(procs)
    BY <1>5 DEF Close, writer
  <2>2. \A q : Through(q)' <=> Through(q)
    BY <2>1 DEF Through
  <2>3. Control' /\ AllRecorded' /\ Warnings'
    BY <2>1, <2>2 DEF IInv, Control, AllRecorded, Warnings
  <2>  QED  BY <2>1, <2>3, MovesInvariant
<1>6. CASE WriteFails \/ Finished \/ UNCHANGED vars
  <2>1. /\ UNCHANGED << procs, p, pc, merger, prev_payloads, traceEvents, merged, warned, result >>
    BY <1>6 DEF WriteFails, Finished, vars, writer
  <2>2. Control' /\ Recorded' /\ AllRecorded' /\ Warnings' /\ Remembered' /\ Monotone' /\ Events'
    BY <2>1 DEF IInv, Control, Recorded, AllRecorded, Warnings, Remembered, Monotone, Events,
       Through, Files, Channels, LastChange, Changes
  <2>3. TimesWithinSession' /\ SlicesMatch'
    BY <2>1 DEF IInv, TimesWithinSession, SlicesMatch, Slices, SliceSets, Changes, Channels,
       NextChange, SliceEvent
  <2>  QED  BY <2>2, <2>3 DEF IInv
<1>  QED  BY <1>1, <1>2, <1>3, <1>4, <1>5, <1>6 DEF Next

THEOREM Invariant == Spec => []IInv
  BY InitInvariant, NextInvariant, PTL DEF Spec

LEMMA StreamTyped == Spec => [](good \in BOOLEAN)
<1>1. Init => good \in BOOLEAN
  BY DEF Init
<1>2. good \in BOOLEAN /\ [Next]_vars => (good \in BOOLEAN)'
  BY DEF Next, Open, OpenFails, BeginProc, MergeStep, OutOfBounds, Flow, SetOrReset, NoLabel,
     Consume, EndProc, WriteFails, Close, Finished, vars
<1>  QED  BY <1>1, <1>2, PTL DEF Spec

-----------------------------------------------------------------------------
(* What is in the file, payload by payload. *)

\* The sets that were followed by a change of their channel, and the flow payloads.
DrawnAt ==
  {k \in DOMAIN merged :
     \/ IsFlow(merged[k].payload)
     \/ /\ IsOpen(merged[k].payload)
        /\ \E l \in Changes(merged[k].pid, merged[k].payload.channelId) : k < l}

DrawnWith(key) == {k \in DrawnAt : KeyOf(merged[k].payload, merged[k].pid) = key}

EventsWith(key) == {i \in DOMAIN traceEvents : Key(traceEvents[i]) = key}

\* Each of them has its event.
Drawn == \A key : Cardinality(EventsWith(key)) = Cardinality(DrawnWith(key))

\* The payloads of a proc are consumed in the order of their times.
InOrder ==
  \A k, l \in DOMAIN merged : k < l /\ merged[k].pid = merged[l].pid =>
    merged[k].payload.timestamp <= merged[l].payload.timestamp

LEMMA CountGrows ==
  ASSUME NEW A, NEW B, IsFiniteSet(A), IsFiniteSet(B), Cardinality(A) = Cardinality(B),
         NEW a, NEW b, a \notin A, b \notin B
  PROVE  Cardinality(A \cup {a}) = Cardinality(B \cup {b})
  BY FS_AddElement

LEMMA KeysFinite ==
  ASSUME IInv, NEW key
  PROVE  IsFiniteSet(EventsWith(key)) /\ IsFiniteSet(DrawnWith(key))
<1>1. OwnSeq(merged) /\ OwnSeq(traceEvents)
  BY DEF IInv, Recorded, Events
<1>2. /\ DOMAIN merged = 1 .. Len(merged) /\ Len(merged) \in Nat
      /\ DOMAIN traceEvents = 1 .. Len(traceEvents) /\ Len(traceEvents) \in Nat
  BY <1>1, LenProperties DEF OwnSeq
<1>3. IsFiniteSet(DOMAIN merged) /\ IsFiniteSet(DOMAIN traceEvents)
  BY <1>2, FS_Interval
<1>4. DrawnWith(key) \in SUBSET DOMAIN merged /\ EventsWith(key) \in SUBSET DOMAIN traceEvents
  BY DEF DrawnWith, DrawnAt, EventsWith
<1>  QED  BY <1>3, <1>4, FS_Subset

LEMMA EmitKeys ==
  ASSUME Events, NEW ev, Emit(ev), NEW key
  PROVE  LET I == Len(traceEvents) + 1
         IN  /\ EventsWith(key)' = IF Key(ev) = key THEN EventsWith(key) \cup {I}
                                                   ELSE EventsWith(key)
             /\ I \notin EventsWith(key)
<1>  PICK I : I = Len(traceEvents) + 1
  OBVIOUS
<1>1. OwnSeq(traceEvents) /\ traceEvents' = Append(traceEvents, ev)
  BY DEF Events, Emit
<1>2. /\ DOMAIN traceEvents' = DOMAIN traceEvents \cup {I} /\ I \notin DOMAIN traceEvents
      /\ traceEvents'[I] = ev
      /\ \A i \in DOMAIN traceEvents : traceEvents'[i] = traceEvents[i]
  BY <1>1, OwnAppend
<1>3. EventsWith(key)' = {i \in DOMAIN traceEvents' : Key(traceEvents'[i]) = key}
  BY DEF EventsWith, Key
<1>4. EventsWith(key)' = IF Key(ev) = key THEN EventsWith(key) \cup {I} ELSE EventsWith(key)
  BY <1>2, <1>3 DEF EventsWith
<1>5. I \notin EventsWith(key)
  BY <1>2 DEF EventsWith
<1>  QED  BY <1>4, <1>5

\* A flow payload is drawn when it is consumed.
LEMMA FlowDraws ==
  ASSUME IInv, pc = "merge", Drawn, NEW e \in Tops(merger), Flow(e), NEW key
  PROVE  Cardinality(EventsWith(key)') = Cardinality(DrawnWith(key)')
<1>  DEFINE payload == PayloadAt(Files, merger, e)
<1>  PICK K, I : K = Len(merged) + 1 /\ I = Len(traceEvents) + 1
  OBVIOUS
<1>1. IsFlow(payload) /\ Consume(e) /\ Emit(FlowEvent(payload, p))
  BY DEF Flow
<1>2. /\ DOMAIN merged' = DOMAIN merged \cup {K} /\ K \notin DOMAIN merged
      /\ \A k \in DOMAIN merged : merged'[k] = merged[k]
      /\ merged'[K].payload = payload /\ merged'[K].pid = p /\ procs' = procs
  BY <1>1, ConsumeAppends
<1>3. \A q, c : Changes(q, c)' = Changes(q, c)
  BY <1>1, ConsumeChanges
<1>4. Key(FlowEvent(payload, p)) = KeyOf(payload, p)
  BY <1>1 DEF KeyOf
<1>  HIDE DEF payload
<1>5. DrawnAt' = DrawnAt \cup {K} /\ K \notin DrawnAt
  BY <1>1, <1>2, <1>3 DEF DrawnAt
<1>6. \A a, q : KeyOf(a, q)' = KeyOf(a, q)
  BY <1>2 DEF KeyOf, Key, FlowEvent, SliceEvent
<1>7. DrawnWith(key)' = IF KeyOf(payload, p) = key THEN DrawnWith(key) \cup {K} ELSE DrawnWith(key)
  BY <1>2, <1>5, <1>6 DEF DrawnWith, DrawnAt
<1>8. /\ EventsWith(key)' = IF KeyOf(payload, p) = key THEN EventsWith(key) \cup {I}
                                                      ELSE EventsWith(key)
      /\ I \notin EventsWith(key)
  BY <1>1, <1>4, EmitKeys DEF IInv
<1>9. K \notin DrawnWith(key) /\ Cardinality(EventsWith(key)) = Cardinality(DrawnWith(key))
  BY <1>5 DEF DrawnWith, Drawn
<1>  QED  BY <1>7, <1>8, <1>9, KeysFinite, CountGrows

\* A set is drawn when its channel changes next.
LEMMA SetOrResetDraws ==
  ASSUME IInv, pc = "merge", Drawn, NEW e \in Tops(merger), SetOrReset(e), NEW key
  PROVE  Cardinality(EventsWith(key)') = Cardinality(DrawnWith(key)')
<1>  DEFINE payload == PayloadAt(Files, merger, e)
            d       == payload.channelId
            prev    == prev_payloads[d]
<1>  PICK K, I : K = Len(merged) + 1 /\ I = Len(traceEvents) + 1
  OBVIOUS
<1>1. /\ InBounds(payload) /\ ~ IsFlow(payload) /\ Consume(e)
      /\ IsOpen(prev) => Emit(SliceEvent(prev, payload, p))
      /\ ~ IsOpen(prev) => traceEvents' = traceEvents
  BY DEF SetOrReset
<1>2. /\ DOMAIN merged' = DOMAIN merged \cup {K} /\ K \notin DOMAIN merged /\ K \in Nat
      /\ \A k \in DOMAIN merged : merged'[k] = merged[k] /\ k < K /\ k \in Nat
      /\ merged'[K].payload = payload /\ merged'[K].pid = p /\ procs' = procs
  BY <1>1, ConsumeAppends
<1>3. ASSUME NEW q, NEW c
      PROVE  /\ Changes(q, c)' = IF q = p /\ d = c THEN Changes(q, c) \cup {K} ELSE Changes(q, c)
             /\ \A k \in Changes(q, c) : k \in DOMAIN merged
  BY <1>1, ConsumeChanges
<1>4. d \in Channels(p)
  BY <1>1, ChannelOfTop
<1>5. \A a, q : KeyOf(a, q)' = KeyOf(a, q)
  BY <1>2 DEF KeyOf, Key, FlowEvent, SliceEvent
<1>  HIDE DEF d, payload, prev
<1>6. ASSUME NEW k \in DOMAIN merged
      PROVE  k \in DrawnAt' <=> k \in DrawnAt \/ (k \in Changes(p, d) /\ IsOpen(merged[k].payload))
  <2>  PICK q, c : q = merged[k].pid /\ c = merged[k].payload.channelId
    OBVIOUS
  <2>1. k \in DrawnAt' <=> \/ IsFlow(merged[k].payload)
                           \/ /\ IsOpen(merged[k].payload)
                              /\ \E l \in Changes(q, c)' : k < l
    BY <1>2 DEF DrawnAt
  <2>2. k \in DrawnAt <=> \/ IsFlow(merged[k].payload)
                          \/ /\ IsOpen(merged[k].payload)
                             /\ \E l \in Changes(q, c) : k < l
    BY DEF DrawnAt
  <2>3. k \in Changes(p, d) <=> q = p /\ c = d /\ ~ IsFlow(merged[k].payload)
    BY DEF Changes
  <2>4. k < K
    BY <1>2
  <2>5. CASE q = p /\ d = c
    <3>1. \E l \in Changes(q, c)' : k < l
      BY <1>3, <2>4, <2>5
    <3>2. k \in DrawnAt => IsFlow(merged[k].payload) \/ IsOpen(merged[k].payload)
      BY <2>2
    <3>  QED  BY <2>1, <2>2, <2>3, <2>5, <3>1, <3>2
  <2>6. CASE ~ (q = p /\ d = c)
    <3>1. Changes(q, c)' = Changes(q, c)
      BY <1>3, <2>6
    <3>  QED  BY <2>1, <2>2, <2>3, <2>6, <3>1
  <2>  QED  BY <2>5, <2>6
<1>7. K \notin DrawnAt'
  <2>1. \A l \in DOMAIN merged' : ~ (K < l)
    BY <1>2
  <2>2. ~ IsFlow(merged'[K].payload)
    BY <1>1, <1>2
  <2>3. K \in DrawnAt' => IsFlow(merged'[K].payload) \/ \E l \in DOMAIN merged' : K < l
    BY DEF DrawnAt, Changes
  <2>  QED  BY <2>1, <2>2, <2>3
<1>8. DrawnAt \subseteq DOMAIN merged /\ DrawnAt' \subseteq DOMAIN merged'
  BY DEF DrawnAt
<1>9. ASSUME NEW k \in Changes(p, d), IsOpen(merged[k].payload), k \notin DrawnAt
      PROVE  \A l \in Changes(p, d) : l <= k
  <2>1. /\ k \in DOMAIN merged /\ merged[k].pid = p /\ merged[k].payload.channelId = d
    BY DEF Changes
  <2>2. ~ \E l \in Changes(p, d) : k < l
    BY <1>9, <2>1 DEF DrawnAt
  <2>3. \A l \in Changes(p, d) : l \in Nat /\ k \in Nat
    BY <1>2, <1>3
  <2>  QED  BY <2>2, <2>3
<1>10. CASE ~ IsOpen(prev)
  <2>1. ASSUME NEW k \in Changes(p, d), IsOpen(merged[k].payload) PROVE k \in DrawnAt
    BY <1>4, <1>9, <1>10, <2>1, ClosedChannel DEF prev
  <2>2. DrawnAt' = DrawnAt
    BY <1>2, <1>6, <1>7, <1>8, <2>1
  <2>3. DrawnWith(key)' = DrawnWith(key)
    BY <1>2, <1>5, <1>8, <2>2 DEF DrawnWith
  <2>4. EventsWith(key)' = EventsWith(key)
    BY <1>1, <1>10 DEF EventsWith, Key
  <2>  QED  BY <2>3, <2>4 DEF Drawn
<1>11. CASE IsOpen(prev)
  <2>1. PICK h \in Changes(p, d) : /\ \A l \in Changes(p, d) : l <= h
                                   /\ prev = merged[h].payload /\ prev.channelId = d
    BY <1>4, <1>11, OpenChannel DEF prev
  <2>2. /\ h \in DOMAIN merged /\ merged[h].pid = p /\ ~ IsFlow(prev) /\ h \in Nat
        /\ IsOpen(merged[h].payload)
    BY <1>2, <1>11, <2>1 DEF Changes
  <2>3. h \notin DrawnAt
    <3>1. \A l \in Changes(p, d) : ~ (h < l)
      BY <1>2, <1>3, <2>1, <2>2
    <3>  QED  BY <2>1, <2>2, <3>1 DEF DrawnAt
  <2>4. ASSUME NEW k \in Changes(p, d), IsOpen(merged[k].payload) PROVE k \in DrawnAt \cup {h}
    <3>1. CASE k \notin DrawnAt
      <4>1. h <= k /\ k <= h /\ k \in Nat
        BY <1>2, <1>3, <1>9, <2>1, <2>4, <3>1
      <4>  QED  BY <2>2, <4>1
    <3>  QED  BY <3>1
  <2>5. DrawnAt' = DrawnAt \cup {h}
    BY <1>2, <1>6, <1>7, <1>8, <2>2, <2>4
  <2>6. Key(SliceEvent(prev, payload, p)) = KeyOf(merged[h].payload, merged[h].pid)
    BY <2>1, <2>2 DEF KeyOf, Key, SliceEvent
  <2>7. DrawnWith(key)' = IF KeyOf(merged[h].payload, merged[h].pid) = key
                          THEN DrawnWith(key) \cup {h} ELSE DrawnWith(key)
    BY <1>2, <1>5, <1>8, <2>2, <2>5 DEF DrawnWith
  <2>8. /\ EventsWith(key)' = IF KeyOf(merged[h].payload, merged[h].pid) = key
                              THEN EventsWith(key) \cup {I} ELSE EventsWith(key)
        /\ I \notin EventsWith(key)
    BY <1>1, <1>11, <2>6, EmitKeys DEF IInv
  <2>9. h \notin DrawnWith(key) /\ Cardinality(EventsWith(key)) = Cardinality(DrawnWith(key))
    BY <2>3 DEF DrawnWith, Drawn
  <2>  QED  BY <2>7, <2>8, <2>9, KeysFinite, CountGrows
<1>  QED  BY <1>10, <1>11

LEMMA ConsumeInOrder ==
  ASSUME IInv, pc = "merge", InOrder, NEW e \in Tops(merger), Consume(e)
  PROVE  InOrder'
<1>  PICK K : K = Len(merged) + 1
  OBVIOUS
<1>1. /\ DOMAIN merged' = DOMAIN merged \cup {K} /\ K \in Nat
      /\ \A k \in DOMAIN merged : merged'[k] = merged[k] /\ k < K /\ k \in Nat
      /\ merged'[K].payload = PayloadAt(Files, merger, e) /\ merged'[K].pid = p
  BY ConsumeAppends
<1>2. e \in merger.heap /\ e.timestamp = PayloadAt(Files, merger, e).timestamp
  BY TopFacts
<1>3. \A k \in DOMAIN merged : merged[k].pid = p =>
        merged[k].payload.timestamp <= merged'[K].payload.timestamp
  BY <1>1, <1>2 DEF IInv, Monotone
<1>  QED  BY <1>1, <1>3 DEF InOrder

LEMMA NextDrawn == IInv /\ Drawn /\ InOrder /\ [Next]_vars => (Drawn /\ InOrder)'
<1>  SUFFICES ASSUME IInv, Drawn, InOrder, [Next]_vars PROVE (Drawn /\ InOrder)'
  OBVIOUS
<1>1. CASE \E e \in Tops(merger) : pc = "merge" /\ (Flow(e) \/ SetOrReset(e))
  <2>1. PICK e \in Tops(merger) : pc = "merge" /\ (Flow(e) \/ SetOrReset(e))
    BY <1>1
  <2>2. Consume(e)
    BY <2>1 DEF Flow, SetOrReset
  <2>3. \A key : Cardinality(EventsWith(key)') = Cardinality(DrawnWith(key)')
    BY <2>1, FlowDraws, SetOrResetDraws
  <2>4. Drawn'
    BY <2>3 DEF Drawn
  <2>  QED  BY <2>1, <2>2, <2>4, ConsumeInOrder
<1>2. CASE UNCHANGED << procs, merged, traceEvents >>
  <2>1. \A a, q : KeyOf(a, q)' = KeyOf(a, q)
    BY <1>2 DEF KeyOf, Key, FlowEvent, SliceEvent
  <2>2. DrawnAt' = DrawnAt
    BY <1>2 DEF DrawnAt, Changes
  <2>3. \A key : EventsWith(key)' = EventsWith(key) /\ DrawnWith(key)' = DrawnWith(key)
    BY <1>2, <2>1, <2>2 DEF EventsWith, DrawnWith, Key
  <2>  QED  BY <1>2, <2>3 DEF Drawn, InOrder
<1>  QED
  BY <1>1, <1>2 DEF Next, Open, OpenFails, BeginProc, MergeStep, OutOfBounds, NoLabel, EndProc,
     WriteFails, Close, Finished, vars, writer

LEMMA DrawnInvariant == Spec => [](Drawn /\ InOrder)
<1>1. Init => Drawn /\ InOrder
  <2>  SUFFICES ASSUME Init PROVE Drawn /\ InOrder
    OBVIOUS
  <2>1. DOMAIN merged = {} /\ DOMAIN traceEvents = {}
    BY EmptyOwn DEF Init
  <2>2. \A key : EventsWith(key) = {} /\ DrawnWith(key) = {}
    BY <2>1 DEF EventsWith, DrawnWith, DrawnAt
  <2>  QED  BY <2>1, <2>2 DEF Drawn, InOrder
<1>  QED  BY <1>1, NextDrawn, Invariant, PTL DEF Spec

-----------------------------------------------------------------------------
(* Theorems. *)

\* The writer's state is well typed: an event is on a track of a proc that exists,
\* although the channel of a payload is an arbitrary 16-bit number.
THEOREM TypeCorrect == Spec => []TypeOK
<1>1. IInv /\ good \in BOOLEAN => TypeOK
  <2>  SUFFICES ASSUME IInv, good \in BOOLEAN PROVE TypeOK
    OBVIOUS
  <2>1. DOMAIN procs = 1 .. Len(procs) /\ Len(procs) \in Nat /\ p \in 0 .. Len(procs)
    BY InputFacts, ProcFacts DEF IInv, Control
  <2>2. 1 .. p \subseteq DOMAIN procs
    BY <2>1
  <2>  QED  BY <2>2 DEF IInv, Control, Events, TypeOK, Channels
<1>  QED  BY <1>1, Invariant, StreamTyped, PTL

\* On each channel the n-th slice is that of the n-th set, from whichever threads the
\* payloads come and however many procs there are.
THEOREM SlicesAreExact == Spec => []SlicesMatch
<1>1. IInv => SlicesMatch
  BY DEF IInv
<1>  QED  BY <1>1, Invariant, PTL

\* No subtraction of two timestamps wraps, whatever start_time and end_time say.
THEOREM TimesAreBounded == Spec => []TimesWithinSession
<1>1. IInv => TimesWithinSession
  BY DEF IInv
<1>  QED  BY <1>1, Invariant, PTL

\* When the writer is through with every proc it has all payloads, each once.
LEMMA AllWritten ==
  ASSUME IInv, result = "ok", NEW q \in DOMAIN procs, NEW i \in DOMAIN procs[q].files,
         NEW n \in DOMAIN procs[q].files[i]
  PROVE  \E k \in DOMAIN merged : IsAt(merged[k], q, i, n)
<1>1. p = Len(procs) /\ DOMAIN procs = 1 .. Len(procs) /\ Len(procs) \in Nat
  BY InputFacts, ProcFacts DEF IInv, Control
<1>2. Through(q)
  BY <1>1 DEF Through
<1>  QED  BY <1>2 DEF IInv, AllRecorded

\* Two payloads of one thread are consumed in the order of the file.
LEMMA OrderOfPlaces ==
  ASSUME IInv, NEW k \in DOMAIN merged, NEW l \in DOMAIN merged,
         merged[k].pid = merged[l].pid, merged[k].file = merged[l].file
  PROVE  /\ k \in Nat /\ l \in Nat /\ merged[k].place \in Nat /\ merged[l].place \in Nat
         /\ merged[k].place <= merged[l].place <=> k <= l
<1>1. k \in Nat /\ l \in Nat
  BY LenProperties DEF IInv, Recorded, OwnSeq
<1>2. /\ k < l => merged[k].place < merged[l].place
      /\ l < k => merged[l].place < merged[k].place
  BY DEF IInv, Recorded
<1>3. ASSUME NEW m \in DOMAIN merged
      PROVE  merged[m].place \in Nat
  <2>  DEFINE q == merged[m].pid  i == merged[m].file
  <2>1. q \in 1 .. p /\ i \in DOMAIN procs[q].files /\ merged[m].place \in DOMAIN procs[q].files[i]
    BY DEF IInv, Recorded
  <2>2. q \in DOMAIN procs
    BY <2>1, InputFacts, ProcFacts DEF IInv, Control
  <2>  HIDE DEF q, i
  <2>3. Traces(procs[q].files)
    BY <2>2, InputFacts, ProcFacts DEF IInv, Control
  <2>4. DOMAIN procs[q].files[i] = 1 .. Len(procs[q].files[i]) /\ Len(procs[q].files[i]) \in Nat
    BY <2>1, <2>3, TraceFacts
  <2>  QED  BY <2>1, <2>4
<1>4. merged[k].place \in Nat /\ merged[l].place \in Nat
  BY <1>3
<1>  QED  BY <1>1, <1>2, <1>4

\* A place of the files is that of one payload that was consumed.
At(q, x, k) == k \in DOMAIN merged /\ IsAt(merged[k], q, x[1], x[2])

LEMMA PlaceFacts ==
  ASSUME IInv, result = "ok", NEW q \in DOMAIN procs, NEW c, NEW x \in Places(q, c)
  PROVE  /\ PayloadOf(q, x).channelId = c
         /\ \E k : At(q, x, k)
         /\ \A k, l : At(q, x, k) /\ At(q, x, l) => k = l
         /\ \A k : At(q, x, k) => merged[k].payload = PayloadOf(q, x) /\ merged[k].pid = q
         /\ \A k, y : y \in Places(q, c) /\ At(q, x, k) /\ At(q, y, k) => x = y
<1>1. PICK i \in DOMAIN procs[q].files : \E n \in DOMAIN procs[q].files[i] :
        x = << i, n >> /\ procs[q].files[i][n].channelId = c
  BY DEF Places
<1>2. PICK n \in DOMAIN procs[q].files[i] : x = << i, n >> /\ procs[q].files[i][n].channelId = c
  BY <1>1
<1>3. PayloadOf(q, x) = procs[q].files[i][n] /\ x[1] = i /\ x[2] = n
  BY <1>2 DEF PayloadOf
<1>4. \E k : At(q, x, k)
  BY <1>3, AllWritten DEF At
<1>5. ASSUME NEW k, NEW l, At(q, x, k), At(q, x, l)
      PROVE  k = l
  <2>1. /\ k \in DOMAIN merged /\ l \in DOMAIN merged /\ merged[k].pid = merged[l].pid
        /\ merged[k].file = merged[l].file /\ merged[k].place = merged[l].place
    BY <1>5 DEF At, IsAt
  <2>2. /\ k \in Nat /\ l \in Nat /\ merged[k].place \in Nat
        /\ merged[k].place <= merged[l].place <=> k <= l
    BY <2>1, OrderOfPlaces
  <2>3. merged[l].place <= merged[k].place <=> l <= k
    BY <2>1, OrderOfPlaces
  <2>  QED  BY <2>1, <2>2, <2>3
<1>6. ASSUME NEW k, At(q, x, k)
      PROVE  merged[k].payload = PayloadOf(q, x) /\ merged[k].pid = q
  BY <1>3, <1>6 DEF At, IsAt, IInv, Recorded
<1>7. ASSUME NEW k, NEW y \in Places(q, c), At(q, x, k), At(q, y, k)
      PROVE  x = y
  <2>1. PICK j, m : y = << j, m >>
    BY DEF Places
  <2>  QED  BY <1>2, <1>7, <2>1 DEF At, IsAt
<1>  QED  BY <1>2, <1>3, <1>4, <1>5, <1>6, <1>7

\* The other way round.
LEMMA ChannelOfPlace ==
  ASSUME IInv
  PROVE  /\ \A k \in DOMAIN merged : merged[k].payload.channelId \in Nat
         /\ \A q \in DOMAIN procs : \A c : \A x \in Places(q, c) : c \in Nat
<1>1. ASSUME NEW q \in DOMAIN procs, NEW i \in DOMAIN procs[q].files,
             NEW n \in DOMAIN procs[q].files[i]
      PROVE  procs[q].files[i][n].channelId \in Nat
  <2>1. IsTrace(procs[q].files[i])
    BY InputFacts, ProcFacts DEF IInv, Control, IsProc
  <2>  QED  BY <2>1, Zenon DEF IsTrace
<1>2. 1 .. p \subseteq DOMAIN procs
  BY InputFacts, ProcFacts DEF IInv, Control
<1>3. ASSUME NEW k \in DOMAIN merged
      PROVE  merged[k].payload.channelId \in Nat
  BY <1>1, <1>2 DEF IInv, Recorded
<1>4. ASSUME NEW q \in DOMAIN procs, NEW c, NEW x \in Places(q, c)
      PROVE  c \in Nat
  BY <1>1 DEF Places
<1>  QED  BY <1>3, <1>4

LEMMA PlaceOfMerged ==
  ASSUME IInv, NEW k \in DOMAIN merged
  PROVE  /\ << merged[k].file, merged[k].place >>
              \in Places(merged[k].pid, merged[k].payload.channelId)
         /\ At(merged[k].pid, << merged[k].file, merged[k].place >>, k)
  BY DEF IInv, Recorded, Places, At, IsAt

\* Which place may go without an event: that of the last change of the channel.
LEMMA LastPlace ==
  ASSUME IInv, InOrder, result = "ok", NEW q \in DOMAIN procs, NEW c
  PROVE  \E lost \in Latest(q, c) \cup {NoPlace} : \A x \in Due(q, c), k \in DOMAIN merged :
           At(q, x, k) => (k \in DrawnAt <=> x # lost)
<1>1. ASSUME NEW x \in Places(q, c), NEW k \in DOMAIN merged, At(q, x, k)
      PROVE  /\ merged[k].payload = PayloadOf(q, x) /\ merged[k].pid = q
             /\ merged[k].payload.channelId = c
             /\ k \in Changes(q, c) <=> ~ IsFlow(PayloadOf(q, x))
  <2>1. merged[k].payload = PayloadOf(q, x) /\ merged[k].pid = q /\ PayloadOf(q, x).channelId = c
    BY <1>1, PlaceFacts
  <2>  QED  BY <2>1 DEF Changes
<1>2. ASSUME NEW x \in Due(q, c), NEW k \in DOMAIN merged, At(q, x, k)
      PROVE  k \in DrawnAt <=> IsFlow(PayloadOf(q, x)) \/ \E l \in Changes(q, c) : k < l
  <2>1. x \in Places(q, c) /\ IsOpen(PayloadOf(q, x))
    BY DEF Due, IsOpen
  <2>2. /\ merged[k].payload = PayloadOf(q, x) /\ merged[k].pid = q
        /\ merged[k].payload.channelId = c
    BY <1>1, <1>2, <2>1
  <2>  QED  BY <2>1, <2>2 DEF DrawnAt
<1>3. CASE Changes(q, c) = {}
  <2>1. ASSUME NEW x \in Due(q, c), NEW k \in DOMAIN merged, At(q, x, k)
        PROVE  k \in DrawnAt /\ x # NoPlace
    <3>1. x \in Places(q, c)
      BY DEF Due
    <3>2. x[1] \in DOMAIN procs[q].files /\ x[2] \in DOMAIN procs[q].files[x[1]]
      BY <3>1 DEF Places
    <3>3. Traces(procs[q].files)
      BY InputFacts, ProcFacts DEF IInv, Control
    <3>4. x # NoPlace
      BY <3>2, <3>3, TraceFacts DEF NoPlace
    <3>  QED  BY <1>1, <1>2, <1>3, <2>1, <3>1, <3>4
  <2>  QED  BY <2>1
<1>4. CASE Changes(q, c) # {}
  <2>1. PICK h \in Changes(q, c) : \A l \in Changes(q, c) : l <= h
    <3>1. Changes(q, c) \in SUBSET Nat /\ \A l \in Changes(q, c) : l <= Len(merged)
      BY PlacesFinite, LenProperties DEF Changes, IInv, Recorded, OwnSeq
    <3>2. Len(merged) \in Nat
      BY LenProperties DEF IInv, Recorded, OwnSeq
    <3>  QED  BY <1>4, <3>1, <3>2, MaxFacts
  <2>2. /\ h \in DOMAIN merged /\ merged[h].pid = q /\ merged[h].payload.channelId = c
        /\ ~ IsFlow(merged[h].payload) /\ h \in Nat
    BY PlacesFinite DEF Changes
  <2>  PICK lost : lost = << merged[h].file, merged[h].place >>
    OBVIOUS
  <2>3. lost \in Places(q, c) /\ At(q, lost, h)
    BY <2>2, PlaceOfMerged
  <2>4. PayloadOf(q, lost) = merged[h].payload
    BY <1>1, <2>2, <2>3
  <2>5. ASSUME NEW y \in States(q, c)
        PROVE  PayloadOf(q, y).timestamp <= PayloadOf(q, lost).timestamp
    <3>1. y \in Places(q, c) /\ ~ IsFlow(PayloadOf(q, y))
      BY DEF States
    <3>2. PICK l : At(q, y, l)
      BY <3>1, PlaceFacts
    <3>3. l \in DOMAIN merged /\ l \in Changes(q, c) /\ merged[l].payload = PayloadOf(q, y)
          /\ merged[l].pid = q
      BY <1>1, <3>1, <3>2 DEF At
    <3>4. l <= h /\ l \in Nat
      BY <2>1, <3>3, PlacesFinite
    <3>5. CASE l < h
      BY <2>2, <2>4, <3>3, <3>5 DEF InOrder
    <3>6. CASE l = h
      <4>1. PayloadOf(q, y) = PayloadOf(q, lost)
        BY <2>4, <3>3, <3>6
      <4>2. PayloadOf(q, y).timestamp \in Nat
        <5>1. /\ merged[h].file \in DOMAIN procs[q].files
              /\ merged[h].place \in DOMAIN procs[q].files[merged[h].file]
              /\ merged[h].payload = procs[q].files[merged[h].file][merged[h].place]
          BY <2>2 DEF IInv, Recorded
        <5>2. Traces(procs[q].files)
          BY InputFacts, ProcFacts DEF IInv, Control
        <5>  QED  BY <2>4, <4>1, <5>1, <5>2 DEF Traces
      <4>  QED  BY <4>1, <4>2
    <3>  QED  BY <2>2, <3>4, <3>5, <3>6
  <2>6. lost \in Latest(q, c)
    BY <2>2, <2>3, <2>4, <2>5 DEF Latest, States
  <2>7. ASSUME NEW x \in Due(q, c), NEW k \in DOMAIN merged, At(q, x, k)
        PROVE  k \in DrawnAt <=> x # lost
    <3>1. x \in Places(q, c)
      BY DEF Due
    <3>2. x = lost <=> k = h
      BY <2>3, <2>7, <3>1, PlaceFacts
    <3>3. CASE IsFlow(PayloadOf(q, x))
      BY <1>2, <2>2, <2>4, <2>7, <3>3
    <3>4. CASE ~ IsFlow(PayloadOf(q, x))
      <4>1. k \in Changes(q, c) /\ k <= h /\ k \in Nat
        BY <1>1, <2>1, <2>7, <3>1, <3>4, PlacesFinite
      <4>2. (\E l \in Changes(q, c) : k < l) <=> k < h
        <5>1. \A l \in Changes(q, c) : l \in Nat /\ l <= h
          BY <2>1, PlacesFinite
        <5>  QED  BY <2>2, <4>1, <5>1
      <4>  QED  BY <1>2, <2>2, <2>7, <3>2, <3>4, <4>1, <4>2
    <3>  QED  BY <3>3, <3>4
  <2>  QED  BY <2>6, <2>7
<1>  QED  BY <1>3, <1>4

\* Two payloads of one event are on one channel of one proc.
LEMMA SameKey ==
  ASSUME NEW a, NEW b, NEW q, NEW r, a.channelId \in Nat, b.channelId \in Nat,
         KeyOf(a, q) = KeyOf(b, r)
  PROVE  a.channelId = b.channelId /\ q = r /\ a.eventId = b.eventId
<1>1. /\ KeyOf(a, q)[2] = q /\ KeyOf(a, q)[3] = a.channelId + 1 /\ KeyOf(a, q)[4] = a.eventId
      /\ KeyOf(b, r)[2] = r /\ KeyOf(b, r)[3] = b.channelId + 1 /\ KeyOf(b, r)[4] = b.eventId
  BY DEF KeyOf, Key, FlowEvent, SliceEvent
<1>2. a.channelId + 1 = b.channelId + 1 /\ q = r /\ a.eventId = b.eventId
  BY <1>1
<1>  QED  BY <1>2

\* A perfetto.json that is reported as written, and to which no write failed, has an
\* event for every flow payload and every set that was recorded, but for the last set
\* of a channel, however many procs, threads and payloads there are.
THEOREM WrittenIsComplete == Spec => []Complete
<1>1. IInv /\ Drawn /\ InOrder => Complete
  <2>  SUFFICES ASSUME IInv, Drawn, InOrder, result = "ok", NEW q \in DOMAIN procs, NEW c
                PROVE  \E lost \in Latest(q, c) \cup {NoPlace} : \A x \in Due(q, c) :
                         Cardinality(EventsWith(KeyOf(PayloadOf(q, x), q)))
                           = Cardinality({y \in Due(q, c) \ {lost} :
                               KeyOf(PayloadOf(q, y), q) = KeyOf(PayloadOf(q, x), q)})
    BY DEF Complete, EventsWith
  <2>1. PICK lost \in Latest(q, c) \cup {NoPlace} :
          \A x \in Due(q, c), k \in DOMAIN merged : At(q, x, k) => (k \in DrawnAt <=> x # lost)
    BY LastPlace
  <2>2. ASSUME NEW x \in Due(q, c)
        PROVE  Cardinality(EventsWith(KeyOf(PayloadOf(q, x), q)))
                 = Cardinality({y \in Due(q, c) \ {lost} :
                     KeyOf(PayloadOf(q, y), q) = KeyOf(PayloadOf(q, x), q)})
    <3>  DEFINE key == KeyOf(PayloadOf(q, x), q)
                S   == {y \in Due(q, c) \ {lost} : KeyOf(PayloadOf(q, y), q) = key}
                T   == DrawnWith(key)
                f   == [y \in S |-> CHOOSE k : At(q, y, k)]
    <3>1. ASSUME NEW y \in S
          PROVE  y \in Due(q, c) /\ y \in Places(q, c) /\ y # lost /\ At(q, y, f[y])
      <4>1. y \in Due(q, c) /\ y \in Places(q, c) /\ y # lost
        BY DEF Due
      <4>2. \E k : At(q, y, k)
        BY <4>1, PlaceFacts
      <4>  QED  BY <4>1, <4>2
    <3>2. ASSUME NEW y \in S
          PROVE  f[y] \in T
      <4>1. f[y] \in DOMAIN merged /\ f[y] \in DrawnAt
        BY <2>1, <3>1 DEF At
      <4>2. merged[f[y]].payload = PayloadOf(q, y) /\ merged[f[y]].pid = q
        BY <3>1, PlaceFacts
      <4>3. KeyOf(PayloadOf(q, y), q) = key
        OBVIOUS
      <4>  HIDE DEF f, key, S
      <4>  QED  BY <4>1, <4>2, <4>3 DEF DrawnWith
    <3>3. \A y, z \in S : f[y] = f[z] => y = z
      BY <3>1, PlaceFacts
    <3>4. ASSUME NEW k \in T
          PROVE  \E y \in S : f[y] = k
      <4>1. /\ k \in DOMAIN merged /\ k \in DrawnAt
            /\ KeyOf(merged[k].payload, merged[k].pid) = key
        BY DEF DrawnWith, DrawnAt
      <4>  PICK y : y = << merged[k].file, merged[k].place >>
        OBVIOUS
      <4>2. /\ y \in Places(merged[k].pid, merged[k].payload.channelId)
            /\ At(merged[k].pid, y, k)
        BY <4>1, PlaceOfMerged
      <4>3. /\ merged[k].payload.channelId = c /\ merged[k].pid = q
            /\ merged[k].payload.eventId = PayloadOf(q, x).eventId
        <5>1. x \in Places(q, c) /\ PayloadOf(q, x).channelId = c
          BY PlaceFacts DEF Due
        <5>2. merged[k].payload.channelId \in Nat /\ PayloadOf(q, x).channelId \in Nat
          BY <4>1, <5>1, ChannelOfPlace
        <5>3. merged[k].payload.channelId = PayloadOf(q, x).channelId /\ merged[k].pid = q
              /\ merged[k].payload.eventId = PayloadOf(q, x).eventId
          BY <4>1, <5>2, SameKey
        <5>  QED  BY <5>1, <5>3
      <4>4. PayloadOf(q, y) = merged[k].payload
        BY <4>2, <4>3, PlaceFacts
      <4>5. y \in Due(q, c)
        BY <4>2, <4>3, <4>4 DEF Due
      <4>6. y \in S
        BY <2>1, <4>1, <4>2, <4>3, <4>4, <4>5
      <4>7. f[y] = k
        BY <3>1, <4>2, <4>3, <4>6, PlaceFacts
      <4>  QED  BY <4>6, <4>7
    <3>5. f \in [S -> T] /\ IsFiniteSet(T)
      BY <3>2, KeysFinite
    <3>  HIDE DEF f, S, T, key
    <3>6. Cardinality(S) = Cardinality(T)
      BY <3>3, <3>4, <3>5, OneToOne
    <3>7. Cardinality(EventsWith(key)) = Cardinality(T)
      BY DEF Drawn, T
    <3>  QED  BY <3>6, <3>7 DEF S, key
  <2>  QED  BY <2>1, <2>2
<1>  QED  BY <1>1, Invariant, DrawnInvariant, PTL

\* With a channel per thread, a thread is warned of exactly when the last change of
\* its channel in the merge of all threads is a set: the validation, which looks at
\* each file by itself, agrees with what is drawn.
THEOREM WarningIsExact == Spec => []WarningExact
<1>1. IInv => WarningExact
  <2>  SUFFICES ASSUME IInv, result = "ok", NEW q \in DOMAIN procs, OwnChannels(q),
                       NEW i \in DOMAIN procs[q].files
                PROVE  << q, i >> \in warned <=> LostOf(q, i)
    BY DEF WarningExact
  <2>  DEFINE files == procs[q].files
              file  == procs[q].files[i]
              last  == Max(StateChanges(file))
  <2>1. Through(q) /\ q \in 1 .. p
    BY InputFacts, ProcFacts DEF IInv, Control, Through
  <2>2. << q, i >> \in warned <=> StateChanges(file) # {} /\ IsOpen(file[last])
    BY <2>1 DEF IInv, Warnings, Unfinished
  <2>3. /\ IsProc(procs[q]) /\ IsTrace(file) /\ Len(file) \in Nat /\ DOMAIN file = 1 .. Len(file)
        /\ procs[q].num_channels \in Nat
    BY InputFacts, ProcFacts, TraceFacts DEF IInv, Control, IsProc
  <2>4. ASSUME StateChanges(file) # {}
        PROVE  last \in StateChanges(file) /\ \A n \in StateChanges(file) : n <= last
    <3>1. /\ StateChanges(file) \in SUBSET Nat /\ Len(file) \in Nat
          /\ \A n \in StateChanges(file) : n <= Len(file)
      BY <2>3 DEF StateChanges
    <3>  HIDE DEF file
    <3>  QED  BY <2>4, <3>1, MaxFacts
  \* The channel of the thread is changed by its payloads only.
  <2>5. ASSUME NEW k \in DOMAIN merged, merged[k].pid = q, merged[k].file = i,
               ~ IsFlow(merged[k].payload)
        PROVE  LET c == merged[k].payload.channelId
               IN  /\ c \in Channels(q) /\ k \in Changes(q, c)
                   /\ \A l \in Changes(q, c) :
                        /\ l \in DOMAIN merged /\ merged[l].pid = q /\ merged[l].file = i
                        /\ merged[l].place \in StateChanges(file)
                        /\ merged[l].payload = file[merged[l].place]
    <3>  DEFINE c == merged[k].payload.channelId
    <3>1. /\ merged[k].place \in DOMAIN file /\ merged[k].payload = file[merged[k].place]
          /\ c < procs[q].num_channels
      BY <2>5 DEF IInv, Recorded
    <3>2. c \in Nat
      BY <2>3, <3>1, Zenon DEF IsTrace
    <3>3. c \in Channels(q) /\ k \in Changes(q, c)
      BY <2>3, <2>5, <3>1, <3>2 DEF Channels, Changes
    <3>4. ASSUME NEW l \in Changes(q, c)
          PROVE  /\ l \in DOMAIN merged /\ merged[l].pid = q /\ merged[l].file = i
                 /\ merged[l].place \in StateChanges(file)
                 /\ merged[l].payload = file[merged[l].place]
      <4>1. /\ l \in DOMAIN merged /\ merged[l].pid = q /\ merged[l].payload.channelId = c
            /\ ~ IsFlow(merged[l].payload)
        BY DEF Changes
      <4>2. /\ merged[l].file \in DOMAIN files /\ merged[l].place \in DOMAIN files[merged[l].file]
            /\ merged[l].payload = files[merged[l].file][merged[l].place]
        BY <4>1 DEF IInv, Recorded
      <4>3. merged[l].file = i
        BY <3>1, <4>1, <4>2 DEF OwnChannels
      <4>  QED  BY <4>1, <4>2, <4>3 DEF StateChanges
    <3>  QED  BY <3>3, <3>4
  <2>6. ASSUME StateChanges(file) # {}
        PROVE  \E k \in DOMAIN merged : /\ IsAt(merged[k], q, i, last)
                                        /\ merged[k].payload = file[last]
                                        /\ ~ IsFlow(merged[k].payload)
    <3>1. last \in DOMAIN file /\ ~ IsFlow(file[last])
      BY <2>4, <2>6 DEF StateChanges
    <3>2. PICK k \in DOMAIN merged : IsAt(merged[k], q, i, last)
      BY <3>1, AllWritten
    <3>3. merged[k].payload = file[last]
      BY <3>2 DEF IInv, Recorded, IsAt
    <3>  QED  BY <3>1, <3>2, <3>3
  <2>  HIDE DEF last, file, files
  <2>7. ASSUME StateChanges(file) # {}, IsOpen(file[last])
        PROVE  LostOf(q, i)
    <3>1. PICK k \in DOMAIN merged : /\ IsAt(merged[k], q, i, last)
                                     /\ merged[k].payload = file[last]
                                     /\ ~ IsFlow(merged[k].payload)
      BY <2>6, <2>7
    <3>2. PICK c \in Channels(q) :
            /\ k \in Changes(q, c)
            /\ \A l \in Changes(q, c) :
                 /\ l \in DOMAIN merged /\ merged[l].pid = q /\ merged[l].file = i
                 /\ merged[l].place \in StateChanges(file)
      BY <2>5, <3>1 DEF IsAt
    <3>3. \A l \in Changes(q, c) : l <= k
      <4>1. ASSUME NEW l \in Changes(q, c) PROVE l <= k
        <5>1. merged[l].place <= merged[k].place
          BY <2>4, <2>7, <3>1, <3>2 DEF IsAt
        <5>  QED  BY <3>1, <3>2, <5>1, OrderOfPlaces DEF IsAt
      <4>  QED  BY <4>1
    <3>  QED  BY <2>7, <3>1, <3>2, <3>3 DEF LostOf, IsAt
  <2>8. ASSUME LostOf(q, i)
        PROVE  StateChanges(file) # {} /\ IsOpen(file[last])
    <3>1. PICK c \in Channels(q) : \E k \in Changes(q, c) :
            /\ \A l \in Changes(q, c) : l <= k
            /\ IsOpen(merged[k].payload) /\ merged[k].file = i
      BY <2>8 DEF LostOf
    <3>2. PICK k \in Changes(q, c) : /\ \A l \in Changes(q, c) : l <= k
                                     /\ IsOpen(merged[k].payload) /\ merged[k].file = i
      BY <3>1
    <3>3. /\ k \in DOMAIN merged /\ merged[k].pid = q /\ merged[k].payload.channelId = c
          /\ ~ IsFlow(merged[k].payload)
      BY <3>2 DEF Changes
    <3>4. merged[k].place \in StateChanges(file) /\ merged[k].payload = file[merged[k].place]
      BY <2>5, <3>2, <3>3
    <3>5. PICK h \in DOMAIN merged : /\ IsAt(merged[h], q, i, last)
                                     /\ merged[h].payload = file[last]
                                     /\ ~ IsFlow(merged[h].payload)
      BY <2>6, <3>4
    <3>6. h \in Changes(q, c)
      <4>1. /\ merged[h].place \in DOMAIN procs[q].files[i]
            /\ merged[k].place \in DOMAIN procs[q].files[i]
            /\ merged[h].payload = procs[q].files[i][merged[h].place]
            /\ merged[k].payload = procs[q].files[i][merged[k].place]
        BY <3>2, <3>3, <3>5 DEF IInv, Recorded, IsAt
      <4>2. merged[h].payload.channelId = merged[k].payload.channelId
        BY <4>1 DEF OwnChannels
      <4>  QED  BY <3>3, <3>5, <4>2 DEF Changes, IsAt
    <3>7. h <= k
      BY <3>2, <3>6
    <3>8. merged[h].place <= merged[k].place /\ merged[k].place <= merged[h].place
      <4>1. merged[k].place <= last
        BY <2>4, <3>4
      <4>  QED  BY <3>2, <3>3, <3>5, <3>7, <4>1, OrderOfPlaces DEF IsAt
    <3>9. merged[h].place = merged[k].place
      BY <3>2, <3>3, <3>5, <3>8, OrderOfPlaces DEF IsAt
    <3>  QED  BY <3>2, <3>4, <3>5, <3>9 DEF IsAt
  <2>  QED  BY <2>2, <2>7, <2>8 DEF file, last
<1>  QED  BY <1>1, Invariant, PTL

=============================================================================
