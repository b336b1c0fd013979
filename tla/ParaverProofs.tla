--------------------------- MODULE ParaverProofs ----------------------------
(***************************************************************************)
(* Proofs about the Paraver writer, for every number of procs, of threads, *)
(* of payloads and of flows, whatever channels and times they have and     *)
(* whatever anchors the metadata.json files have.                          *)
(***************************************************************************)
EXTENDS MessageFlow, MergerProofs, FunctionTheorems

-----------------------------------------------------------------------------
(* The inductive invariant. *)

Collecting == pc \in {"open", "proc", "merge"}

\* The records are sorted and the flows are paired.
Sorted == pc \in {"write", "row"} \/ result = "ok"

Control ==
  /\ IsProcs(procs)
  /\ p \in 0 .. Len(procs)
  /\ pc \in {"open", "proc", "merge", "write", "row", "over"}
  /\ result \in {"running", "ok", "failed", "undefined"}
  /\ result = "running" <=> pc # "over"
  /\ pc = "open" => p = 0
  /\ pc = "merge" => p # 0 /\ Mirrors(Files, merger)
  /\ Collecting => comms = << >> /\ rec = 0 /\ c = 0 /\ prv = << >>
  /\ Sorted => p = Len(procs)
  /\ pc = "row" \/ result = "ok" => rec = Len(records) /\ c = Len(comms)

\* A place is a proc, a file of it and an index of the file.
Places ==
  UNION {UNION {{<< q, i, n >> : n \in DOMAIN procs[q].files[i]} :
                  i \in DOMAIN procs[q].files} : q \in DOMAIN procs}

PayloadOf(x) == procs[x[1]].files[x[2]][x[3]]

\* What the merge has read.
Consumed ==
  {x \in Places : \/ x[1] < p
                  \/ x[1] = p /\ (pc = "merge" => x[3] <= merger.ptrs[x[2]])}

TimeOf(q, t) == Sub64(SinceStart(t, procs[q]), GlobalT0)

PlaceOf(r) == << r.task, r.file, r.place >>

IsRecord(r) ==
  /\ PlaceOf(r) \in Consumed
  /\ ~ IsFlow(PayloadOf(PlaceOf(r)))
  /\ r.eventId = PayloadOf(PlaceOf(r)).eventId
  /\ r.thread = PayloadOf(PlaceOf(r)).channelId + 1
  /\ r.timestamp = TimeOf(r.task, PayloadOf(PlaceOf(r)).timestamp)

\* a comes before b in the file both are from.
FileOrder(a, b) == a.task = b.task /\ a.file = b.file => a.place < b.place

\* The records are the sets and resets that were read, each thread's in its order.
Collected ==
  /\ OwnSeq(records)
  /\ \A k \in DOMAIN records : IsRecord(records[k])
  /\ \A k, l \in DOMAIN records : k < l => FileOrder(records[k], records[l])

AllCollected ==
  result # "undefined" =>
    \A x \in Consumed : ~ IsFlow(PayloadOf(x)) =>
      \E k \in DOMAIN records : PlaceOf(records[k]) = x

RecordsSorted ==
  Sorted => \A k, l \in DOMAIN records :
              k < l => records[k].timestamp <= records[l].timestamp

TimelineRow == {row \in Row : row.timestamp <= TotalTime}

EndsIn(f, S) == \A id \in DOMAIN f : f[id] \in Seq(S)

EndsOnTimeline == EndsIn(flow_starts, TimelineRow) /\ EndsIn(flow_ends, TimelineRow)

\* The ends of flows in f, and the payloads of an event that were read.
Slots(f) == UNION {{<< id, i >> : i \in DOMAIN f[id]} : id \in DOMAIN f}

Flowed(event) == {x \in Consumed : PayloadOf(x).eventId = event}

ExtraIds == [x \in Places |-> PayloadOf(x).extraId]

\* f has one end for each place in S.
Counts(f, S, extra) ==
  /\ IsFiniteSet(Slots(f)) /\ IsFiniteSet(S)
  /\ Cardinality(Slots(f)) = Cardinality(S)
  /\ \A id : Len(Ends(f, id)) = Cardinality({x \in S : extra[x] = id})

AllTallied ==
  result # "undefined" => /\ Counts(flow_starts, Flowed(EVENTID_FLOW_START), ExtraIds)
                          /\ Counts(flow_ends, Flowed(EVENTID_FLOW_END), ExtraIds)

\* Two arrows of one flow do not cross.
Uncrossed(a, b) ==
  a.flowId = b.flowId /\ a.send.timestamp < b.send.timestamp
    => a.recv.timestamp <= b.recv.timestamp

Arrows ==
  /\ OwnSeq(comms)
  /\ \A k \in DOMAIN comms : comms[k].send \in TimelineRow /\ comms[k].recv \in TimelineRow
  /\ \A k, l \in DOMAIN comms : k < l => comms[k].send.timestamp <= comms[l].send.timestamp
  /\ \A k, l \in DOMAIN comms : Uncrossed(comms[k], comms[l])

\* The arrows of flow id among the first n.
ArrowsOf(id, n) == {k \in 1 .. n : comms[k].flowId = id}

AllPaired ==
  /\ unmatched \in Nat
  /\ Sorted =>
       /\ \A id : Cardinality(ArrowsOf(id, Len(comms))) = NumPairs(id)
       /\ unmatched + 2 * Len(comms)
            = Cardinality(Slots(flow_starts)) + Cardinality(Slots(flow_ends))

IsEventLine(x, r) ==
  x.kind = "event" /\ x.line = records[r] /\ x.timestamp = records[r].timestamp

IsArrowLine(x, k) ==
  x.kind = "arrow" /\ x.line = comms[k] /\ x.timestamp = comms[k].send.timestamp

DrawnOf(id) == {k \in Line("arrow") : prv[k].line.flowId = id}

\* What is in the file are the records and arrows so far.
Written ==
  /\ OwnSeq(prv) /\ Len(prv) = rec + c
  /\ rec \in 0 .. Len(records) /\ c \in 0 .. Len(comms)
  /\ \A i \in DOMAIN prv : \/ \E r \in 1 .. rec : IsEventLine(prv[i], r)
                           \/ \E k \in 1 .. c : IsArrowLine(prv[i], k)
  /\ \A r \in 1 .. rec : \E i \in DOMAIN prv : IsEventLine(prv[i], r)
  /\ \A i, j \in Line("event") : i < j => FileOrder(prv[i].line, prv[j].line)
  /\ IsFiniteSet(Line("arrow")) /\ Cardinality(Line("arrow")) = c
  /\ \A id : Cardinality(DrawnOf(id)) = Cardinality(ArrowsOf(id, c))

\* What comes next is no earlier.
NextIsLater ==
  pc = "write" => \A i \in DOMAIN prv :
    /\ rec < Len(records) => prv[i].timestamp <= records[rec + 1].timestamp
    /\ c < Len(comms) => prv[i].timestamp <= comms[c + 1].send.timestamp

IInv ==
  /\ Control /\ Collected /\ AllCollected /\ RecordsSorted
  /\ EndsOnTimeline /\ AllTallied /\ Arrows /\ AllPaired
  /\ Written /\ NextIsLater /\ PrvInTimeOrder

-----------------------------------------------------------------------------
(* What the sorts do, for every sequence. *)

LEMMA MaxOfSome ==
  ASSUME NEW S, S \subseteq Int, 0 \in S, NEW b \in Nat, \A x \in S : x <= b
  PROVE  Max(S) \in Nat /\ Max(S) <= b /\ \A x \in S : x <= Max(S)
<1>  DEFINE T == {x \in S : 0 <= x}
<1>1. T \in SUBSET Nat /\ T # {} /\ \A x \in T : x <= b
  <2>1. 0 \in T
    OBVIOUS
  <2>2. ASSUME NEW x \in T PROVE x \in Nat /\ x <= b
    <3>1. x \in Int /\ 0 <= x /\ x <= b
      OBVIOUS
    <3>  QED  BY <3>1
  <2>  HIDE DEF T
  <2>  QED  BY <2>1, <2>2
<1>  HIDE DEF T
<1>2. Max(T) \in T /\ \A x \in T : x <= Max(T)
  BY <1>1, MaxFacts
<1>3. Max(T) \in S /\ \A x \in S : x <= Max(T)
  <2>1. ASSUME NEW x \in S PROVE x <= Max(T)
    <3>1. CASE x \in T
      BY <1>2, <3>1
    <3>2. CASE x \notin T
      <4>1. x \in Int /\ x < 0 /\ Max(T) \in Nat
        BY <1>1, <1>2, <3>2 DEF T
      <4>  QED  BY <4>1
    <3>  QED  BY <3>1, <3>2
  <2>  QED  BY <1>2, <2>1 DEF T
<1>  DEFINE m == Max(S)
<1>4. m \in S /\ \A x \in S : x <= m
  BY <1>3 DEF Max
<1>  HIDE DEF m
<1>5. m \in Int /\ 0 <= m
  BY <1>4
<1>  QED  BY <1>4, <1>5 DEF m

\* i is before j in a stable sort.
Earlier(s, i, j) ==
  s[i].timestamp < s[j].timestamp \/ (s[i].timestamp = s[j].timestamp /\ i < j)

NotLater(s, i) == {j \in DOMAIN s : \/ s[j].timestamp < s[i].timestamp
                                    \/ s[j].timestamp = s[i].timestamp /\ j <= i}

\* The number of elements not later than it is the place of an element.
LEMMA RankFacts ==
  ASSUME NEW s, OwnSeq(s), \A i \in DOMAIN s : s[i].timestamp \in Nat
  PROVE  LET D == DOMAIN s
             rank == [i \in D |-> Cardinality(NotLater(s, i))]
         IN  /\ D = 1 .. Len(s) /\ Len(s) \in Nat /\ IsFiniteSet(D)
             /\ rank \in Bijection(D, D)
             /\ \A i, j \in D : rank[i] < rank[j] => Earlier(s, i, j)
<1>  DEFINE D == DOMAIN s
            rank == [i \in D |-> Cardinality(NotLater(s, i))]
<1>1. /\ D = 1 .. Len(s) /\ Len(s) \in Nat /\ IsFiniteSet(D) /\ D \subseteq Nat
      /\ Cardinality(D) = Len(s)
  <2>1. D = 1 .. Len(s) /\ Len(s) \in Nat
    BY LenProperties DEF OwnSeq
  <2>2. IsFiniteSet(D) /\ Cardinality(D) = Len(s)
    BY <2>1, FS_Interval
  <2>  QED  BY <2>1, <2>2
<1>2. ASSUME NEW i \in D
      PROVE  /\ NotLater(s, i) \in SUBSET D /\ IsFiniteSet(NotLater(s, i))
             /\ i \in NotLater(s, i) /\ Cardinality(NotLater(s, i)) \in D
  <2>1. NotLater(s, i) \in SUBSET D /\ i \in NotLater(s, i)
    BY <1>1 DEF NotLater
  <2>2. /\ IsFiniteSet(NotLater(s, i)) /\ Cardinality(NotLater(s, i)) <= Len(s)
        /\ Cardinality(NotLater(s, i)) \in Nat /\ Cardinality(NotLater(s, i)) # 0
    BY <1>1, <2>1, FS_Subset, FS_CardinalityType, FS_EmptySet
  <2>  QED  BY <1>1, <2>1, <2>2
<1>3. ASSUME NEW i \in D, NEW j \in D, Earlier(s, i, j)
      PROVE  Cardinality(NotLater(s, i)) < Cardinality(NotLater(s, j))
  <2>1. NotLater(s, i) \in SUBSET NotLater(s, j)
    <3>1. ASSUME NEW k \in NotLater(s, i) PROVE k \in NotLater(s, j)
      <4>1. /\ k \in Nat /\ i \in Nat /\ j \in Nat /\ k \in D
            /\ s[k].timestamp \in Nat /\ s[i].timestamp \in Nat /\ s[j].timestamp \in Nat
        BY <1>1, <1>2
      <4>2. \/ s[k].timestamp < s[i].timestamp
            \/ s[k].timestamp = s[i].timestamp /\ k <= i
        BY DEF NotLater
      <4>  HIDE DEF D
      <4>3. \/ s[k].timestamp < s[j].timestamp
            \/ s[k].timestamp = s[j].timestamp /\ k <= j
        BY <1>3, <4>1, <4>2 DEF Earlier
      <4>  QED  BY <4>1, <4>3 DEF NotLater, D
    <3>  QED  BY <3>1
  <2>2. j \notin NotLater(s, i)
    <3>1. /\ i \in Nat /\ j \in Nat /\ s[i].timestamp \in Nat /\ s[j].timestamp \in Nat
      BY <1>1
    <3>  QED  BY <1>3, <3>1 DEF NotLater, Earlier
  <2>3. /\ Cardinality(NotLater(s, i)) <= Cardinality(NotLater(s, j))
        /\ Cardinality(NotLater(s, i)) # Cardinality(NotLater(s, j))
    BY <1>2, <2>1, <2>2, FS_Subset
  <2>4. Cardinality(NotLater(s, i)) \in Nat /\ Cardinality(NotLater(s, j)) \in Nat
    BY <1>1, <1>2
  <2>  QED  BY <2>3, <2>4
<1>4. \A i, j \in D : i # j => Earlier(s, i, j) \/ Earlier(s, j, i)
  <2>  SUFFICES ASSUME NEW i \in D, NEW j \in D, i # j
                PROVE  Earlier(s, i, j) \/ Earlier(s, j, i)
    OBVIOUS
  <2>1. /\ i \in Nat /\ j \in Nat /\ s[i].timestamp \in Nat /\ s[j].timestamp \in Nat
    BY <1>1
  <2>  HIDE DEF D
  <2>  QED  BY <2>1 DEF Earlier
<1>5. /\ rank \in [D -> D]
      /\ \A i \in D : rank[i] = Cardinality(NotLater(s, i)) /\ rank[i] \in Nat
  BY <1>1, <1>2
<1>  HIDE DEF D, rank
<1>6. \A i, j \in D : Earlier(s, i, j) => rank[i] < rank[j]
  BY <1>3, <1>5
<1>7. \A i, j \in D : rank[i] < rank[j] => Earlier(s, i, j)
  <2>  SUFFICES ASSUME NEW i \in D, NEW j \in D, rank[i] < rank[j] PROVE Earlier(s, i, j)
    OBVIOUS
  <2>1. rank[i] \in Nat /\ rank[j] \in Nat /\ i # j
    BY <1>5
  <2>2. ~ Earlier(s, j, i)
    BY <1>6, <2>1
  <2>  QED  BY <1>4, <2>1, <2>2
<1>8. \A i, j \in D : rank[i] = rank[j] => i = j
  <2>  SUFFICES ASSUME NEW i \in D, NEW j \in D, rank[i] = rank[j], i # j PROVE FALSE
    OBVIOUS
  <2>1. rank[i] < rank[j] \/ rank[j] < rank[i]
    BY <1>4, <1>6
  <2>  QED  BY <1>5, <2>1
<1>9. rank \in Injection(D, D)
  BY <1>5, <1>8, Fun_IsInj
<1>10. rank \in Surjection(D, D)
  BY <1>1, <1>9, FS_Injection
<1>  QED  BY <1>1, <1>7, <1>9, <1>10, Fun_IsBij DEF D, rank

\* A stable sort moves the elements into the order of their times, and keeps the
\* order of those with the same time.
LEMMA StableSortedFacts ==
  ASSUME NEW s, OwnSeq(s), \A i \in DOMAIN s : s[i].timestamp \in Nat
  PROVE  LET t == StableSorted(s)
         IN  /\ OwnSeq(t) /\ DOMAIN t = DOMAIN s /\ Len(t) = Len(s)
             /\ \A i \in DOMAIN s : \E k \in DOMAIN t : t[k] = s[i]
             /\ \A k \in DOMAIN t : \E i \in DOMAIN s : t[k] = s[i]
             /\ \A k, l \in DOMAIN t : k < l =>
                  \E i, j \in DOMAIN s : t[k] = s[i] /\ t[l] = s[j] /\ Earlier(s, i, j)
<1>  DEFINE D == DOMAIN s
            rank == [i \in D |-> Cardinality(NotLater(s, i))]
            t == StableSorted(s)
            perm == [k \in D |-> CHOOSE i \in D : rank[i] = k]
<1>1. /\ D = 1 .. Len(s) /\ Len(s) \in Nat
      /\ rank \in Bijection(D, D)
      /\ \A i, j \in D : rank[i] < rank[j] => Earlier(s, i, j)
  BY RankFacts
<1>2. t = [k \in D |-> s[CHOOSE i \in D : rank[i] = k]]
  BY DEF StableSorted, Ranked, NotLater
<1>  HIDE DEF rank
<1>  HIDE DEF D
<1>3. \A i, j \in D : rank[i] = rank[j] => i = j
  BY <1>1, Zenon DEF Bijection, Injection, IsInjective
<1>4. \A k \in D : \E i \in D : rank[i] = k
  BY <1>1, Zenon DEF Bijection, Surjection
<1>  USE DEF D
<1>5. \A k \in D : perm[k] \in D /\ rank[perm[k]] = k
  BY <1>4
<1>6. DOMAIN t = D /\ \A k \in D : t[k] = s[perm[k]]
  BY <1>2
<1>  HIDE DEF perm, t
<1>7. rank \in [D -> D] /\ \A i \in D : perm[rank[i]] = i
  <2>1. rank \in [D -> D]
    BY <1>1, Fun_BijectionProperties
  <2>2. ASSUME NEW i \in D PROVE perm[rank[i]] = i
    <3>1. rank[i] \in D
      BY <2>1
    <3>2. perm[rank[i]] \in D /\ rank[perm[rank[i]]] = rank[i]
      BY <1>5, <3>1
    <3>  QED  BY <1>3, <3>2
  <2>  QED  BY <2>1, <2>2
<1>8. OwnSeq(t) /\ Len(t) = Len(s)
  <2>1. t \in [1 .. Len(s) -> {t[i] : i \in D}]
    <3>1. t = [k \in D |-> t[k]]
      BY <1>2, <1>6
    <3>  QED  BY <1>1, <3>1
  <2>2. t \in Seq({t[i] : i \in D})
    BY <1>1, <2>1, SeqDef
  <2>3. DOMAIN t = 1 .. Len(t) /\ Len(t) \in Nat
    BY <2>2, LenProperties
  <2>  QED  BY <1>1, <1>6, <2>2, <2>3 DEF OwnSeq
<1>9. \A i \in D : \E k \in D : t[k] = s[i]
  BY <1>6, <1>7
<1>10. ASSUME NEW k \in D, NEW l \in D, k < l
       PROVE  \E i, j \in D : t[k] = s[i] /\ t[l] = s[j] /\ Earlier(s, i, j)
  <2>1. rank[perm[k]] < rank[perm[l]]
    BY <1>5, <1>10
  <2>2. Earlier(s, perm[k], perm[l])
    BY <1>1, <1>5, <2>1
  <2>  QED  BY <1>5, <1>6, <2>2
<1>  QED  BY <1>5, <1>6, <1>8, <1>9, <1>10 DEF t

\* std::sort moves the elements into the order of their times.
LEMMA SortingsFacts ==
  ASSUME NEW S, IsFiniteSet(S), NEW time, NEW s \in Sortings(S, time)
  PROVE  /\ DOMAIN s = 1 .. Cardinality(S) /\ Cardinality(S) \in Nat
         /\ s \in Bijection(1 .. Cardinality(S), S)
         /\ \A k \in DOMAIN s : s[k] \in S
         /\ \A i, j \in DOMAIN s : i < j => time[s[i]] <= time[s[j]]
<1>  DEFINE D == 1 .. Cardinality(S)
<1>1. /\ s \in [D -> S] /\ \A i, j \in D : i # j => s[i] # s[j]
      /\ \A i, j \in DOMAIN s : i < j => time[s[i]] <= time[s[j]]
  BY DEF Sortings, SetToSeqs
<1>2. Cardinality(S) \in Nat
  BY FS_CardinalityType
<1>3. Cardinality(D) = Cardinality(S) /\ IsFiniteSet(D)
  BY <1>2, FS_Interval
<1>  HIDE DEF D
<1>4. s \in Injection(D, S)
  BY <1>1, Fun_IsInj
<1>5. s \in Surjection(D, S)
  BY <1>3, <1>4, FS_Injection
<1>6. s \in Bijection(D, S)
  BY <1>4, <1>5, Fun_IsBij
<1>  QED  BY <1>1, <1>2, <1>6 DEF D

-----------------------------------------------------------------------------
(* The time base. *)

LEMMA FirstIsLeast ==
  ASSUME IsProcs(procs), NEW q \in DOMAIN procs, NEW i \in DOMAIN procs[q].files,
         NEW n \in DOMAIN procs[q].files[i]
  PROVE  LET file == procs[q].files[i]
         IN  /\ file[1].timestamp \in FirstTimes(procs[q].files)
             /\ file[1].timestamp <= file[n].timestamp
             /\ file[1].timestamp \in 0 .. UInt64Max
             /\ file[n].timestamp \in 0 .. UInt64Max
<1>  DEFINE files == procs[q].files
<1>1. IsProc(procs[q]) /\ Traces(files) /\ UInt64Max \in Nat
  BY ProcFacts
<1>2. /\ Len(files[i]) \in Nat /\ DOMAIN files[i] = 1 .. Len(files[i])
      /\ files[i] # << >> <=> 0 < Len(files[i])
      /\ \A j, k \in 1 .. Len(files[i]) :
           j <= k => files[i][j].timestamp <= files[i][k].timestamp
  BY <1>1, TraceFacts
<1>3. \A k \in DOMAIN files[i] : files[i][k].timestamp \in 0 .. UInt64Max
  BY <1>1 DEF IsProc, IsTrace
<1>  HIDE DEF files
<1>4. 1 \in 1 .. Len(files[i]) /\ n \in 1 .. Len(files[i]) /\ 1 <= n /\ files[i] # << >>
  BY <1>2 DEF files
<1>5. i \in DOMAIN files
  BY DEF files
<1>6. files[i][1].timestamp \in FirstTimes(files)
  BY <1>4, <1>5 DEF FirstTimes, NonEmpty
<1>7. files[i][1].timestamp <= files[i][n].timestamp
  BY <1>2, <1>4
<1>8. /\ files[i][1].timestamp \in 0 .. UInt64Max
      /\ files[i][n].timestamp \in 0 .. UInt64Max
  BY <1>2, <1>3, <1>4
<1>  QED  BY <1>6, <1>7, <1>8 DEF files

\* The first subtraction does not wrap.
LEMMA SinceStartFacts ==
  ASSUME IsProcs(procs), NEW q \in DOMAIN procs, NEW i \in DOMAIN procs[q].files,
         NEW n \in DOMAIN procs[q].files[i]
  PROVE  LET t == procs[q].files[i][n].timestamp
         IN  /\ SinceStart(t, procs[q]) = t - SyncStart(procs[q])
             /\ SinceStart(t, procs[q]) \in 0 .. UInt64Max
             /\ t \in 0 .. UInt64Max /\ SyncStart(procs[q]) \in 0 .. UInt64Max
             /\ SinceStart(t, procs[q]) <= SyncEnd(procs[q]) - SyncStart(procs[q])
<1>  DEFINE t == procs[q].files[i][n].timestamp
<1>1. IsProc(procs[q]) /\ UInt64Max \in Nat
  BY ProcFacts
<1>2. /\ SyncStart(procs[q]) \in 0 .. UInt64Max /\ SyncEnd(procs[q]) \in 0 .. UInt64Max
      /\ t \in 0 .. UInt64Max /\ SyncStart(procs[q]) <= t /\ t <= SyncEnd(procs[q])
  BY <1>1, SyncBounds
<1>  HIDE DEF t
<1>3. /\ SinceStart(t, procs[q]) \in 0 .. UInt64Max
      /\ SinceStart(t, procs[q]) = t - SyncStart(procs[q])
  BY <1>2, Subtraction DEF SinceStart
<1>  QED  BY <1>1, <1>2, <1>3 DEF t

\* The timeline begins no later than any payload.
LEMMA GlobalT0Facts ==
  ASSUME IsProcs(procs)
  PROVE  /\ GlobalT0 \in 0 .. UInt64Max
         /\ \A q \in DOMAIN procs : \A i \in DOMAIN procs[q].files :
              \A n \in DOMAIN procs[q].files[i] :
                GlobalT0 <= SinceStart(procs[q].files[i][n].timestamp, procs[q])
<1>  DEFINE first == UNION {{SinceStart(t, procs[q]) : t \in FirstTimes(procs[q].files)} :
                              q \in DOMAIN procs}
            S  == first \cup {UInt64Max}
            t0 == Min(S)
<1>1. UInt64Max \in Nat
  BY ProcAssumption
<1>2. \A x \in first : x \in 0 .. UInt64Max
  <2>1. ASSUME NEW q \in DOMAIN procs, NEW t \in FirstTimes(procs[q].files)
        PROVE  SinceStart(t, procs[q]) \in 0 .. UInt64Max
    <3>1. PICK i \in DOMAIN procs[q].files :
            procs[q].files[i] # << >> /\ t = procs[q].files[i][1].timestamp
      BY <2>1 DEF FirstTimes, NonEmpty
    <3>2. Traces(procs[q].files)
      BY ProcFacts
    <3>3. 1 \in DOMAIN procs[q].files[i]
      BY <3>1, <3>2, TraceFacts
    <3>  QED  BY <3>1, <3>3, SinceStartFacts
  <2>  QED  BY <2>1
<1>3. S \in SUBSET Nat /\ S # {} /\ UInt64Max \in S
  BY <1>1, <1>2
<1>4. GlobalT0 = IF t0 = UInt64Max THEN 0 ELSE t0
  BY DEF GlobalT0
<1>5. ASSUME NEW q \in DOMAIN procs, NEW i \in DOMAIN procs[q].files,
             NEW n \in DOMAIN procs[q].files[i]
      PROVE  \E x \in S : /\ x \in Nat
                          /\ x <= SinceStart(procs[q].files[i][n].timestamp, procs[q])
  <2>  DEFINE u == procs[q].files[i][1].timestamp
              t == procs[q].files[i][n].timestamp
  <2>1. /\ u \in FirstTimes(procs[q].files) /\ u <= t
        /\ u \in 0 .. UInt64Max /\ t \in 0 .. UInt64Max
    BY FirstIsLeast
  <2>2. 1 \in DOMAIN procs[q].files[i]
    <3>1. Traces(procs[q].files)
      BY ProcFacts
    <3>2. Len(procs[q].files[i]) \in Nat /\ DOMAIN procs[q].files[i] = 1 .. Len(procs[q].files[i])
      BY <3>1, TraceFacts
    <3>  QED  BY <3>2
  <2>3. /\ SinceStart(u, procs[q]) = u - SyncStart(procs[q])
        /\ SinceStart(t, procs[q]) = t - SyncStart(procs[q])
        /\ SyncStart(procs[q]) \in 0 .. UInt64Max
        /\ SinceStart(u, procs[q]) \in 0 .. UInt64Max
    BY <2>2, SinceStartFacts
  <2>4. SinceStart(u, procs[q]) \in S
    BY <2>1
  <2>  HIDE DEF u, t, S
  <2>5. SinceStart(u, procs[q]) <= SinceStart(t, procs[q]) /\ SinceStart(u, procs[q]) \in Nat
    BY <1>1, <2>1, <2>3
  <2>  QED  BY <2>4, <2>5 DEF t
<1>  HIDE DEF first, S
<1>6. t0 \in S /\ \A x \in S : t0 <= x
  BY <1>3, MinFacts
<1>  HIDE DEF t0
<1>7. t0 \in Nat /\ t0 <= UInt64Max
  BY <1>3, <1>6
<1>8. GlobalT0 \in 0 .. UInt64Max /\ GlobalT0 <= t0
  BY <1>1, <1>4, <1>7
<1>9. ASSUME NEW q \in DOMAIN procs, NEW i \in DOMAIN procs[q].files,
             NEW n \in DOMAIN procs[q].files[i]
      PROVE  GlobalT0 <= SinceStart(procs[q].files[i][n].timestamp, procs[q])
  <2>1. SinceStart(procs[q].files[i][n].timestamp, procs[q]) \in 0 .. UInt64Max
    BY SinceStartFacts
  <2>2. PICK x \in S : x \in Nat /\ x <= SinceStart(procs[q].files[i][n].timestamp, procs[q])
    BY <1>5
  <2>3. t0 <= x
    BY <1>6
  <2>  QED  BY <1>1, <1>7, <1>8, <2>1, <2>2, <2>3
<1>  QED  BY <1>8, <1>9

\* ... and ends no earlier.
LEMMA TotalTimeFacts ==
  ASSUME IsProcs(procs)
  PROVE  /\ TotalTime \in 0 .. UInt64Max
         /\ \A q \in DOMAIN procs :
              SyncEnd(procs[q]) - SyncStart(procs[q]) - GlobalT0 <= TotalTime
<1>  DEFINE S == {SyncEnd(procs[q]) - SyncStart(procs[q]) : q \in DOMAIN procs} \cup {0}
            latest == Max(S)
<1>1. UInt64Max \in Nat /\ GlobalT0 \in 0 .. UInt64Max
  BY GlobalT0Facts, ProcAssumption
<1>2. ASSUME NEW q \in DOMAIN procs
      PROVE  /\ SyncEnd(procs[q]) \in 0 .. UInt64Max /\ SyncStart(procs[q]) \in 0 .. UInt64Max
             /\ SyncEnd(procs[q]) - SyncStart(procs[q]) \in Int
             /\ SyncEnd(procs[q]) - SyncStart(procs[q]) <= UInt64Max
  <2>1. SyncEnd(procs[q]) \in 0 .. UInt64Max /\ SyncStart(procs[q]) \in 0 .. UInt64Max
    BY ProcFacts, SyncBounds
  <2>  QED  BY <1>1, <2>1
<1>3. S \subseteq Int /\ 0 \in S /\ \A x \in S : x <= UInt64Max
  BY <1>1, <1>2
<1>4. \A q \in DOMAIN procs : SyncEnd(procs[q]) - SyncStart(procs[q]) \in S
  OBVIOUS
<1>5. TotalTime = IF latest > GlobalT0 THEN latest - GlobalT0 ELSE 0
  BY DEF TotalTime
<1>  HIDE DEF S
<1>6. latest \in Nat /\ latest <= UInt64Max /\ \A x \in S : x <= latest
  BY <1>1, <1>3, MaxOfSome
<1>  HIDE DEF latest
<1>7. TotalTime \in 0 .. UInt64Max /\ latest - GlobalT0 <= TotalTime
  BY <1>1, <1>5, <1>6
<1>8. ASSUME NEW q \in DOMAIN procs
      PROVE  SyncEnd(procs[q]) - SyncStart(procs[q]) - GlobalT0 <= TotalTime
  <2>1. SyncEnd(procs[q]) - SyncStart(procs[q]) <= latest
    BY <1>4, <1>6
  <2>  QED  BY <1>1, <1>2, <1>6, <1>7, <2>1
<1>  QED  BY <1>7, <1>8

\* Neither subtraction wraps, and every payload is on the timeline.
LEMMA TimeFacts ==
  ASSUME IsProcs(procs), NEW q \in DOMAIN procs, NEW i \in DOMAIN procs[q].files,
         NEW n \in DOMAIN procs[q].files[i]
  PROVE  LET t == procs[q].files[i][n].timestamp
         IN  /\ TimeOf(q, t) = t - SyncStart(procs[q]) - GlobalT0
             /\ TimeOf(q, t) \in 0 .. UInt64Max /\ TimeOf(q, t) <= TotalTime
             /\ t \in Nat /\ SyncStart(procs[q]) \in Nat /\ GlobalT0 \in Nat
             /\ UInt64Max \in Nat /\ TotalTime \in Nat
<1>  DEFINE t == procs[q].files[i][n].timestamp
            s == SinceStart(t, procs[q])
<1>1. /\ s = t - SyncStart(procs[q]) /\ s \in 0 .. UInt64Max
      /\ t \in 0 .. UInt64Max /\ SyncStart(procs[q]) \in 0 .. UInt64Max
      /\ s <= SyncEnd(procs[q]) - SyncStart(procs[q])
  BY SinceStartFacts
<1>2. GlobalT0 \in 0 .. UInt64Max /\ GlobalT0 <= s
  BY GlobalT0Facts
<1>3. /\ TotalTime \in 0 .. UInt64Max
      /\ SyncEnd(procs[q]) - SyncStart(procs[q]) - GlobalT0 <= TotalTime
  BY TotalTimeFacts
<1>4. SyncEnd(procs[q]) \in 0 .. UInt64Max /\ UInt64Max \in Nat
  BY ProcFacts, SyncBounds
<1>5. TimeOf(q, t) = Sub64(s, GlobalT0)
  BY DEF TimeOf
<1>  HIDE DEF s, t
<1>6. TimeOf(q, t) \in 0 .. UInt64Max /\ TimeOf(q, t) = s - GlobalT0
  BY <1>1, <1>2, <1>5, Subtraction
<1>7. TimeOf(q, t) <= TotalTime
  BY <1>1, <1>2, <1>3, <1>4, <1>6
<1>  QED  BY <1>1, <1>2, <1>3, <1>4, <1>6, <1>7 DEF t

\* The times of a file are drawn in the order of the file.
LEMMA TimesMonotone ==
  ASSUME IsProcs(procs), NEW q \in DOMAIN procs, NEW i \in DOMAIN procs[q].files,
         NEW m \in DOMAIN procs[q].files[i], NEW n \in DOMAIN procs[q].files[i], m <= n
  PROVE  TimeOf(q, procs[q].files[i][m].timestamp)
           <= TimeOf(q, procs[q].files[i][n].timestamp)
<1>  DEFINE t == procs[q].files[i][m].timestamp
            u == procs[q].files[i][n].timestamp
<1>1. t <= u
  <2>1. Traces(procs[q].files)
    BY ProcFacts
  <2>  QED  BY <2>1, TraceFacts
<1>2. /\ TimeOf(q, t) = t - SyncStart(procs[q]) - GlobalT0
      /\ TimeOf(q, u) = u - SyncStart(procs[q]) - GlobalT0
      /\ t \in Nat /\ u \in Nat /\ SyncStart(procs[q]) \in Nat /\ GlobalT0 \in Nat
  BY TimeFacts
<1>  HIDE DEF t, u
<1>3. TimeOf(q, t) <= TimeOf(q, u)
  BY <1>1, <1>2
<1>  QED  BY <1>3 DEF t, u

-----------------------------------------------------------------------------
(* What the merge reads. *)

LEMMA SameProcs ==
  ASSUME procs' = procs
  PROVE  /\ GlobalT0' = GlobalT0 /\ TotalTime' = TotalTime
         /\ Row' = Row /\ TimelineRow' = TimelineRow /\ Places' = Places
         /\ ExtraIds' = ExtraIds
         /\ \A x : PayloadOf(x)' = PayloadOf(x)
         /\ \A q, t : TimeOf(q, t)' = TimeOf(q, t)
<1>1. GlobalT0' = GlobalT0
  BY DEF GlobalT0
<1>2. TotalTime' = TotalTime
  BY <1>1 DEF TotalTime
<1>3. Row' = Row /\ Places' = Places
  BY DEF Row, Places
<1>4. TimelineRow' = TimelineRow
  BY <1>2, <1>3 DEF TimelineRow
<1>5. \A x : PayloadOf(x)' = PayloadOf(x)
  BY DEF PayloadOf
<1>6. ExtraIds' = ExtraIds
  BY <1>3 DEF ExtraIds, PayloadOf
<1>7. \A q, t : TimeOf(q, t)' = TimeOf(q, t)
  BY <1>1 DEF TimeOf
<1>  QED  BY <1>1, <1>2, <1>3, <1>4, <1>5, <1>6, <1>7

LEMMA PlaceFacts ==
  /\ \A q, i, n : << q, i, n >> \in Places <=>
       q \in DOMAIN procs /\ i \in DOMAIN procs[q].files /\ n \in DOMAIN procs[q].files[i]
  /\ \A x \in Places : /\ x = << x[1], x[2], x[3] >> /\ x[1] \in DOMAIN procs
                       /\ x[2] \in DOMAIN procs[x[1]].files
                       /\ x[3] \in DOMAIN procs[x[1]].files[x[2]]
  BY DEF Places

LEMMA MergeFacts ==
  ASSUME IInv, pc = "merge"
  PROVE  /\ IsProcs(procs) /\ p \in DOMAIN procs /\ p \in Nat /\ p \in 0 .. Len(procs)
         /\ Traces(Files) /\ Mirrors(Files, merger) /\ Files = procs[p].files
         /\ DOMAIN procs = 1 .. Len(procs)
<1>1. IsProcs(procs) /\ p \in 0 .. Len(procs) /\ p # 0 /\ Mirrors(Files, merger)
  BY DEF IInv, Control
<1>2. p \in DOMAIN procs /\ p \in Nat /\ DOMAIN procs = 1 .. Len(procs)
  BY <1>1, ProcFacts
<1>  QED  BY <1>1, <1>2, ProcFacts DEF Files

\* The place of the payload that comes next.
NextPlace(e) == << p, e.file_idx, merger.ptrs[e.file_idx] + 1 >>

LEMMA TopFacts ==
  ASSUME IInv, pc = "merge", NEW e \in Tops(merger)
  PROVE  LET i == e.file_idx
             n == merger.ptrs[e.file_idx] + 1
         IN  /\ e \in merger.heap
             /\ i \in DOMAIN Files /\ n \in DOMAIN Files[i]
             /\ merger.ptrs[i] \in Nat /\ n \in Nat
             /\ NextPlace(e) \in Places /\ NextPlace(e) \notin Consumed
             /\ PayloadAt(Files, merger, e) = PayloadOf(NextPlace(e))
<1>  DEFINE i == e.file_idx
            n == merger.ptrs[e.file_idx] + 1
<1>1. /\ Traces(Files) /\ Mirrors(Files, merger) /\ e \in merger.heap
      /\ p \in DOMAIN procs /\ p \in Nat /\ Files = procs[p].files
  BY MergeFacts DEF Tops
<1>2. /\ i \in DOMAIN Files /\ n \in 1 .. Len(Files[i])
      /\ PayloadAt(Files, merger, e) = Files[i][n]
      /\ merger.ptrs[i] \in Nat /\ n \in Nat
  BY <1>1, EntryFacts
<1>3. n \in DOMAIN Files[i]
  BY <1>1, <1>2, TraceFacts
<1>4. NextPlace(e) = << p, i, n >>
  BY DEF NextPlace
<1>5. n = merger.ptrs[i] + 1
  OBVIOUS
<1>  HIDE DEF i, n
<1>6. NextPlace(e) \in Places
  BY <1>1, <1>2, <1>3, <1>4, PlaceFacts
<1>7. NextPlace(e) \notin Consumed
  BY <1>1, <1>2, <1>4, <1>5 DEF Consumed
<1>8. PayloadAt(Files, merger, e) = PayloadOf(NextPlace(e))
  BY <1>1, <1>2, <1>4 DEF PayloadOf
<1>  QED  BY <1>1, <1>2, <1>3, <1>6, <1>7, <1>8 DEF i, n

LEMMA PopConsumes ==
  ASSUME IInv, pc = "merge", NEW e \in Tops(merger),
         merger' = Popped(Files, merger, e), procs' = procs, p' = p, pc' = pc
  PROVE  /\ Mirrors(Files, merger)'
         /\ Consumed' = Consumed \cup {NextPlace(e)}
<1>  DEFINE i == e.file_idx
            n == merger.ptrs[e.file_idx] + 1
<1>1. /\ e \in merger.heap /\ i \in DOMAIN Files /\ n \in DOMAIN Files[i]
      /\ merger.ptrs[i] \in Nat /\ n \in Nat /\ NextPlace(e) \in Places
  BY TopFacts
<1>2. Files' = Files
  BY DEF Files
<1>3. /\ Mirrors(Files, merger')
      /\ merger'.ptrs = [merger.ptrs EXCEPT ![i] = @ + 1]
  BY <1>1, MergeFacts, PoppedMirrors
<1>4. Mirrors(Files, merger)'
  BY <1>2, <1>3
<1>5. merger.ptrs \in [DOMAIN Files -> Nat]
  BY MergeFacts DEF Mirrors
<1>6. n = merger.ptrs[i] + 1 /\ NextPlace(e) = << p, i, n >>
  BY DEF NextPlace
<1>  HIDE DEF i, n
<1>7. /\ merger'.ptrs[i] = merger.ptrs[i] + 1
      /\ \A j \in DOMAIN Files : j # i => merger'.ptrs[j] = merger.ptrs[j]
  BY <1>1, <1>3, <1>5
<1>8. Places' = Places
  BY SameProcs
<1>9. Consumed' = {x \in Places : x[1] < p \/ (x[1] = p /\ x[3] <= merger'.ptrs[x[2]])}
  BY <1>8 DEF Consumed
<1>10. Consumed = {x \in Places : x[1] < p \/ (x[1] = p /\ x[3] <= merger.ptrs[x[2]])}
  BY DEF Consumed
<1>11. ASSUME NEW x \in Places
       PROVE  x \in Consumed' <=> x \in Consumed \cup {NextPlace(e)}
  <2>1. /\ x = << x[1], x[2], x[3] >> /\ x[1] \in DOMAIN procs
        /\ x[2] \in DOMAIN procs[x[1]].files
        /\ x[3] \in DOMAIN procs[x[1]].files[x[2]]
    BY PlaceFacts
  <2>2. CASE x[1] # p
    <3>1. x # NextPlace(e)
      BY <1>6, <2>2
    <3>  QED  BY <1>9, <1>10, <2>2, <3>1
  <2>3. CASE x[1] = p
    <3>1. /\ x[2] \in DOMAIN Files /\ x[3] \in DOMAIN Files[x[2]]
          /\ ~ (x[1] < p)
      BY <2>1, <2>3, MergeFacts
    <3>2. x[3] \in Nat
      <4>1. x[3] \in 1 .. Len(Files[x[2]])
        BY <3>1, MergeFacts, TraceFacts
      <4>  QED  BY <4>1
    <3>3. x = NextPlace(e) <=> x[2] = i /\ x[3] = n
      BY <1>6, <2>1, <2>3
    <3>4. x[3] <= merger'.ptrs[x[2]] <=> x[3] <= merger.ptrs[x[2]] \/ (x[2] = i /\ x[3] = n)
      <4>1. CASE x[2] = i
        BY <1>1, <1>6, <1>7, <3>2, <4>1
      <4>2. CASE x[2] # i
        BY <1>7, <3>1, <4>2
      <4>  QED  BY <4>1, <4>2
    <3>  QED  BY <1>9, <1>10, <2>3, <3>1, <3>3, <3>4
  <2>  QED  BY <2>2, <2>3
<1>12. Consumed' \subseteq Places /\ Consumed \subseteq Places
  BY <1>9, <1>10
<1>  QED  BY <1>1, <1>4, <1>11, <1>12

LEMMA BeginConsumesNothing ==
  ASSUME IInv, BeginProc
  PROVE  /\ p' \in 0 .. Len(procs) /\ p' # 0 /\ Mirrors(Files, merger)'
         /\ Consumed' = Consumed
<1>1. /\ pc = "proc" /\ p < Len(procs) /\ p' = p + 1 /\ pc' = "merge"
      /\ merger' = NewMerger(procs[p + 1].files) /\ procs' = procs
  BY DEF BeginProc
<1>2. /\ IsProcs(procs) /\ p \in 0 .. Len(procs)
      /\ Len(procs) \in Nat /\ DOMAIN procs = 1 .. Len(procs)
  BY ProcFacts DEF IInv, Control
<1>3. p' \in 0 .. Len(procs) /\ p' # 0 /\ p' \in DOMAIN procs
  BY <1>1, <1>2
<1>  DEFINE files == procs[p + 1].files
<1>4. Traces(files)
  BY <1>1, <1>2, <1>3, ProcFacts
<1>5. Files' = files
  BY <1>1 DEF Files
<1>6. Mirrors(files, NewMerger(files)) /\ NewMerger(files).ptrs = [i \in DOMAIN files |-> 0]
  BY <1>4, NewMirrors DEF NewMerger
<1>7. \A i \in DOMAIN files : DOMAIN files[i] = 1 .. Len(files[i]) /\ merger'.ptrs[i] = 0
  BY <1>1, <1>4, <1>6, TraceFacts
<1>8. Mirrors(Files, merger)'
  BY <1>1, <1>5, <1>6
<1>9. Places' = Places
  BY <1>1, SameProcs
<1>10. Consumed' = {x \in Places : x[1] < p + 1 \/ (x[1] = p + 1 /\ x[3] <= merger'.ptrs[x[2]])}
  BY <1>1, <1>9 DEF Consumed
<1>11. Consumed = {x \in Places : x[1] < p \/ x[1] = p}
  BY <1>1 DEF Consumed
<1>12. ASSUME NEW x \in Places
       PROVE  x \in Consumed' <=> x \in Consumed
  <2>1. /\ x[1] \in DOMAIN procs /\ x[2] \in DOMAIN procs[x[1]].files
        /\ x[3] \in DOMAIN procs[x[1]].files[x[2]]
    BY PlaceFacts
  <2>2. x[1] \in Nat
    BY <1>2, <2>1
  <2>3. x[1] = p + 1 => ~ (x[3] <= merger'.ptrs[x[2]])
    BY <1>7, <2>1
  <2>  HIDE DEF files
  <2>  QED  BY <1>2, <1>10, <1>11, <2>2, <2>3
<1>  QED  BY <1>3, <1>8, <1>10, <1>11, <1>12

LEMMA EndConsumedAll ==
  ASSUME IInv, EndProc
  PROVE  Consumed' = Consumed
<1>1. pc = "merge" /\ Empty(merger) /\ pc' = "proc" /\ procs' = procs /\ p' = p
  BY DEF EndProc
<1>2. Places' = Places
  BY <1>1, SameProcs
<1>3. Consumed' = {x \in Places : x[1] < p \/ x[1] = p}
  BY <1>1, <1>2 DEF Consumed
<1>4. Consumed = {x \in Places : x[1] < p \/ (x[1] = p /\ x[3] <= merger.ptrs[x[2]])}
  BY <1>1 DEF Consumed
<1>5. ASSUME NEW x \in Places, x[1] = p PROVE x[3] <= merger.ptrs[x[2]]
  <2>1. x[2] \in DOMAIN Files /\ x[3] \in DOMAIN Files[x[2]]
    BY <1>1, <1>5, MergeFacts, PlaceFacts
  <2>2. /\ x[3] \in 1 .. Len(Files[x[2]]) /\ Len(Files[x[2]]) \in Nat
    BY <1>1, <2>1, MergeFacts, TraceFacts
  <2>3. ~ (merger.ptrs[x[2]] < Len(Files[x[2]])) /\ merger.ptrs[x[2]] \in Nat
    BY <1>1, <2>1, MergeFacts DEF Empty, Mirrors
  <2>  QED  BY <2>2, <2>3
<1>  QED  BY <1>3, <1>4, <1>5

-----------------------------------------------------------------------------
(* The steps that move on and read nothing. *)

data == << records, flow_starts, flow_ends, comms, unmatched, rec, c, prv >>

\* What is collected and paired stays as it is.
LEMMA KeepsWhatIsCollected ==
  ASSUME IInv, procs' = procs, UNCHANGED << records, flow_starts, flow_ends, paired >>,
         Consumed \subseteq Consumed', result' # "undefined" => Consumed' = Consumed,
         result = "undefined" => result' = "undefined", Sorted' => Sorted
  PROVE  /\ Collected' /\ AllCollected' /\ RecordsSorted' /\ EndsOnTimeline'
         /\ AllTallied' /\ Arrows' /\ AllPaired'
<1>1. /\ Row' = Row /\ TimelineRow' = TimelineRow /\ ExtraIds' = ExtraIds
      /\ \A x : PayloadOf(x)' = PayloadOf(x)
      /\ \A q, t : TimeOf(q, t)' = TimeOf(q, t)
  BY SameProcs
<1>2. /\ records' = records /\ flow_starts' = flow_starts /\ flow_ends' = flow_ends
      /\ comms' = comms /\ unmatched' = unmatched
  BY DEF paired
<1>3. Collected'
  <2>1. \A r : IsRecord(r) => IsRecord(r)'
    BY <1>1 DEF IsRecord
  <2>  QED  BY <1>2, <2>1 DEF IInv, Collected
<1>4. AllCollected'
  BY <1>1, <1>2 DEF IInv, AllCollected
<1>5. RecordsSorted'
  BY <1>2 DEF IInv, RecordsSorted
<1>6. EndsOnTimeline'
  BY <1>1, <1>2 DEF IInv, EndsOnTimeline
<1>7. AllTallied'
  <2>  SUFFICES ASSUME result' # "undefined"
                PROVE  /\ Counts(flow_starts, Flowed(EVENTID_FLOW_START), ExtraIds)'
                       /\ Counts(flow_ends, Flowed(EVENTID_FLOW_END), ExtraIds)'
    BY DEF AllTallied
  <2>1. Flowed(EVENTID_FLOW_START)' = Flowed(EVENTID_FLOW_START)
    BY <1>1 DEF Flowed
  <2>2. Flowed(EVENTID_FLOW_END)' = Flowed(EVENTID_FLOW_END)
    BY <1>1 DEF Flowed
  <2>3. /\ Counts(flow_starts, Flowed(EVENTID_FLOW_START), ExtraIds)
        /\ Counts(flow_ends, Flowed(EVENTID_FLOW_END), ExtraIds)
    BY DEF IInv, AllTallied
  <2>  QED  BY <1>1, <1>2, <2>1, <2>2, <2>3
<1>8. Arrows'
  BY <1>1, <1>2 DEF IInv, Arrows
<1>9. AllPaired'
  <2>1. \A id : ArrowsOf(id, Len(comms))' = ArrowsOf(id, Len(comms))
    BY <1>2 DEF ArrowsOf
  <2>2. \A id : NumPairs(id)' = NumPairs(id)
    BY <1>2 DEF NumPairs, Ends
  <2>3. Slots(flow_starts)' = Slots(flow_starts) /\ Slots(flow_ends)' = Slots(flow_ends)
    BY <1>2 DEF Slots
  <2>4. AllPaired
    BY DEF IInv
  <2>5. unmatched' \in Nat
    BY <1>2, <2>4 DEF AllPaired
  <2>6. ASSUME Sorted' PROVE \A id : Cardinality(ArrowsOf(id, Len(comms))') = NumPairs(id)'
    BY <2>1, <2>2, <2>4, <2>6 DEF AllPaired
  <2>7. ASSUME Sorted'
        PROVE  (unmatched + 2 * Len(comms)
                  = Cardinality(Slots(flow_starts)) + Cardinality(Slots(flow_ends)))'
    BY <1>2, <2>3, <2>4, <2>7 DEF AllPaired
  <2>  QED  BY <2>5, <2>6, <2>7 DEF AllPaired
<1>  QED  BY <1>3, <1>4, <1>5, <1>6, <1>7, <1>8, <1>9

\* Nothing but the place in the program changes.
LEMMA MovesOn ==
  ASSUME IInv, Control', procs' = procs, UNCHANGED data,
         Consumed \subseteq Consumed', result' # "undefined" => Consumed' = Consumed,
         result = "undefined" => result' = "undefined",
         Sorted' => Sorted, pc' = "write" => pc = "write"
  PROVE  IInv'
<1>1. /\ records' = records /\ comms' = comms /\ rec' = rec /\ c' = c /\ prv' = prv
  BY DEF data
<1>2. /\ Collected' /\ AllCollected' /\ RecordsSorted' /\ EndsOnTimeline'
      /\ AllTallied' /\ Arrows' /\ AllPaired'
  BY KeepsWhatIsCollected DEF data, paired
<1>3. Written'
  <2>1. Written
    BY DEF IInv
  <2>3. Line("event")' = Line("event") /\ Line("arrow")' = Line("arrow")
    BY <1>1 DEF Line
  <2>4. \A id : DrawnOf(id)' = DrawnOf(id) /\ ArrowsOf(id, c)' = ArrowsOf(id, c)
    BY <1>1, <2>3 DEF DrawnOf, ArrowsOf
  <2>5. /\ OwnSeq(prv') /\ Len(prv') = rec' + c'
        /\ rec' \in 0 .. Len(records') /\ c' \in 0 .. Len(comms')
    BY <1>1, <2>1 DEF Written
  <2>6. /\ (\A i \in DOMAIN prv : \/ \E r \in 1 .. rec : IsEventLine(prv[i], r)
                                 \/ \E k \in 1 .. c : IsArrowLine(prv[i], k))'
        /\ (\A r \in 1 .. rec : \E i \in DOMAIN prv : IsEventLine(prv[i], r))'
    BY <1>1, <2>1 DEF Written, IsEventLine, IsArrowLine
  <2>7. \A i, j \in Line("event")' : i < j => FileOrder(prv'[i].line, prv'[j].line)
    BY <1>1, <2>1, <2>3 DEF Written
  <2>8. IsFiniteSet(Line("arrow")') /\ Cardinality(Line("arrow")') = c'
    BY <1>1, <2>1, <2>3 DEF Written
  <2>9. \A id : Cardinality(DrawnOf(id)') = Cardinality(ArrowsOf(id, c)')
    BY <2>1, <2>4 DEF Written
  <2>  QED  BY <2>5, <2>6, <2>7, <2>8, <2>9 DEF Written
<1>4. NextIsLater' /\ PrvInTimeOrder'
  BY <1>1 DEF IInv, NextIsLater, PrvInTimeOrder
<1>  QED  BY <1>2, <1>3, <1>4 DEF IInv

\* What is read does not change where the merge is not under way.
LEMMA SameConsumed ==
  ASSUME procs' = procs, p' = p, pc # "merge", pc' # "merge"
  PROVE  Consumed' = Consumed
  BY SameProcs DEF Consumed

LEMMA MoveStep ==
  ASSUME IInv,
         Open \/ OpenFails \/ BeginProc \/ EndProc \/ ClosePrv \/ WriteRow \/ RowFails
  PROVE  IInv'
<1>1. CASE Open
  <2>1. /\ pc = "open" /\ pc' = "proc" /\ procs' = procs /\ p' = p /\ UNCHANGED data
        /\ result' = result
    BY <1>1 DEF Open, data, collected, paired, written
  <2>2. Control'
    BY <2>1 DEF IInv, Control, Collecting, Sorted, data
  <2>  QED  BY <2>1, <2>2, MovesOn, SameConsumed DEF Sorted, IInv, Control
<1>2. CASE OpenFails
  <2>1. /\ pc = "open" /\ pc' = "over" /\ procs' = procs /\ p' = p /\ UNCHANGED data
        /\ result' = "failed"
    BY <1>2 DEF OpenFails, Fails, data, collected, paired, written
  <2>2. Control'
    BY <2>1 DEF IInv, Control, Collecting, Sorted, data
  <2>  QED  BY <2>1, <2>2, MovesOn, SameConsumed DEF Sorted, IInv, Control
<1>3. CASE BeginProc
  <2>1. /\ pc = "proc" /\ pc' = "merge" /\ procs' = procs /\ UNCHANGED data
        /\ result' = result
    BY <1>3 DEF BeginProc, data, paired, written
  <2>2. /\ p' \in 0 .. Len(procs) /\ p' # 0 /\ Mirrors(Files, merger)'
        /\ Consumed' = Consumed
    BY <1>3, BeginConsumesNothing
  <2>3. Control'
    BY <2>1, <2>2 DEF IInv, Control, Collecting, Sorted, data
  <2>  QED  BY <2>1, <2>2, <2>3, MovesOn DEF Sorted, IInv, Control
<1>4. CASE EndProc
  <2>1. /\ pc = "merge" /\ pc' = "proc" /\ procs' = procs /\ p' = p /\ UNCHANGED data
        /\ result' = result
    BY <1>4 DEF EndProc, data, collected, paired, written
  <2>2. Control'
    BY <2>1 DEF IInv, Control, Collecting, Sorted, data
  <2>  QED  BY <1>4, <2>1, <2>2, MovesOn, EndConsumedAll DEF Sorted, IInv, Control
<1>5. CASE ClosePrv
  <2>1. /\ pc = "write" /\ pc' = "row" /\ procs' = procs /\ p' = p /\ UNCHANGED data
        /\ result' = result /\ rec = Len(records) /\ c = Len(comms)
    BY <1>5 DEF ClosePrv, data, collected, paired, written
  <2>2. Control'
    BY <2>1 DEF IInv, Control, Collecting, Sorted, data
  <2>  QED  BY <2>1, <2>2, MovesOn, SameConsumed DEF Sorted, IInv, Control
<1>6. CASE WriteRow
  <2>1. /\ pc = "row" /\ pc' = "over" /\ procs' = procs /\ p' = p /\ UNCHANGED data
        /\ result' = "ok"
    BY <1>6 DEF WriteRow, data, collected, paired, written
  <2>2. Control'
    BY <2>1 DEF IInv, Control, Collecting, Sorted, data
  <2>  QED  BY <2>1, <2>2, MovesOn, SameConsumed DEF Sorted, IInv, Control
<1>7. CASE RowFails
  <2>1. /\ pc = "row" /\ pc' = "over" /\ procs' = procs /\ p' = p /\ UNCHANGED data
        /\ result' = "failed"
    BY <1>7 DEF RowFails, Fails, data, collected, paired, written
  <2>2. Control'
    BY <2>1 DEF IInv, Control, Collecting, Sorted, data
  <2>  QED  BY <2>1, <2>2, MovesOn, SameConsumed DEF Sorted, IInv, Control
<1>  QED  BY <1>1, <1>2, <1>3, <1>4, <1>5, <1>6, <1>7

-----------------------------------------------------------------------------
(* The steps that read. *)

\* Nothing is paired or written while the merge is under way.
LEMMA StillCollecting ==
  ASSUME IInv, Control', pc = "merge", pc' = "merge", UNCHANGED << paired, written >>,
         OwnSeq(records')
  PROVE  /\ RecordsSorted' /\ Arrows' /\ AllPaired' /\ Written'
         /\ NextIsLater' /\ PrvInTimeOrder'
<1>1. /\ comms' = << >> /\ rec' = 0 /\ c' = 0 /\ prv' = << >> /\ unmatched' = unmatched
      /\ unmatched \in Nat /\ ~ Sorted' /\ pc' # "write"
  BY DEF IInv, Control, Collecting, Sorted, AllPaired, paired, written
<1>2. OwnSeq(<< >>) /\ DOMAIN << >> = {} /\ Len(<< >>) = 0
  BY EmptyOwn
<1>3. Len(records') \in Nat
  BY LenProperties DEF OwnSeq
<1>4. Line("arrow")' = {} /\ Line("event")' = {}
  BY <1>1, <1>2 DEF Line
<1>5. \A id : DrawnOf(id)' = {} /\ ArrowsOf(id, c)' = {}
  BY <1>1, <1>4 DEF DrawnOf, ArrowsOf
<1>6. RecordsSorted' /\ AllPaired' /\ NextIsLater'
  BY <1>1 DEF RecordsSorted, AllPaired, NextIsLater
<1>7. Arrows' /\ PrvInTimeOrder'
  BY <1>1, <1>2 DEF Arrows, PrvInTimeOrder
<1>8. Written'
  <2>1. /\ OwnSeq(prv') /\ Len(prv') = rec' + c' /\ DOMAIN prv' = {}
        /\ rec' \in 0 .. Len(records') /\ c' \in 0 .. Len(comms')
        /\ 1 .. rec' = {}
    BY <1>1, <1>2, <1>3
  <2>2. /\ IsFiniteSet(Line("arrow")') /\ Cardinality(Line("arrow")') = c'
        /\ \A id : Cardinality(DrawnOf(id)') = Cardinality(ArrowsOf(id, c)')
    BY <1>1, <1>4, <1>5, FS_EmptySet
  <2>  QED  BY <1>4, <2>1, <2>2 DEF Written
<1>  QED  BY <1>6, <1>7, <1>8

LEMMA NoColorStep ==
  ASSUME IInv, pc = "merge", NEW e \in Tops(merger), NoColor(e),
         UNCHANGED << procs, p, paired, written >>
  PROVE  IInv'
<1>1. /\ pc' = "over" /\ result' = "undefined" /\ UNCHANGED data
      /\ procs' = procs /\ p' = p
  BY DEF NoColor, data, collected, paired, written
<1>2. Control'
  BY <1>1 DEF IInv, Control, Collecting, Sorted, data
<1>3. Consumed \subseteq Consumed'
  <2>1. Places' = Places
    BY <1>1, SameProcs
  <2>  QED  BY <1>1, <2>1 DEF Consumed
<1>  QED  BY <1>1, <1>2, <1>3, MovesOn DEF Sorted

\* Where a payload is drawn lies on the timeline.
LEMMA RowFacts ==
  ASSUME IInv, pc = "merge", NEW e \in Tops(merger)
  PROVE  LET payload == PayloadAt(Files, merger, e)
             row == RowOf(payload)
         IN  /\ row \in TimelineRow
             /\ row.task = p /\ row.thread = payload.channelId + 1
             /\ row.timestamp = TimeOf(p, payload.timestamp)
<1>  DEFINE i == e.file_idx
            n == merger.ptrs[e.file_idx] + 1
            payload == PayloadAt(Files, merger, e)
<1>1. /\ i \in DOMAIN Files /\ n \in DOMAIN Files[i] /\ NextPlace(e) \in Places
      /\ payload = PayloadOf(NextPlace(e))
  BY TopFacts
<1>2. /\ IsProcs(procs) /\ p \in DOMAIN procs /\ Files = procs[p].files
  BY MergeFacts
<1>3. payload = procs[p].files[i][n]
  BY <1>1, <1>2 DEF PayloadOf, NextPlace
<1>4. /\ TimeOf(p, payload.timestamp) \in 0 .. UInt64Max
      /\ TimeOf(p, payload.timestamp) <= TotalTime
  BY <1>1, <1>2, <1>3, TimeFacts
<1>5. payload.channelId \in Nat
  <2>1. IsTrace(procs[p].files[i])
    BY <1>1, <1>2, ProcFacts DEF IsProc
  <2>  QED  BY <1>1, <1>2, <1>3, <2>1 DEF IsTrace
<1>  HIDE DEF payload
<1>6. RowOf(payload) = [task |-> p, thread |-> payload.channelId + 1,
                        timestamp |-> TimeOf(p, payload.timestamp)]
  BY DEF RowOf, TimeOf
<1>7. RowOf(payload) \in Row
  BY <1>2, <1>4, <1>5, <1>6 DEF Row
<1>8. RowOf(payload) \in TimelineRow
  BY <1>4, <1>6, <1>7 DEF TimelineRow
<1>  QED  BY <1>6, <1>8 DEF payload

LEMMA SetOrResetStep ==
  ASSUME IInv, pc = "merge", NEW e \in Tops(merger), SetOrReset(e),
         UNCHANGED << procs, p, paired, written >>
  PROVE  IInv'
<1>  DEFINE payload == PayloadAt(Files, merger, e)
            x == NextPlace(e)
            row == RowOf(payload)
            new == [task |-> row.task, thread |-> row.thread,
                    timestamp |-> row.timestamp, eventId |-> payload.eventId,
                    file |-> e.file_idx, place |-> merger.ptrs[e.file_idx] + 1]
<1>1. /\ pc' = "merge" /\ result' = result /\ procs' = procs /\ p' = p
      /\ records' = Append(records, new) /\ merger' = Popped(Files, merger, e)
      /\ flow_starts' = flow_starts /\ flow_ends' = flow_ends
      /\ ~ IsFlow(payload)
  BY DEF SetOrReset
<1>2. /\ x \in Places /\ x \notin Consumed /\ payload = PayloadOf(x)
  BY TopFacts
<1>3. Mirrors(Files, merger)' /\ Consumed' = Consumed \cup {x}
  BY <1>1, PopConsumes
<1>4. /\ row.task = p /\ row.thread = payload.channelId + 1
      /\ row.timestamp = TimeOf(p, payload.timestamp)
  BY RowFacts
<1>5. PlaceOf(new) = x
  BY <1>4 DEF PlaceOf, NextPlace
<1>6. /\ OwnSeq(records) /\ \A k \in DOMAIN records : IsRecord(records[k])
      /\ \A k, l \in DOMAIN records : k < l => FileOrder(records[k], records[l])
  BY DEF IInv, Collected
<1>  HIDE DEF payload, row
<1>7. /\ OwnSeq(records') /\ DOMAIN records' = DOMAIN records \cup {Len(records) + 1}
      /\ Len(records) \in Nat /\ DOMAIN records = 1 .. Len(records)
      /\ records'[Len(records) + 1] = new
      /\ \A i \in DOMAIN records : records'[i] = records[i]
  BY <1>1, <1>6, OwnAppend
<1>8. /\ \A y : PayloadOf(y)' = PayloadOf(y)
      /\ \A q, t : TimeOf(q, t)' = TimeOf(q, t)
      /\ Row' = Row /\ TimelineRow' = TimelineRow /\ ExtraIds' = ExtraIds
  BY <1>1, SameProcs
<1>9. Control'
  BY <1>1, <1>3, <1>7 DEF IInv, Control, Collecting, Sorted, paired, written
<1>10. \A r : r = new => IsRecord(r)'
  <2>  SUFFICES ASSUME NEW r, r = new PROVE IsRecord(r)'
    OBVIOUS
  <2>1. PlaceOf(r) \in Consumed'
    BY <1>3, <1>5
  <2>2. PayloadOf(PlaceOf(r)) = payload
    BY <1>2, <1>5
  <2>3. /\ r.eventId = payload.eventId /\ r.task = p
        /\ r.thread = payload.channelId + 1
        /\ r.timestamp = TimeOf(r.task, payload.timestamp)
    BY <1>4
  <2>  QED  BY <1>1, <1>8, <2>1, <2>2, <2>3 DEF IsRecord, PlaceOf
<1>11. \A r : IsRecord(r) => IsRecord(r)'
  BY <1>3, <1>8 DEF IsRecord, PlaceOf
<1>12. \A k \in DOMAIN records : FileOrder(records[k], new)
  <2>  SUFFICES ASSUME NEW k \in DOMAIN records,
                       records[k].task = new.task, records[k].file = new.file
                PROVE  records[k].place < new.place
    BY DEF FileOrder
  <2>1. PlaceOf(records[k]) \in Consumed /\ PlaceOf(records[k]) \in Places
    BY <1>6 DEF IsRecord, Consumed
  <2>2. records[k].task = p /\ records[k].file = e.file_idx
    BY <1>4
  <2>3. PlaceOf(records[k]) = << p, e.file_idx, records[k].place >>
    BY <2>2 DEF PlaceOf
  <2>4. /\ e.file_idx \in DOMAIN Files /\ records[k].place \in DOMAIN Files[e.file_idx]
        /\ Files = procs[p].files
    BY <2>1, <2>3, PlaceFacts, MergeFacts
  <2>5. records[k].place \in Nat /\ p \in Nat
    <3>1. records[k].place \in 1 .. Len(Files[e.file_idx])
      BY <2>4, MergeFacts, TraceFacts
    <3>  QED  BY <3>1, MergeFacts
  <2>6. records[k].place <= merger.ptrs[e.file_idx]
    BY <2>1, <2>3, <2>5 DEF Consumed
  <2>7. merger.ptrs[e.file_idx] \in Nat
    BY TopFacts
  <2>  QED  BY <2>5, <2>6, <2>7
<1>13. Collected'
  <2>1. (\A k \in DOMAIN records : IsRecord(records[k]))'
    <3>  HIDE DEF new
    <3>1. \A k \in DOMAIN records' : records'[k] = new \/ IsRecord(records'[k])
      BY <1>6, <1>7
    <3>  QED  BY <1>10, <1>11, <3>1
  <2>2. ASSUME NEW k \in DOMAIN records', NEW l \in DOMAIN records', k < l
        PROVE  FileOrder(records'[k], records'[l])
    <3>  HIDE DEF new
    <3>1. k \in DOMAIN records
      BY <1>7, <2>2
    <3>2. CASE l \in DOMAIN records
      BY <1>6, <1>7, <2>2, <3>1, <3>2
    <3>3. CASE l = Len(records) + 1
      BY <1>7, <1>12, <3>1, <3>3
    <3>  QED  BY <1>7, <2>2, <3>2, <3>3
  <2>  QED  BY <1>7, <2>1, <2>2 DEF Collected
<1>14. AllCollected'
  <2>  SUFFICES ASSUME result' # "undefined", NEW y \in Consumed', ~ IsFlow(PayloadOf(y))
                PROVE  \E k \in DOMAIN records' : PlaceOf(records'[k]) = y
    BY <1>8 DEF AllCollected, PlaceOf
  <2>1. CASE y = x
    BY <1>5, <1>7, <2>1
  <2>2. CASE y \in Consumed
    <3>1. \E k \in DOMAIN records : PlaceOf(records[k]) = y
      BY <1>1, <2>2 DEF IInv, AllCollected
    <3>  QED  BY <1>7, <3>1
  <2>  QED  BY <1>3, <2>1, <2>2
<1>15. EndsOnTimeline'
  BY <1>1, <1>8 DEF IInv, EndsOnTimeline
<1>16. AllTallied'
  <2>1. Flowed(EVENTID_FLOW_START)' = Flowed(EVENTID_FLOW_START)
    BY <1>1, <1>2, <1>3, <1>8 DEF Flowed, IsFlow
  <2>2. Flowed(EVENTID_FLOW_END)' = Flowed(EVENTID_FLOW_END)
    BY <1>1, <1>2, <1>3, <1>8 DEF Flowed, IsFlow
  <2>  QED  BY <1>1, <1>8, <2>1, <2>2 DEF IInv, AllTallied
<1>17. /\ RecordsSorted' /\ Arrows' /\ AllPaired' /\ Written'
       /\ NextIsLater' /\ PrvInTimeOrder'
  BY <1>1, <1>7, <1>9, StillCollecting
<1>  QED  BY <1>9, <1>13, <1>14, <1>15, <1>16, <1>17 DEF IInv

-----------------------------------------------------------------------------
(* The ends of flows. *)

LEMMA WithEndFacts ==
  ASSUME NEW T, NEW f, EndsIn(f, T), NEW id, NEW row \in T
  PROVE  LET g == WithEnd(f, id, row)
             n == Len(Ends(f, id)) + 1
         IN  /\ EndsIn(g, T)
             /\ \A k : k # id => Ends(g, k) = Ends(f, k)
             /\ Len(Ends(f, id)) \in Nat /\ Len(Ends(g, id)) = n
             /\ << id, n >> \notin Slots(f)
             /\ Slots(g) = Slots(f) \cup {<< id, n >>}
<1>  DEFINE g == WithEnd(f, id, row)
            s == Ends(f, id)
            n == Len(s) + 1
<1>1. s \in Seq(T)
  BY EmptySeq DEF Ends, EndsIn
<1>2. /\ Len(s) \in Nat /\ DOMAIN s = 1 .. Len(s)
      /\ Append(s, row) \in Seq(T) /\ Len(Append(s, row)) = Len(s) + 1
      /\ DOMAIN Append(s, row) = 1 .. Len(s) + 1
  BY <1>1, LenProperties, AppendProperties
<1>3. /\ DOMAIN g = DOMAIN f \cup {id}
      /\ g[id] = Append(s, row)
      /\ \A k \in DOMAIN f : k # id => g[k] = f[k]
  BY DEF WithEnd
<1>4. id \notin DOMAIN f => s = << >>
  BY DEF Ends
<1>5. id \in DOMAIN f => s = f[id]
  BY DEF Ends
<1>  HIDE DEF g, s
<1>6. EndsIn(g, T)
  BY <1>2, <1>3 DEF EndsIn
<1>7. \A k : k # id => Ends(g, k) = Ends(f, k)
  BY <1>3 DEF Ends
<1>8. Len(Ends(g, id)) = n
  BY <1>2, <1>3 DEF Ends
<1>9. n \notin DOMAIN s
  BY <1>2
<1>10. << id, n >> \notin Slots(f)
  <2>  SUFFICES ASSUME << id, n >> \in Slots(f) PROVE FALSE
    OBVIOUS
  <2>1. id \in DOMAIN f /\ n \in DOMAIN f[id]
    BY DEF Slots
  <2>  QED  BY <1>5, <1>9, <2>1
<1>11. DOMAIN Append(s, row) = DOMAIN s \cup {n}
  BY <1>2
<1>12. DOMAIN << >> = {}
  BY EmptyOwn
<1>  HIDE DEF n
<1>13. ASSUME NEW x \in Slots(g) PROVE x \in Slots(f) \cup {<< id, n >>}
  <2>1. PICK k \in DOMAIN g : \E i \in DOMAIN g[k] : x = << k, i >>
    BY <1>13 DEF Slots
  <2>2. PICK i \in DOMAIN g[k] : x = << k, i >>
    BY <2>1
  <2>3. CASE k = id
    <3>1. i \in DOMAIN s \/ i = n
      BY <1>3, <1>11, <2>2, <2>3
    <3>2. i \in DOMAIN s => id \in DOMAIN f /\ i \in DOMAIN f[id]
      BY <1>4, <1>5, <1>12
    <3>  QED  BY <2>2, <2>3, <3>1, <3>2 DEF Slots
  <2>4. CASE k # id
    <3>1. k \in DOMAIN f /\ i \in DOMAIN f[k]
      BY <1>3, <2>1, <2>2, <2>4
    <3>  QED  BY <2>2, <3>1 DEF Slots
  <2>  QED  BY <2>3, <2>4
<1>14. ASSUME NEW x \in Slots(f) PROVE x \in Slots(g)
  <2>1. PICK k \in DOMAIN f : \E i \in DOMAIN f[k] : x = << k, i >>
    BY <1>14 DEF Slots
  <2>2. PICK i \in DOMAIN f[k] : x = << k, i >>
    BY <2>1
  <2>3. k \in DOMAIN g /\ i \in DOMAIN g[k]
    <3>1. CASE k = id
      BY <1>3, <1>5, <1>11, <2>2, <3>1
    <3>2. CASE k # id
      BY <1>3, <2>1, <2>2, <3>2
    <3>  QED  BY <3>1, <3>2
  <2>  QED  BY <2>2, <2>3 DEF Slots
<1>15. << id, n >> \in Slots(g)
  BY <1>3, <1>11 DEF Slots
<1>16. Slots(g) = Slots(f) \cup {<< id, n >>}
  BY <1>13, <1>14, <1>15
<1>  QED  BY <1>2, <1>6, <1>7, <1>8, <1>10, <1>16 DEF g, n, s

\* One more end for one more place.
LEMMA CountsGrow ==
  ASSUME NEW T, NEW f, EndsIn(f, T), NEW row \in T,
         NEW S, NEW extra, Counts(f, S, extra), NEW x, x \notin S
  PROVE  Counts(WithEnd(f, extra[x], row), S \cup {x}, extra)
<1>  DEFINE g == WithEnd(f, extra[x], row)
            id == extra[x]
            slot == << id, Len(Ends(f, id)) + 1 >>
            R == S \cup {x}
            Of(A, k) == {y \in A : extra[y] = k}
<1>  HIDE DEF id
<1>1. /\ \A k : k # id => Ends(g, k) = Ends(f, k)
      /\ Len(Ends(f, id)) \in Nat /\ Len(Ends(g, id)) = Len(Ends(f, id)) + 1
      /\ slot \notin Slots(f) /\ Slots(g) = Slots(f) \cup {slot}
  <2>  DEFINE h == WithEnd(f, id, row)
  <2>1. /\ \A k : k # id => Ends(h, k) = Ends(f, k)
        /\ Len(Ends(f, id)) \in Nat /\ Len(Ends(h, id)) = Len(Ends(f, id)) + 1
        /\ slot \notin Slots(f) /\ Slots(h) = Slots(f) \cup {slot}
    BY WithEndFacts
  <2>2. g = h
    BY DEF id
  <2>  HIDE DEF g, h
  <2>  QED  BY <2>1, <2>2
<1>  USE DEF id
<1>2. /\ IsFiniteSet(Slots(f)) /\ IsFiniteSet(S)
      /\ Cardinality(Slots(f)) = Cardinality(S)
      /\ \A k : Len(Ends(f, k)) = Cardinality(Of(S, k))
  BY DEF Counts
<1>  HIDE DEF g, slot
<1>3. /\ IsFiniteSet(Slots(g)) /\ IsFiniteSet(R)
      /\ Cardinality(Slots(g)) = Cardinality(Slots(f)) + 1
      /\ Cardinality(R) = Cardinality(S) + 1
  BY <1>1, <1>2, FS_AddElement
<1>4. ASSUME NEW k PROVE Len(Ends(g, k)) = Cardinality(Of(R, k))
  <2>1. CASE k = id
    <3>1. Of(R, k) = Of(S, k) \cup {x} /\ x \notin Of(S, k)
      BY <2>1
    <3>2. Of(S, k) \in SUBSET S
      OBVIOUS
    <3>  HIDE DEF Of
    <3>3. IsFiniteSet(Of(S, k))
      BY <1>2, <3>2, FS_Subset
    <3>4. Cardinality(Of(R, k)) = Cardinality(Of(S, k)) + 1
      BY <3>1, <3>3, FS_AddElement
    <3>  QED  BY <1>1, <1>2, <2>1, <3>4
  <2>2. CASE k # id
    <3>1. Of(R, k) = Of(S, k)
      BY <2>2
    <3>  HIDE DEF Of
    <3>  QED  BY <1>1, <1>2, <2>2, <3>1
  <2>  QED  BY <2>1, <2>2
<1>  QED  BY <1>2, <1>3, <1>4 DEF Counts, g

LEMMA EventIdFacts ==
  /\ EVENTID_FLOW_START # EVENTID_FLOW_END
  /\ \A x : IsFlow(x) <=> x.eventId = EVENTID_FLOW_START \/ x.eventId = EVENTID_FLOW_END
<1>1. UInt16Max \in Nat
  BY IdAssumption
<1>  QED  BY <1>1 DEF IsFlow, EVENTID_FLOW_START, EVENTID_FLOW_END

LEMMA FlowStep ==
  ASSUME IInv, pc = "merge", NEW e \in Tops(merger), Flow(e),
         UNCHANGED << procs, p, paired, written >>
  PROVE  IInv'
<1>  DEFINE payload == PayloadAt(Files, merger, e)
            x == NextPlace(e)
            row == RowOf(payload)
            id == payload.extraId
            isStart == payload.eventId = EVENTID_FLOW_START
<1>1. /\ pc' = "merge" /\ result' = result /\ procs' = procs /\ p' = p
      /\ records' = records /\ merger' = Popped(Files, merger, e)
      /\ IsFlow(payload)
      /\ flow_starts' = IF isStart THEN WithEnd(flow_starts, id, row) ELSE flow_starts
      /\ flow_ends' = IF isStart THEN flow_ends ELSE WithEnd(flow_ends, id, row)
  BY DEF Flow
<1>2. /\ x \in Places /\ x \notin Consumed /\ payload = PayloadOf(x)
  BY TopFacts
<1>3. Mirrors(Files, merger)' /\ Consumed' = Consumed \cup {x}
  BY <1>1, PopConsumes
<1>4. row \in TimelineRow
  BY RowFacts
<1>5. id = ExtraIds[x]
  BY <1>2 DEF ExtraIds
<1>6. /\ \A y : PayloadOf(y)' = PayloadOf(y)
      /\ \A q, t : TimeOf(q, t)' = TimeOf(q, t)
      /\ Row' = Row /\ TimelineRow' = TimelineRow /\ ExtraIds' = ExtraIds
  BY <1>1, SameProcs
<1>7. EndsIn(flow_starts, TimelineRow) /\ EndsIn(flow_ends, TimelineRow)
  BY DEF IInv, EndsOnTimeline
<1>  HIDE DEF payload, row, x, id
<1>8. Control'
  BY <1>1, <1>3 DEF IInv, Control, Collecting, Sorted, paired, written
<1>9. Collected'
  <2>1. \A r : IsRecord(r) => IsRecord(r)'
    BY <1>3, <1>6 DEF IsRecord, PlaceOf
  <2>  QED  BY <1>1, <2>1 DEF IInv, Collected
<1>10. AllCollected'
  <2>  SUFFICES ASSUME result' # "undefined", NEW y \in Consumed', ~ IsFlow(PayloadOf(y))
                PROVE  \E k \in DOMAIN records' : PlaceOf(records'[k]) = y
    BY <1>6 DEF AllCollected, PlaceOf
  <2>1. y \in Consumed
    BY <1>1, <1>2, <1>3
  <2>  QED  BY <1>1, <2>1 DEF IInv, AllCollected
<1>11. EndsOnTimeline'
  <2>1. EndsIn(flow_starts', TimelineRow)
    <3>1. CASE isStart
      BY <1>1, <1>4, <1>7, <3>1, WithEndFacts
    <3>2. CASE ~ isStart
      BY <1>1, <1>7, <3>2
    <3>  QED  BY <3>1, <3>2
  <2>2. EndsIn(flow_ends', TimelineRow)
    <3>1. CASE isStart
      BY <1>1, <1>7, <3>1
    <3>2. CASE ~ isStart
      BY <1>1, <1>4, <1>7, <3>2, WithEndFacts
    <3>  QED  BY <3>1, <3>2
  <2>  QED  BY <1>6, <2>1, <2>2 DEF EndsOnTimeline
<1>12. AllTallied'
  <2>  SUFFICES ASSUME result' # "undefined"
                PROVE  /\ Counts(flow_starts, Flowed(EVENTID_FLOW_START), ExtraIds)'
                       /\ Counts(flow_ends, Flowed(EVENTID_FLOW_END), ExtraIds)'
    BY DEF AllTallied
  <2>1. /\ Counts(flow_starts, Flowed(EVENTID_FLOW_START), ExtraIds)
        /\ Counts(flow_ends, Flowed(EVENTID_FLOW_END), ExtraIds)
    BY <1>1 DEF IInv, AllTallied
  <2>2. \A k : x \notin Flowed(k)
    BY <1>2 DEF Flowed
  <2>3. CASE isStart
    <3>1. Flowed(EVENTID_FLOW_START)' = Flowed(EVENTID_FLOW_START) \cup {x}
      BY <1>2, <1>3, <1>6, <2>3 DEF Flowed
    <3>2. Flowed(EVENTID_FLOW_END)' = Flowed(EVENTID_FLOW_END)
      BY <1>2, <1>3, <1>6, <2>3, EventIdFacts DEF Flowed
    <3>3. Counts(WithEnd(flow_starts, id, row),
                 Flowed(EVENTID_FLOW_START) \cup {x}, ExtraIds)
      BY <1>4, <1>5, <1>7, <2>1, <2>2, CountsGrow
    <3>4. /\ flow_starts' = WithEnd(flow_starts, id, row) /\ flow_ends' = flow_ends
      BY <1>1, <2>3
    <3>  QED  BY <1>6, <2>1, <3>1, <3>2, <3>3, <3>4
  <2>4. CASE ~ isStart
    <3>1. Flowed(EVENTID_FLOW_END)' = Flowed(EVENTID_FLOW_END) \cup {x}
      BY <1>1, <1>2, <1>3, <1>6, <2>4, EventIdFacts DEF Flowed
    <3>2. Flowed(EVENTID_FLOW_START)' = Flowed(EVENTID_FLOW_START)
      BY <1>2, <1>3, <1>6, <2>4 DEF Flowed
    <3>3. Counts(WithEnd(flow_ends, id, row),
                 Flowed(EVENTID_FLOW_END) \cup {x}, ExtraIds)
      BY <1>4, <1>5, <1>7, <2>1, <2>2, CountsGrow
    <3>4. /\ flow_ends' = WithEnd(flow_ends, id, row) /\ flow_starts' = flow_starts
      BY <1>1, <2>4
    <3>  QED  BY <1>6, <2>1, <3>1, <3>2, <3>3, <3>4
  <2>  QED  BY <2>3, <2>4
<1>13. OwnSeq(records')
  BY <1>1 DEF IInv, Collected
<1>14. /\ RecordsSorted' /\ Arrows' /\ AllPaired' /\ Written'
       /\ NextIsLater' /\ PrvInTimeOrder'
  BY <1>1, <1>8, <1>13, StillCollecting
<1>  QED  BY <1>8, <1>9, <1>10, <1>11, <1>12, <1>14 DEF IInv

-----------------------------------------------------------------------------
(* Pairing. *)

LEMMA NumPairsFacts ==
  ASSUME NEW T, EndsIn(flow_starts, T), EndsIn(flow_ends, T)
  PROVE  \A id : /\ NumPairs(id) \in Nat
                 /\ Len(Ends(flow_starts, id)) \in Nat /\ Len(Ends(flow_ends, id)) \in Nat
                 /\ NumPairs(id) = IF Len(Ends(flow_starts, id)) <= Len(Ends(flow_ends, id))
                                   THEN Len(Ends(flow_starts, id))
                                   ELSE Len(Ends(flow_ends, id))
<1>  SUFFICES ASSUME NEW id
              PROVE  /\ NumPairs(id) \in Nat
                     /\ Len(Ends(flow_starts, id)) \in Nat /\ Len(Ends(flow_ends, id)) \in Nat
                     /\ NumPairs(id) = IF Len(Ends(flow_starts, id)) <= Len(Ends(flow_ends, id))
                                       THEN Len(Ends(flow_starts, id))
                                       ELSE Len(Ends(flow_ends, id))
  OBVIOUS
<1>  DEFINE a == Len(Ends(flow_starts, id))
            b == Len(Ends(flow_ends, id))
<1>1. Ends(flow_starts, id) \in Seq(T) /\ Ends(flow_ends, id) \in Seq(T)
  BY EmptySeq DEF Ends, EndsIn
<1>2. a \in Nat /\ b \in Nat
  BY <1>1, LenProperties
<1>3. NumPairs(id) = Min({a, b})
  BY DEF NumPairs
<1>  HIDE DEF a, b
<1>4. NumPairs(id) \in {a, b} /\ \A x \in {a, b} : NumPairs(id) <= x
  BY <1>2, <1>3, MinFacts
<1>5. NumPairs(id) \in Nat /\ NumPairs(id) = IF a <= b THEN a ELSE b
  BY <1>2, <1>4
<1>  QED  BY <1>2, <1>5 DEF a, b

\* The end at place i of flow id is paired if i is within the number of pairs.
LEMMA PairsFacts ==
  ASSUME NEW T, EndsIn(flow_starts, T), EndsIn(flow_ends, T)
  PROVE  /\ \A id, i : << id, i >> \in Pairs <=> i \in 1 .. NumPairs(id)
         /\ \A x \in Pairs : /\ x = << x[1], x[2] >> /\ x[1] \in DOMAIN flow_starts
                             /\ x[2] \in 1 .. NumPairs(x[1])
<1>1. \A x \in Pairs : /\ x = << x[1], x[2] >> /\ x[1] \in DOMAIN flow_starts
                       /\ x[2] \in 1 .. NumPairs(x[1])
  BY DEF Pairs
<1>2. ASSUME NEW id, NEW i \in 1 .. NumPairs(id) PROVE << id, i >> \in Pairs
  <2>1. id \in DOMAIN flow_starts
    <3>1. CASE id \notin DOMAIN flow_starts
      <4>1. Len(Ends(flow_starts, id)) = 0
        BY <3>1, EmptyOwn DEF Ends
      <4>2. NumPairs(id) \in Nat /\ NumPairs(id) <= 0
        BY <4>1, NumPairsFacts
      <4>  QED  BY <1>2, <4>2
    <3>  QED  BY <3>1
  <2>  QED  BY <1>2, <2>1 DEF Pairs
<1>  QED  BY <1>1, <1>2

\* The ends of the flows in f are those that are paired and the rest.
LEMMA RestFacts ==
  ASSUME NEW T, EndsIn(flow_starts, T), EndsIn(flow_ends, T),
         NEW f, EndsIn(f, T), \A id : NumPairs(id) <= Len(Ends(f, id)),
         IsFiniteSet(Slots(f))
  PROVE  /\ IsFiniteSet(Pairs) /\ IsFiniteSet(Rest(f))
         /\ Cardinality(Slots(f)) = Cardinality(Pairs) + Cardinality(Rest(f))
<1>1. \A id \in DOMAIN f : /\ Len(f[id]) \in Nat /\ DOMAIN f[id] = 1 .. Len(f[id])
                           /\ Len(f[id]) = Len(Ends(f, id))
  BY LenProperties DEF EndsIn, Ends
<1>2. \A id : NumPairs(id) \in Nat
  BY NumPairsFacts
<1>3. ASSUME NEW x \in Pairs PROVE x \in Slots(f) /\ x \notin Rest(f)
  <2>1. x = << x[1], x[2] >> /\ x[2] \in 1 .. NumPairs(x[1])
    BY <1>3, PairsFacts
  <2>2. x[1] \in DOMAIN f
    <3>1. CASE x[1] \notin DOMAIN f
      <4>1. Len(Ends(f, x[1])) = 0
        BY <3>1, EmptyOwn DEF Ends
      <4>2. NumPairs(x[1]) \in Nat /\ NumPairs(x[1]) <= 0
        BY <1>2, <4>1
      <4>  QED  BY <2>1, <4>2
    <3>  QED  BY <3>1
  <2>3. x[2] \in DOMAIN f[x[1]]
    <3>1. NumPairs(x[1]) <= Len(f[x[1]]) /\ Len(f[x[1]]) \in Nat
      BY <1>1, <2>2
    <3>  QED  BY <1>1, <1>2, <2>1, <2>2, <3>1
  <2>4. x \notin Rest(f)
    <3>1. ~ (x[2] \in NumPairs(x[1]) + 1 .. Len(f[x[1]]))
      BY <1>2, <2>1
    <3>  QED  BY <2>1, <3>1 DEF Rest
  <2>  QED  BY <2>1, <2>2, <2>3, <2>4 DEF Slots
<1>4. ASSUME NEW x \in Rest(f) PROVE x \in Slots(f)
  <2>1. PICK id \in DOMAIN f : \E i \in NumPairs(id) + 1 .. Len(f[id]) : x = << id, i >>
    BY <1>4 DEF Rest
  <2>2. PICK i \in NumPairs(id) + 1 .. Len(f[id]) : x = << id, i >>
    BY <2>1
  <2>3. NumPairs(id) \in Nat /\ Len(f[id]) \in Nat
    BY <1>1, <1>2
  <2>4. i \in 1 .. Len(f[id])
    BY <2>3
  <2>  QED  BY <1>1, <2>2, <2>4 DEF Slots
<1>5. ASSUME NEW x \in Slots(f) PROVE x \in Pairs \/ x \in Rest(f)
  <2>1. PICK id \in DOMAIN f : \E i \in DOMAIN f[id] : x = << id, i >>
    BY <1>5 DEF Slots
  <2>2. PICK i \in DOMAIN f[id] : x = << id, i >>
    BY <2>1
  <2>3. i \in 1 .. Len(f[id]) /\ NumPairs(id) \in Nat /\ Len(f[id]) \in Nat
    BY <1>1, <1>2
  <2>4. i \in 1 .. NumPairs(id) \/ i \in NumPairs(id) + 1 .. Len(f[id])
    BY <2>3
  <2>  QED  BY <2>2, <2>4, PairsFacts DEF Rest
<1>6. /\ Slots(f) = Pairs \cup Rest(f) /\ Pairs \cap Rest(f) = {}
      /\ Pairs \in SUBSET Slots(f) /\ Rest(f) \in SUBSET Slots(f)
  BY <1>3, <1>4, <1>5
<1>7. IsFiniteSet(Pairs) /\ IsFiniteSet(Rest(f))
  BY <1>6, FS_Subset
<1>8. /\ Cardinality(Pairs) \in Nat /\ Cardinality(Rest(f)) \in Nat
      /\ Cardinality({}) = 0
  BY <1>7, FS_CardinalityType, FS_EmptySet
<1>9. Cardinality(Slots(f)) = Cardinality(Pairs) + Cardinality(Rest(f)) - 0
  BY <1>6, <1>7, <1>8, FS_Union
<1>  QED  BY <1>7, <1>8, <1>9

\* row is one of the ends of flow id in f.
HasEnd(f, id, row) == id \in DOMAIN f /\ \E i \in DOMAIN f[id] : row = f[id][i]

\* The arrows of one flow: the first start with the first end, and so on.
LEMMA PairingFacts ==
  ASSUME NEW T, \A row \in T : row.timestamp \in Nat,
         EndsIn(flow_starts, T), EndsIn(flow_ends, T),
         NEW id \in DOMAIN flow_starts, NEW a \in PairingsOf(id)
  PROVE  /\ DOMAIN a = 1 .. NumPairs(id)
         /\ \A i \in 1 .. NumPairs(id) : /\ a[i].flowId = id
                                         /\ a[i].send \in T /\ a[i].recv \in T
                                         /\ HasEnd(flow_starts, id, a[i].send)
                                         /\ HasEnd(flow_ends, id, a[i].recv)
         /\ \A i, j \in 1 .. NumPairs(id) : i < j =>
              /\ a[i].send.timestamp <= a[j].send.timestamp
              /\ a[i].recv.timestamp <= a[j].recv.timestamp
<1>  DEFINE x == flow_starts[id]
            y == Ends(flow_ends, id)
            n == NumPairs(id)
<1>1. PICK s \in StartOrders(id), e \in EndOrders(id) :
        a = [i \in 1 .. n |-> [send |-> x[s[i]], recv |-> flow_ends[id][e[i]], flowId |-> id]]
  BY DEF PairingsOf
<1>2. /\ x \in Seq(T) /\ y \in Seq(T)
  BY EmptySeq DEF Ends, EndsIn
<1>3. /\ Len(x) \in Nat /\ DOMAIN x = 1 .. Len(x) /\ \A i \in DOMAIN x : x[i] \in T
      /\ Len(y) \in Nat /\ DOMAIN y = 1 .. Len(y) /\ \A i \in DOMAIN y : y[i] \in T
  BY <1>2, LenProperties, ElementOfSeq
<1>4. n \in Nat /\ n <= Len(x) /\ n <= Len(y)
  <2>1. x = Ends(flow_starts, id)
    BY DEF Ends
  <2>  QED  BY <2>1, NumPairsFacts
<1>5. id \notin DOMAIN flow_ends => n = 0
  <2>1. id \notin DOMAIN flow_ends => Len(y) = 0
    BY EmptyOwn DEF Ends
  <2>  QED  BY <1>4, <2>1
<1>6. ASSUME NEW z, z \in Seq(T), Len(z) \in Nat, DOMAIN z = 1 .. Len(z),
             \A i \in DOMAIN z : z[i] \in T, n <= Len(z),
             NEW o \in Sortings(DOMAIN z, RowTimes(z))
      PROVE  /\ \A i \in 1 .. n : o[i] \in DOMAIN z /\ z[o[i]] \in T
             /\ \A i, j \in 1 .. n : i < j => z[o[i]].timestamp <= z[o[j]].timestamp
  <2>1. IsFiniteSet(DOMAIN z) /\ Cardinality(DOMAIN z) = Len(z)
    <3>  DEFINE m == Len(z)
    <3>1. m \in Nat /\ DOMAIN z = 1 .. m
      BY <1>6
    <3>  HIDE DEF m
    <3>2. IsFiniteSet(1 .. m) /\ Cardinality(1 .. m) = m
      BY ONLY <3>1, FS_Interval
    <3>  QED  BY <3>1, <3>2 DEF m
  <2>2. /\ DOMAIN o = 1 .. Len(z)
        /\ \A k \in DOMAIN o : o[k] \in DOMAIN z
        /\ \A i, j \in DOMAIN o : i < j => RowTimes(z)[o[i]] <= RowTimes(z)[o[j]]
    BY <2>1, SortingsFacts
  <2>3. 1 .. n \subseteq DOMAIN o
    BY <1>4, <1>6, <2>2
  <2>4. \A k \in DOMAIN z : RowTimes(z)[k] = z[k].timestamp
    BY DEF RowTimes
  <2>5. \A i \in 1 .. n : o[i] \in DOMAIN z /\ z[o[i]] \in T
    BY <1>6, <2>2, <2>3
  <2>6. ASSUME NEW i \in 1 .. n, NEW j \in 1 .. n, i < j
        PROVE  z[o[i]].timestamp <= z[o[j]].timestamp
    <3>1. RowTimes(z)[o[i]] <= RowTimes(z)[o[j]]
      BY <2>2, <2>3, <2>6
    <3>  QED  BY <2>4, <2>5, <3>1
  <2>  QED  BY <2>5, <2>6
<1>7. /\ \A i \in 1 .. n : s[i] \in DOMAIN x /\ x[s[i]] \in T
      /\ \A i, j \in 1 .. n : i < j => x[s[i]].timestamp <= x[s[j]].timestamp
  <2>1. s \in Sortings(DOMAIN x, RowTimes(x))
    BY DEF StartOrders
  <2>  HIDE DEF x, n
  <2>  QED  BY <1>2, <1>3, <1>4, <1>6, <2>1
<1>8. /\ \A i \in 1 .. n : e[i] \in DOMAIN y /\ y[e[i]] \in T
      /\ \A i, j \in 1 .. n : i < j => y[e[i]].timestamp <= y[e[j]].timestamp
  <2>1. e \in Sortings(DOMAIN y, RowTimes(y))
    BY DEF EndOrders
  <2>  HIDE DEF y, n
  <2>  QED  BY <1>2, <1>3, <1>4, <1>6, <2>1
<1>9. DOMAIN a = 1 .. n
  BY <1>1
<1>10. ASSUME NEW i \in 1 .. n
       PROVE  a[i].flowId = id /\ a[i].send = x[s[i]] /\ a[i].recv = y[e[i]]
  <2>1. id \in DOMAIN flow_ends
    BY <1>4, <1>5
  <2>2. y = flow_ends[id]
    BY <2>1 DEF Ends
  <2>  QED  BY <1>1, <2>2
<1>11. ASSUME NEW i \in 1 .. n
       PROVE  HasEnd(flow_starts, id, a[i].send) /\ HasEnd(flow_ends, id, a[i].recv)
  <2>1. HasEnd(flow_starts, id, a[i].send)
    BY <1>7, <1>10 DEF HasEnd
  <2>2. id \in DOMAIN flow_ends /\ y = flow_ends[id]
    BY <1>4, <1>5 DEF Ends
  <2>3. HasEnd(flow_ends, id, a[i].recv)
    BY <1>8, <1>10, <2>2 DEF HasEnd
  <2>  QED  BY <2>1, <2>3
<1>  HIDE DEF x, y, n
<1>12. /\ \A i \in 1 .. n : /\ a[i].flowId = id
                            /\ a[i].send \in T /\ a[i].recv \in T
       /\ \A i, j \in 1 .. n : i < j =>
            /\ a[i].send.timestamp <= a[j].send.timestamp
            /\ a[i].recv.timestamp <= a[j].recv.timestamp
  BY <1>7, <1>8, <1>10
<1>  QED  BY <1>9, <1>11, <1>12 DEF n

\* The arrows are in the order in which they leave.  Those of one flow do not
\* cross, and there is one for each pair.
AreArrows(s, T) ==
  LET n == Cardinality(Pairs)
  IN  /\ OwnSeq(s) /\ Len(s) = n /\ DOMAIN s = 1 .. n /\ n \in Nat
      /\ \A k \in DOMAIN s : s[k].send \in T /\ s[k].recv \in T
      /\ \A k \in DOMAIN s : /\ HasEnd(flow_starts, s[k].flowId, s[k].send)
                             /\ HasEnd(flow_ends, s[k].flowId, s[k].recv)
      /\ \A k, l \in DOMAIN s : k < l => s[k].send.timestamp <= s[l].send.timestamp
      /\ \A k, l \in DOMAIN s : Uncrossed(s[k], s[l])
      /\ \A id : Cardinality({k \in 1 .. n : s[k].flowId = id}) = NumPairs(id)

LEMMA ArrowsFacts ==
  ASSUME NEW T, \A row \in T : row.timestamp \in Nat,
         EndsIn(flow_starts, T), EndsIn(flow_ends, T), IsFiniteSet(Pairs),
         NEW arrows \in Pairings, NEW order \in Sortings(Pairs, SendTimes(arrows))
  PROVE  AreArrows([k \in DOMAIN order |-> arrows[order[k][1]][order[k][2]]], T)
<1>  DEFINE s == [k \in DOMAIN order |-> arrows[order[k][1]][order[k][2]]]
            n == Cardinality(Pairs)
<1>1. /\ DOMAIN order = 1 .. n /\ n \in Nat
      /\ order \in Bijection(1 .. n, Pairs)
      /\ \A k \in DOMAIN order : order[k] \in Pairs
      /\ \A k, l \in DOMAIN order :
           k < l => SendTimes(arrows)[order[k]] <= SendTimes(arrows)[order[l]]
  BY SortingsFacts
<1>2. \A id \in DOMAIN flow_starts : arrows[id] \in PairingsOf(id)
  BY DEF Pairings
<1>3. \A x \in Pairs : /\ x = << x[1], x[2] >> /\ x[1] \in DOMAIN flow_starts
                       /\ x[2] \in 1 .. NumPairs(x[1])
  BY PairsFacts
<1>4. /\ DOMAIN s = 1 .. n
      /\ \A k \in DOMAIN s : s[k] = arrows[order[k][1]][order[k][2]]
  BY <1>1
<1>5. ASSUME NEW k \in 1 .. n
      PROVE  /\ order[k] \in Pairs /\ s[k].flowId = order[k][1]
             /\ s[k].send \in T /\ s[k].recv \in T
             /\ HasEnd(flow_starts, s[k].flowId, s[k].send)
             /\ HasEnd(flow_ends, s[k].flowId, s[k].recv)
             /\ SendTimes(arrows)[order[k]] = s[k].send.timestamp
             /\ order[k][2] \in 1 .. NumPairs(order[k][1]) /\ order[k][2] \in Nat
             /\ order[k][1] \in DOMAIN flow_starts
  <2>1. /\ order[k] \in Pairs /\ order[k][1] \in DOMAIN flow_starts
        /\ order[k][2] \in 1 .. NumPairs(order[k][1])
    BY <1>1, <1>3
  <2>2. arrows[order[k][1]] \in PairingsOf(order[k][1])
    BY <1>2, <2>1
  <2>3. /\ s[k].flowId = order[k][1]
        /\ s[k].send \in T /\ s[k].recv \in T
        /\ HasEnd(flow_starts, order[k][1], s[k].send)
        /\ HasEnd(flow_ends, order[k][1], s[k].recv)
    BY <1>4, <2>1, <2>2, PairingFacts
  <2>4. SendTimes(arrows)[order[k]] = s[k].send.timestamp
    BY <1>4, <2>1 DEF SendTimes
  <2>5. order[k][2] \in Nat
    BY <2>1
  <2>  QED  BY <2>1, <2>3, <2>4, <2>5
<1>6. OwnSeq(s) /\ Len(s) = n
  <2>1. s \in [1 .. n -> {s[k] : k \in DOMAIN s}]
    BY <1>4
  <2>2. s \in Seq({s[k] : k \in DOMAIN s})
    BY <1>1, <2>1, SeqDef
  <2>3. DOMAIN s = 1 .. Len(s) /\ Len(s) \in Nat
    BY <2>2, LenProperties
  <2>  QED  BY <1>1, <1>4, <2>2, <2>3 DEF OwnSeq
<1>  HIDE DEF s
<1>7. \A k \in DOMAIN s : s[k].send \in T /\ s[k].recv \in T
  BY <1>4, <1>5
<1>8. \A k, l \in DOMAIN s : k < l => s[k].send.timestamp <= s[l].send.timestamp
  BY <1>1, <1>4, <1>5
<1>9. ASSUME NEW k \in 1 .. n, NEW l \in 1 .. n, s[k].flowId = s[l].flowId,
             s[k].send.timestamp < s[l].send.timestamp
      PROVE  s[k].recv.timestamp <= s[l].recv.timestamp
  <2>  DEFINE id == order[k][1]
              i == order[k][2]
              j == order[l][2]
  <2>1. /\ id = order[l][1] /\ id \in DOMAIN flow_starts
        /\ i \in 1 .. NumPairs(id) /\ j \in 1 .. NumPairs(id) /\ i \in Nat /\ j \in Nat
        /\ s[k] = arrows[id][i] /\ s[l] = arrows[id][j]
    BY <1>4, <1>5, <1>9
  <2>2. arrows[id] \in PairingsOf(id)
    BY <1>2, <2>1
  <2>  HIDE DEF id, i, j
  <2>3. \A g, h \in 1 .. NumPairs(id) : g < h =>
          /\ arrows[id][g].send.timestamp <= arrows[id][h].send.timestamp
          /\ arrows[id][g].recv.timestamp <= arrows[id][h].recv.timestamp
    BY <2>1, <2>2, PairingFacts
  <2>4. /\ s[k].send.timestamp \in Nat /\ s[l].send.timestamp \in Nat
    BY <1>5
  <2>5. ~ (j < i) /\ i # j
    BY <1>9, <2>1, <2>3, <2>4
  <2>6. i < j
    BY <2>1, <2>5
  <2>  QED  BY <2>1, <2>3, <2>6
<1>10. \A k, l \in DOMAIN s : Uncrossed(s[k], s[l])
  BY <1>4, <1>9 DEF Uncrossed
<1>11. ASSUME NEW id PROVE Cardinality({k \in 1 .. n : s[k].flowId = id}) = NumPairs(id)
  <2>  DEFINE K == {k \in 1 .. n : s[k].flowId = id}
              m == NumPairs(id)
              g == [k \in K |-> order[k][2]]
  <2>1. \A k \in K : /\ k \in 1 .. n /\ order[k] \in Pairs
                     /\ order[k] = << id, order[k][2] >> /\ order[k][2] \in 1 .. m
    BY <1>3, <1>5
  <2>2. /\ \A k, l \in 1 .. n : order[k] = order[l] => k = l
        /\ \A x \in Pairs : \E k \in 1 .. n : order[k] = x
    BY <1>1, Fun_BijectionProperties
  <2>3. g \in [K -> 1 .. m] /\ \A k \in K : g[k] = order[k][2]
    BY <2>1
  <2>  HIDE DEF g
  <2>4. \A k, l \in K : g[k] = g[l] => k = l
    BY <2>1, <2>2, <2>3
  <2>5. ASSUME NEW i \in 1 .. m PROVE \E k \in K : g[k] = i
    <3>1. << id, i >> \in Pairs
      BY <2>5, PairsFacts
    <3>2. PICK k \in 1 .. n : order[k] = << id, i >>
      BY <2>2, <3>1
    <3>3. order[k][1] = id /\ order[k][2] = i
      BY <3>2
    <3>4. k \in K
      BY <1>5, <3>3
    <3>  QED  BY <2>3, <3>3, <3>4
  <2>6. m \in Nat
    BY NumPairsFacts
  <2>7. IsFiniteSet(1 .. n) /\ IsFiniteSet(1 .. m) /\ Cardinality(1 .. m) = m
    BY <1>1, <2>6, FS_Interval
  <2>8. IsFiniteSet(K)
    <3>1. K \in SUBSET (1 .. n)
      OBVIOUS
    <3>  HIDE DEF K
    <3>  QED  BY <2>7, <3>1, FS_Subset
  <2>  HIDE DEF K, m
  <2>9. g \in Injection(K, 1 .. m)
    BY <2>3, <2>4, Fun_IsInj
  <2>10. g \in Surjection(K, 1 .. m)
    BY <2>3, <2>5, Fun_IsSurj
  <2>11. Cardinality(K) = Cardinality(1 .. m)
    BY <2>7, <2>9, <2>10, FS_Injection
  <2>  QED  BY <2>7, <2>11 DEF K, m
<1>12. \A k \in DOMAIN s : /\ HasEnd(flow_starts, s[k].flowId, s[k].send)
                           /\ HasEnd(flow_ends, s[k].flowId, s[k].recv)
  BY <1>4, <1>5
<1>  HIDE DEF n
<1>  QED  BY <1>1, <1>4, <1>6, <1>7, <1>8, <1>10, <1>11, <1>12 DEF s, n, AreArrows

-----------------------------------------------------------------------------
(* The steps that sort and pair, and write. *)

LEMMA TimelineTimes == \A row \in TimelineRow : row.timestamp \in 0 .. UInt64Max /\ row.timestamp \in Nat
  BY ProcAssumption DEF TimelineRow, Row

LEMMA RecordFacts ==
  ASSUME IInv, NEW k \in DOMAIN records
  PROVE  /\ records[k].timestamp \in 0 .. UInt64Max /\ records[k].timestamp \in Nat
         /\ records[k].timestamp <= TotalTime /\ TotalTime \in Nat
         /\ records[k].task \in DOMAIN procs /\ records[k].thread \in Nat \ {0}
<1>  DEFINE r == records[k]
<1>1. /\ PlaceOf(r) \in Consumed /\ PlaceOf(r) \in Places
      /\ r.thread = PayloadOf(PlaceOf(r)).channelId + 1
      /\ r.timestamp = TimeOf(r.task, PayloadOf(PlaceOf(r)).timestamp)
  BY DEF IInv, Collected, IsRecord, Consumed
<1>2. /\ r.task \in DOMAIN procs /\ r.file \in DOMAIN procs[r.task].files
      /\ r.place \in DOMAIN procs[r.task].files[r.file]
      /\ PayloadOf(PlaceOf(r)) = procs[r.task].files[r.file][r.place]
  BY <1>1, PlaceFacts DEF PlaceOf, PayloadOf
<1>3. IsProcs(procs) /\ UInt64Max \in Nat
  BY ProcAssumption DEF IInv, Control
<1>  HIDE DEF r
<1>4. /\ r.timestamp \in 0 .. UInt64Max /\ r.timestamp <= TotalTime /\ TotalTime \in Nat
  BY <1>1, <1>2, <1>3, TimeFacts
<1>5. PayloadOf(PlaceOf(r)).channelId \in Nat
  <2>1. IsTrace(procs[r.task].files[r.file])
    BY <1>2, <1>3, ProcFacts DEF IsProc
  <2>  QED  BY <1>2, <2>1 DEF IsTrace
<1>6. r.thread \in Nat \ {0}
  BY <1>1, <1>5
<1>7. r.timestamp \in Nat
  BY <1>3, <1>4
<1>  QED  BY <1>2, <1>4, <1>6, <1>7 DEF r

\* A sorted sequence of records keeps each thread's in its order.
LEMMA SortedCollected ==
  ASSUME IInv
  PROVE  LET t == StableSorted(records)
         IN  /\ OwnSeq(t)
             /\ \A k \in DOMAIN t : IsRecord(t[k])
             /\ \A k, l \in DOMAIN t : k < l =>
                  FileOrder(t[k], t[l]) /\ t[k].timestamp <= t[l].timestamp
             /\ \A k \in DOMAIN records : \E l \in DOMAIN t : t[l] = records[k]
<1>  DEFINE t == StableSorted(records)
<1>1. OwnSeq(records) /\ \A k \in DOMAIN records : IsRecord(records[k])
  BY DEF IInv, Collected
<1>2. \A i \in DOMAIN records : records[i].timestamp \in Nat
  BY RecordFacts
<1>3. /\ OwnSeq(t)
      /\ \A i \in DOMAIN records : \E k \in DOMAIN t : t[k] = records[i]
      /\ \A k \in DOMAIN t : \E i \in DOMAIN records : t[k] = records[i]
      /\ \A k, l \in DOMAIN t : k < l =>
           \E i, j \in DOMAIN records :
             t[k] = records[i] /\ t[l] = records[j] /\ Earlier(records, i, j)
  BY <1>1, <1>2, StableSortedFacts
<1>  HIDE DEF t
<1>4. ASSUME NEW k \in DOMAIN t, NEW l \in DOMAIN t, k < l
      PROVE  FileOrder(t[k], t[l]) /\ t[k].timestamp <= t[l].timestamp
  <2>1. PICK i \in DOMAIN records, j \in DOMAIN records :
          t[k] = records[i] /\ t[l] = records[j] /\ Earlier(records, i, j)
    BY <1>3, <1>4
  <2>  DEFINE a == records[i]
              b == records[j]
  <2>2. a.timestamp \in Nat /\ b.timestamp \in Nat
    BY <1>2
  <2>3. a.timestamp < b.timestamp \/ (a.timestamp = b.timestamp /\ i < j)
    BY <2>1 DEF Earlier
  <2>4. IsRecord(a) /\ IsRecord(b)
    BY <1>1
  <2>5. ASSUME a.task = b.task, a.file = b.file PROVE a.place < b.place
    <3>1. CASE a.timestamp = b.timestamp /\ i < j
      <4>1. FileOrder(a, b)
        BY <3>1 DEF IInv, Collected
      <4>  QED  BY <2>5, <4>1 DEF FileOrder
    <3>2. CASE a.timestamp < b.timestamp
      <4>  DEFINE file == procs[a.task].files[a.file]
      <4>1. PlaceOf(a) \in Places /\ PlaceOf(b) \in Places
        BY <2>4 DEF IsRecord, Consumed
      <4>2. /\ a.task \in DOMAIN procs /\ a.file \in DOMAIN procs[a.task].files
            /\ a.place \in DOMAIN file /\ b.place \in DOMAIN file
        BY <2>5, <4>1, PlaceFacts DEF PlaceOf
      <4>3. IsProcs(procs)
        BY DEF IInv, Control
      <4>4. a.place \in Nat /\ b.place \in Nat
        <5>1. DOMAIN file = 1 .. Len(file)
          BY <4>2, <4>3, ProcFacts, TraceFacts
        <5>  QED  BY <4>2, <5>1
      <4>5. /\ a.timestamp = TimeOf(a.task, file[a.place].timestamp)
            /\ b.timestamp = TimeOf(a.task, file[b.place].timestamp)
        BY <2>4, <2>5 DEF IsRecord, PlaceOf, PayloadOf
      <4>6. b.place <= a.place => b.timestamp <= a.timestamp
        <5>  SUFFICES ASSUME b.place <= a.place PROVE b.timestamp <= a.timestamp
          OBVIOUS
        <5>  HIDE DEF a, b
        <5>1. TimeOf(a.task, file[b.place].timestamp) <= TimeOf(a.task, file[a.place].timestamp)
          BY <4>2, <4>3, TimesMonotone
        <5>  QED  BY <4>5, <5>1
      <4>  HIDE DEF a, b
      <4>  QED  BY <2>2, <3>2, <4>4, <4>6
    <3>  QED  BY <2>3, <3>1, <3>2
  <2>6. a.timestamp <= b.timestamp
    BY <2>2, <2>3
  <2>  QED  BY <2>1, <2>5, <2>6 DEF FileOrder
<1>5. \A k \in DOMAIN t : IsRecord(t[k])
  BY <1>1, <1>3
<1>  QED  BY <1>3, <1>4, <1>5 DEF t

LEMMA NothingWritten ==
  ASSUME prv' = << >>, rec' = 0, c' = 0, OwnSeq(records'), OwnSeq(comms')
  PROVE  Written' /\ NextIsLater' /\ PrvInTimeOrder'
<1>1. OwnSeq(<< >>) /\ DOMAIN << >> = {} /\ Len(<< >>) = 0
  BY EmptyOwn
<1>2. Len(records') \in Nat /\ Len(comms') \in Nat
  BY LenProperties DEF OwnSeq
<1>3. Line("arrow")' = {} /\ Line("event")' = {}
  BY <1>1 DEF Line
<1>4. \A id : DrawnOf(id)' = {} /\ ArrowsOf(id, c)' = {}
  BY <1>3 DEF DrawnOf, ArrowsOf
<1>5. /\ OwnSeq(prv') /\ Len(prv') = rec' + c' /\ DOMAIN prv' = {}
      /\ rec' \in 0 .. Len(records') /\ c' \in 0 .. Len(comms')
      /\ 1 .. rec' = {}
  BY <1>1, <1>2
<1>6. /\ IsFiniteSet(Line("arrow")') /\ Cardinality(Line("arrow")') = c'
      /\ \A id : Cardinality(DrawnOf(id)') = Cardinality(ArrowsOf(id, c)')
  BY <1>3, <1>4, FS_EmptySet
<1>7. Written'
  BY <1>3, <1>5, <1>6 DEF Written
<1>  QED  BY <1>5, <1>7 DEF NextIsLater, PrvInTimeOrder

LEMMA SortAndPairStep ==
  ASSUME IInv, SortAndPair
  PROVE  IInv'
<1>1. /\ pc = "proc" /\ p = Len(procs) /\ pc' = "write"
      /\ procs' = procs /\ p' = p /\ result' = result
      /\ flow_starts' = flow_starts /\ flow_ends' = flow_ends
      /\ rec' = rec /\ c' = c /\ prv' = prv
      /\ records' = StableSorted(records) /\ unmatched' = Unmatched
  BY DEF SortAndPair, written
<1>2. PICK arrows \in Pairings : \E order \in Sortings(Pairs, SendTimes(arrows)) :
        comms' = [k \in DOMAIN order |-> arrows[order[k][1]][order[k][2]]]
  BY DEF SortAndPair
<1>3. PICK order \in Sortings(Pairs, SendTimes(arrows)) :
        comms' = [k \in DOMAIN order |-> arrows[order[k][1]][order[k][2]]]
  BY <1>2
<1>4. /\ Consumed' = Consumed
      /\ \A y : PayloadOf(y)' = PayloadOf(y)
      /\ \A q, t : TimeOf(q, t)' = TimeOf(q, t)
      /\ Row' = Row /\ TimelineRow' = TimelineRow /\ ExtraIds' = ExtraIds
  BY <1>1, SameProcs, SameConsumed
<1>5. /\ OwnSeq(records')
      /\ \A k \in DOMAIN records' : IsRecord(records'[k])
      /\ \A k, l \in DOMAIN records' : k < l =>
           FileOrder(records'[k], records'[l]) /\ records'[k].timestamp <= records'[l].timestamp
      /\ \A k \in DOMAIN records : \E l \in DOMAIN records' : records'[l] = records[k]
  BY <1>1, SortedCollected
<1>6. /\ EndsIn(flow_starts, TimelineRow) /\ EndsIn(flow_ends, TimelineRow)
      /\ \A row \in TimelineRow : row.timestamp \in Nat
  BY TimelineTimes DEF IInv, EndsOnTimeline
<1>7. /\ result = "running" /\ rec = 0 /\ c = 0 /\ prv = << >>
  BY <1>1 DEF IInv, Control, Collecting
<1>8. IsFiniteSet(Slots(flow_starts)) /\ IsFiniteSet(Slots(flow_ends))
  BY <1>7 DEF IInv, AllTallied, Counts
<1>9. \A id : /\ NumPairs(id) \in Nat
              /\ NumPairs(id) <= Len(Ends(flow_starts, id))
              /\ NumPairs(id) <= Len(Ends(flow_ends, id))
  <2>1. \A id : /\ NumPairs(id) \in Nat
                /\ Len(Ends(flow_starts, id)) \in Nat /\ Len(Ends(flow_ends, id)) \in Nat
                /\ NumPairs(id) = IF Len(Ends(flow_starts, id)) <= Len(Ends(flow_ends, id))
                                  THEN Len(Ends(flow_starts, id))
                                  ELSE Len(Ends(flow_ends, id))
    BY <1>6, NumPairsFacts
  <2>  QED  BY <2>1
<1>10. /\ IsFiniteSet(Pairs) /\ IsFiniteSet(Rest(flow_starts))
       /\ Cardinality(Slots(flow_starts)) = Cardinality(Pairs) + Cardinality(Rest(flow_starts))
  BY <1>6, <1>8, <1>9, RestFacts
<1>11. /\ IsFiniteSet(Rest(flow_ends))
       /\ Cardinality(Slots(flow_ends)) = Cardinality(Pairs) + Cardinality(Rest(flow_ends))
  BY <1>6, <1>8, <1>9, RestFacts
<1>  DEFINE n == Cardinality(Pairs)
<1>12. /\ OwnSeq(comms') /\ Len(comms') = n /\ DOMAIN comms' = 1 .. n /\ n \in Nat
       /\ \A k \in DOMAIN comms' : comms'[k].send \in TimelineRow /\ comms'[k].recv \in TimelineRow
       /\ \A k, l \in DOMAIN comms' : k < l =>
            comms'[k].send.timestamp <= comms'[l].send.timestamp
       /\ \A k, l \in DOMAIN comms' : Uncrossed(comms'[k], comms'[l])
       /\ \A id : Cardinality({k \in 1 .. n : comms'[k].flowId = id}) = NumPairs(id)
  <2>1. AreArrows([k \in DOMAIN order |-> arrows[order[k][1]][order[k][2]]], TimelineRow)
    BY <1>6, <1>10, ArrowsFacts
  <2>2. AreArrows(comms', TimelineRow)
    BY <1>3, <2>1
  <2>  QED  BY <2>2 DEF AreArrows
<1>  HIDE DEF n
<1>13. Control'
  BY <1>1, <1>7 DEF IInv, Control, Collecting, Sorted
<1>14. Collected'
  <2>1. \A r : IsRecord(r) => IsRecord(r)'
    BY <1>4 DEF IsRecord, PlaceOf
  <2>2. (\A k \in DOMAIN records : IsRecord(records[k]))'
    BY <1>5, <2>1
  <2>  QED  BY <1>5, <2>2 DEF Collected
<1>15. AllCollected'
  <2>  SUFFICES ASSUME result' # "undefined", NEW y \in Consumed', ~ IsFlow(PayloadOf(y))
                PROVE  \E k \in DOMAIN records' : PlaceOf(records'[k]) = y
    BY <1>4 DEF AllCollected, PlaceOf
  <2>1. PICK k \in DOMAIN records : PlaceOf(records[k]) = y
    BY <1>1, <1>4 DEF IInv, AllCollected
  <2>  QED  BY <1>5, <2>1
<1>16. RecordsSorted'
  BY <1>5 DEF RecordsSorted
<1>17. EndsOnTimeline'
  BY <1>1, <1>4, <1>6 DEF EndsOnTimeline
<1>18. AllTallied'
  <2>1. /\ Flowed(EVENTID_FLOW_START)' = Flowed(EVENTID_FLOW_START)
        /\ Flowed(EVENTID_FLOW_END)' = Flowed(EVENTID_FLOW_END)
    BY <1>4 DEF Flowed
  <2>  QED  BY <1>1, <1>4, <2>1 DEF IInv, AllTallied
<1>19. Arrows'
  BY <1>4, <1>12 DEF Arrows
<1>20. AllPaired'
  <2>1. \A id : ArrowsOf(id, Len(comms))' = {k \in 1 .. n : comms'[k].flowId = id}
    BY <1>12 DEF ArrowsOf
  <2>2. \A id : NumPairs(id)' = NumPairs(id)
    BY <1>1 DEF NumPairs, Ends
  <2>3. Slots(flow_starts)' = Slots(flow_starts) /\ Slots(flow_ends)' = Slots(flow_ends)
    BY <1>1 DEF Slots
  <2>4. \A id : Cardinality(ArrowsOf(id, Len(comms))') = NumPairs(id)'
    BY <1>12, <2>1, <2>2
  <2>5. unmatched' = Cardinality(Rest(flow_starts)) + Cardinality(Rest(flow_ends))
    BY <1>1 DEF Unmatched
  <2>6. Cardinality(Rest(flow_starts)) \in Nat /\ Cardinality(Rest(flow_ends)) \in Nat
    BY <1>10, <1>11, FS_CardinalityType
  <2>7. unmatched' \in Nat
    BY <2>5, <2>6
  <2>8. unmatched' + 2 * Len(comms')
          = Cardinality(Slots(flow_starts)) + Cardinality(Slots(flow_ends))
    BY <1>10, <1>11, <1>12, <2>5, <2>6 DEF n
  <2>9. (unmatched + 2 * Len(comms)
           = Cardinality(Slots(flow_starts)) + Cardinality(Slots(flow_ends)))'
    BY <2>3, <2>8
  <2>  QED  BY <2>4, <2>7, <2>9 DEF AllPaired
<1>21. Written' /\ NextIsLater' /\ PrvInTimeOrder'
  BY <1>1, <1>5, <1>7, <1>12, NothingWritten
<1>  QED  BY <1>13, <1>14, <1>15, <1>16, <1>17, <1>18, <1>19, <1>20, <1>21 DEF IInv

\* Each line is a record or an arrow, and has its time.
LEMMA LineFacts ==
  ASSUME IInv
  PROVE  /\ OwnSeq(prv) /\ DOMAIN prv = 1 .. Len(prv) /\ Len(prv) = rec + c
         /\ rec \in Nat /\ c \in Nat /\ Len(records) \in Nat /\ Len(comms) \in Nat
         /\ rec <= Len(records) /\ c <= Len(comms)
         /\ DOMAIN records = 1 .. Len(records) /\ DOMAIN comms = 1 .. Len(comms)
         /\ \A i \in DOMAIN prv : prv[i].timestamp \in Nat
         /\ \A k \in DOMAIN comms : comms[k].send.timestamp \in Nat
         /\ \A i \in Line("event") : \E r \in 1 .. rec : IsEventLine(prv[i], r)
         /\ \A i \in Line("arrow") : \E k \in 1 .. c : IsArrowLine(prv[i], k)
<1>1. Written /\ Collected /\ Arrows
  BY DEF IInv
<1>2. /\ Len(records) \in Nat /\ DOMAIN records = 1 .. Len(records)
      /\ Len(comms) \in Nat /\ DOMAIN comms = 1 .. Len(comms)
      /\ DOMAIN prv = 1 .. Len(prv)
  BY <1>1, LenProperties DEF Written, Collected, Arrows, OwnSeq
<1>3. /\ rec \in Nat /\ c \in Nat /\ rec <= Len(records) /\ c <= Len(comms)
      /\ OwnSeq(prv) /\ Len(prv) = rec + c
  BY <1>1, <1>2 DEF Written
<1>4. \A i \in DOMAIN prv : \/ \E r \in 1 .. rec : IsEventLine(prv[i], r)
                            \/ \E k \in 1 .. c : IsArrowLine(prv[i], k)
  BY <1>1 DEF Written
<1>5. \A k \in DOMAIN comms : comms[k].send.timestamp \in Nat
  BY <1>1, TimelineTimes DEF Arrows
<1>6. \A k \in DOMAIN records : records[k].timestamp \in Nat
  BY RecordFacts
<1>7. 1 .. rec \subseteq DOMAIN records /\ 1 .. c \subseteq DOMAIN comms
  BY <1>2, <1>3
<1>8. \A i \in DOMAIN prv : prv[i].timestamp \in Nat
  BY <1>4, <1>5, <1>6, <1>7 DEF IsEventLine, IsArrowLine
<1>9. \A i \in Line("event") : \E r \in 1 .. rec : IsEventLine(prv[i], r)
  BY <1>4 DEF Line, IsArrowLine
<1>10. \A i \in Line("arrow") : \E k \in 1 .. c : IsArrowLine(prv[i], k)
  BY <1>4 DEF Line, IsEventLine
<1>  QED  BY <1>2, <1>3, <1>5, <1>8, <1>9, <1>10

LEMMA WritesOn ==
  ASSUME IInv, pc = "write", UNCHANGED << procs, p, pc, collected, paired, result >>
  PROVE  /\ Control' /\ Collected' /\ AllCollected' /\ RecordsSorted' /\ EndsOnTimeline'
         /\ AllTallied' /\ Arrows' /\ AllPaired'
<1>1. Control'
  BY DEF IInv, Control, Collecting, Sorted, collected, paired
<1>2. Consumed' = Consumed
  BY SameConsumed
<1>3. Sorted' => Sorted
  BY DEF Sorted
<1>  QED  BY <1>1, <1>2, <1>3, KeepsWhatIsCollected DEF collected

LEMMA WriteCommStep ==
  ASSUME IInv, WriteComm
  PROVE  IInv'
<1>  DEFINE new == [kind |-> "arrow", timestamp |-> comms[c + 1].send.timestamp,
                    line |-> comms[c + 1]]
            n == Len(prv) + 1
<1>1. /\ pc = "write" /\ c < Len(comms) /\ ArrowIsNext
      /\ c' = c + 1 /\ rec' = rec /\ prv' = Append(prv, new)
      /\ UNCHANGED << procs, p, pc, collected, paired, result >>
      /\ records' = records /\ comms' = comms
  BY DEF WriteComm, Write, collected, paired
<1>2. /\ Control' /\ Collected' /\ AllCollected' /\ RecordsSorted' /\ EndsOnTimeline'
      /\ AllTallied' /\ Arrows' /\ AllPaired'
  BY <1>1, WritesOn
<1>3. /\ OwnSeq(prv) /\ DOMAIN prv = 1 .. Len(prv) /\ Len(prv) = rec + c
      /\ rec \in Nat /\ c \in Nat /\ Len(records) \in Nat /\ Len(comms) \in Nat
      /\ rec <= Len(records) /\ c <= Len(comms)
      /\ DOMAIN records = 1 .. Len(records) /\ DOMAIN comms = 1 .. Len(comms)
      /\ \A i \in DOMAIN prv : prv[i].timestamp \in Nat
      /\ \A k \in DOMAIN comms : comms[k].send.timestamp \in Nat
  BY LineFacts
<1>4. /\ OwnSeq(prv') /\ Len(prv') = n /\ DOMAIN prv' = DOMAIN prv \cup {n} /\ n \notin DOMAIN prv
      /\ prv'[n] = new /\ \A i \in DOMAIN prv : prv'[i] = prv[i]
  BY <1>1, <1>3, OwnAppend
<1>5. n \in Nat /\ n = rec + c + 1 /\ \A i \in DOMAIN prv : i < n
  BY <1>3
<1>6. Len(prv') = rec' + c'
  BY <1>1, <1>3, <1>4, <1>5
<1>7. new.kind = "arrow" /\ new.line = comms[c + 1] /\ new.timestamp = comms[c + 1].send.timestamp
  OBVIOUS
<1>8. c + 1 \in DOMAIN comms
  BY <1>1, <1>3
<1>  HIDE DEF new, n
<1>9. /\ Line("event")' = Line("event") /\ n \notin Line("arrow")
      /\ Line("arrow")' = Line("arrow") \cup {n}
  BY <1>4, <1>7 DEF Line
<1>10. Written
  BY DEF IInv
<1>11. Written'
  <2>1. /\ rec' \in 0 .. Len(records') /\ c' \in 0 .. Len(comms')
    BY <1>1, <1>3
  <2>2. (\A i \in DOMAIN prv : \/ \E r \in 1 .. rec : IsEventLine(prv[i], r)
                               \/ \E k \in 1 .. c : IsArrowLine(prv[i], k))'
    <3>1. \A i \in DOMAIN prv : \/ \E r \in 1 .. rec : IsEventLine(prv[i], r)
                                \/ \E k \in 1 .. c + 1 : IsArrowLine(prv[i], k)
      <4>1. 1 .. c \subseteq 1 .. c + 1
        BY <1>3
      <4>  QED  BY <1>10, <4>1 DEF Written
    <3>2. c + 1 \in 1 .. c + 1
      BY <1>3
    <3>3. \A i \in DOMAIN prv' : \/ \E r \in 1 .. rec : IsEventLine(prv'[i], r)
                                 \/ \E k \in 1 .. c + 1 : IsArrowLine(prv'[i], k)
      BY <1>4, <1>7, <3>1, <3>2 DEF IsArrowLine
    <3>  QED  BY <1>1, <3>3 DEF IsEventLine, IsArrowLine
  <2>3. (\A r \in 1 .. rec : \E i \in DOMAIN prv : IsEventLine(prv[i], r))'
    <3>1. \A r \in 1 .. rec : \E i \in DOMAIN prv' : IsEventLine(prv'[i], r)
      BY <1>4, <1>10 DEF Written
    <3>  QED  BY <1>1, <3>1 DEF IsEventLine
  <2>4. \A i, j \in Line("event")' : i < j => FileOrder(prv'[i].line, prv'[j].line)
    <3>1. \A i \in Line("event") : prv'[i] = prv[i]
      BY <1>4 DEF Line
    <3>  QED  BY <1>9, <1>10, <3>1 DEF Written
  <2>5. IsFiniteSet(Line("arrow")') /\ Cardinality(Line("arrow")') = c'
    BY <1>1, <1>9, <1>10, FS_AddElement DEF Written
  <2>6. ASSUME NEW id
        PROVE  Cardinality({k \in Line("arrow")' : prv'[k].line.flowId = id})
                 = Cardinality({k \in 1 .. c + 1 : comms[k].flowId = id})
    <3>  DEFINE A == {k \in Line("arrow") : prv[k].line.flowId = id}
                B == {k \in 1 .. c : comms[k].flowId = id}
                AA == {k \in Line("arrow")' : prv'[k].line.flowId = id}
                BB == {k \in 1 .. c + 1 : comms[k].flowId = id}
    <3>1. Cardinality(A) = Cardinality(B)
      BY <1>10 DEF Written, DrawnOf, ArrowsOf
    <3>2. IsFiniteSet(A)
      <4>1. A \in SUBSET Line("arrow") /\ IsFiniteSet(Line("arrow"))
        BY <1>10 DEF Written
      <4>  HIDE DEF A
      <4>  QED  BY <4>1, FS_Subset
    <3>3. IsFiniteSet(B)
      <4>1. B \in SUBSET (1 .. c) /\ IsFiniteSet(1 .. c)
        BY <1>3, FS_Interval
      <4>  HIDE DEF B
      <4>  QED  BY <4>1, FS_Subset
    <3>4. \A k \in Line("arrow") : prv'[k] = prv[k]
      BY <1>4 DEF Line
    <3>5. 1 .. c + 1 = (1 .. c) \cup {c + 1} /\ c + 1 \notin 1 .. c
      BY <1>3
    <3>6. CASE comms[c + 1].flowId = id
      <4>1. AA = A \cup {n} /\ n \notin A
        BY <1>4, <1>7, <1>9, <3>4, <3>6
      <4>2. BB = B \cup {c + 1} /\ c + 1 \notin B
        BY <3>5, <3>6
      <4>  HIDE DEF A, B, AA, BB
      <4>3. Cardinality(AA) = Cardinality(A) + 1 /\ Cardinality(BB) = Cardinality(B) + 1
        BY <3>2, <3>3, <4>1, <4>2, FS_AddElement
      <4>  QED  BY <3>1, <4>3 DEF AA, BB
    <3>7. CASE comms[c + 1].flowId # id
      <4>1. AA = A
        BY <1>4, <1>7, <1>9, <3>4, <3>7
      <4>2. BB = B
        BY <3>5, <3>7
      <4>  HIDE DEF A, B
      <4>  QED  BY <3>1, <4>1, <4>2
    <3>  QED  BY <3>6, <3>7
  <2>7. (\A id : Cardinality(DrawnOf(id)) = Cardinality(ArrowsOf(id, c)))'
    BY <1>1, <2>6 DEF DrawnOf, ArrowsOf
  <2>  QED  BY <1>4, <1>6, <2>1, <2>2, <2>3, <2>4, <2>5, <2>7 DEF Written
<1>12. \A i \in DOMAIN prv : prv[i].timestamp <= new.timestamp
  BY <1>1, <1>7 DEF IInv, NextIsLater
<1>13. PrvInTimeOrder'
  <2>1. \A i, j \in DOMAIN prv : i < j => prv[i].timestamp <= prv[j].timestamp
    BY DEF IInv, PrvInTimeOrder
  <2>2. ASSUME NEW i \in DOMAIN prv', NEW j \in DOMAIN prv', i < j
        PROVE  prv'[i].timestamp <= prv'[j].timestamp
    <3>1. i \in DOMAIN prv
      BY <1>3, <1>4, <1>5, <2>2
    <3>2. CASE j \in DOMAIN prv
      BY <1>4, <2>1, <2>2, <3>1, <3>2
    <3>3. CASE j = n
      BY <1>4, <1>12, <3>1, <3>3
    <3>  QED  BY <1>4, <3>2, <3>3
  <2>  QED  BY <2>2 DEF PrvInTimeOrder
<1>14. NextIsLater'
  <2>  SUFFICES ASSUME NEW i \in DOMAIN prv'
                PROVE  /\ rec < Len(records) => prv'[i].timestamp <= records[rec + 1].timestamp
                       /\ c + 1 < Len(comms) =>
                            prv'[i].timestamp <= comms[c + 1 + 1].send.timestamp
    BY <1>1 DEF NextIsLater
  <2>1. prv'[i].timestamp \in Nat /\ new.timestamp \in Nat /\ prv'[i].timestamp <= new.timestamp
    <3>1. new.timestamp \in Nat
      BY <1>3, <1>7, <1>8
    <3>2. CASE i \in DOMAIN prv
      BY <1>3, <1>4, <1>12, <3>1, <3>2
    <3>3. CASE i = n
      BY <1>4, <3>1, <3>3
    <3>  QED  BY <1>4, <3>1, <3>2, <3>3
  <2>2. ASSUME rec < Len(records) PROVE prv'[i].timestamp <= records[rec + 1].timestamp
    <3>1. new.timestamp <= records[rec + 1].timestamp
      BY <1>1, <1>7, <2>2 DEF ArrowIsNext
    <3>2. rec + 1 \in DOMAIN records
      BY <1>3, <2>2
    <3>3. records[rec + 1].timestamp \in Nat
      BY <3>2, RecordFacts
    <3>  QED  BY <2>1, <3>1, <3>3
  <2>3. ASSUME c + 1 < Len(comms)
        PROVE  prv'[i].timestamp <= comms[c + 1 + 1].send.timestamp
    <3>1. c + 1 + 1 \in DOMAIN comms /\ c + 1 < c + 1 + 1
      BY <1>3, <2>3
    <3>2. comms[c + 1].send.timestamp <= comms[c + 1 + 1].send.timestamp
      BY <1>8, <3>1 DEF IInv, Arrows
    <3>3. comms[c + 1 + 1].send.timestamp \in Nat
      BY <1>3, <3>1
    <3>  QED  BY <1>7, <2>1, <3>2, <3>3
  <2>  QED  BY <2>2, <2>3
<1>  QED  BY <1>2, <1>11, <1>13, <1>14 DEF IInv

LEMMA WriteRecordStep ==
  ASSUME IInv, WriteRecord
  PROVE  IInv'
<1>  DEFINE new == [kind |-> "event", timestamp |-> records[rec + 1].timestamp,
                    line |-> records[rec + 1]]
            n == Len(prv) + 1
<1>1. /\ pc = "write" /\ rec < Len(records) /\ ~ (c < Len(comms) /\ ArrowIsNext)
      /\ rec' = rec + 1 /\ c' = c /\ prv' = Append(prv, new)
      /\ UNCHANGED << procs, p, pc, collected, paired, result >>
      /\ records' = records /\ comms' = comms
  BY DEF WriteRecord, Write, collected, paired
<1>2. /\ Control' /\ Collected' /\ AllCollected' /\ RecordsSorted' /\ EndsOnTimeline'
      /\ AllTallied' /\ Arrows' /\ AllPaired'
  BY <1>1, WritesOn
<1>3. /\ OwnSeq(prv) /\ DOMAIN prv = 1 .. Len(prv) /\ Len(prv) = rec + c
      /\ rec \in Nat /\ c \in Nat /\ Len(records) \in Nat /\ Len(comms) \in Nat
      /\ rec <= Len(records) /\ c <= Len(comms)
      /\ DOMAIN records = 1 .. Len(records) /\ DOMAIN comms = 1 .. Len(comms)
      /\ \A i \in DOMAIN prv : prv[i].timestamp \in Nat
      /\ \A k \in DOMAIN comms : comms[k].send.timestamp \in Nat
      /\ \A i \in Line("event") : \E r \in 1 .. rec : IsEventLine(prv[i], r)
  BY LineFacts
<1>4. /\ OwnSeq(prv') /\ Len(prv') = n /\ DOMAIN prv' = DOMAIN prv \cup {n} /\ n \notin DOMAIN prv
      /\ prv'[n] = new /\ \A i \in DOMAIN prv : prv'[i] = prv[i]
  BY <1>1, <1>3, OwnAppend
<1>5. n \in Nat /\ n = rec + c + 1 /\ \A i \in DOMAIN prv : i < n
  BY <1>3
<1>6. Len(prv') = rec' + c'
  BY <1>1, <1>3, <1>4, <1>5
<1>7. new.kind = "event" /\ new.line = records[rec + 1] /\ new.timestamp = records[rec + 1].timestamp
  OBVIOUS
<1>8. rec + 1 \in DOMAIN records /\ records[rec + 1].timestamp \in Nat
  <2>1. rec + 1 \in DOMAIN records
    BY <1>1, <1>3
  <2>  QED  BY <2>1, RecordFacts
<1>  HIDE DEF new, n
<1>9. /\ Line("arrow")' = Line("arrow") /\ n \notin Line("event")
      /\ Line("event")' = Line("event") \cup {n}
  BY <1>4, <1>7 DEF Line
<1>10. Written
  BY DEF IInv
<1>11. Written'
  <2>1. /\ rec' \in 0 .. Len(records') /\ c' \in 0 .. Len(comms')
    BY <1>1, <1>3
  <2>2. 1 .. rec + 1 = (1 .. rec) \cup {rec + 1}
    BY <1>3
  <2>3. (\A i \in DOMAIN prv : \/ \E r \in 1 .. rec : IsEventLine(prv[i], r)
                               \/ \E k \in 1 .. c : IsArrowLine(prv[i], k))'
    <3>1. \A i \in DOMAIN prv : \/ \E r \in 1 .. rec : IsEventLine(prv[i], r)
                                \/ \E k \in 1 .. c : IsArrowLine(prv[i], k)
      BY <1>10 DEF Written
    <3>2. IsEventLine(prv'[n], rec + 1)
      BY <1>4, <1>7 DEF IsEventLine
    <3>3. \A i \in DOMAIN prv' : \/ \E r \in 1 .. rec + 1 : IsEventLine(prv'[i], r)
                                 \/ \E k \in 1 .. c : IsArrowLine(prv'[i], k)
      BY <1>4, <2>2, <3>1, <3>2
    <3>  QED  BY <1>1, <3>3 DEF IsEventLine, IsArrowLine
  <2>4. (\A r \in 1 .. rec : \E i \in DOMAIN prv : IsEventLine(prv[i], r))'
    <3>1. \A r \in 1 .. rec : \E i \in DOMAIN prv' : IsEventLine(prv'[i], r)
      BY <1>4, <1>10 DEF Written
    <3>2. IsEventLine(prv'[n], rec + 1)
      BY <1>4, <1>7 DEF IsEventLine
    <3>3. \A r \in 1 .. rec + 1 : \E i \in DOMAIN prv' : IsEventLine(prv'[i], r)
      BY <1>4, <2>2, <3>1, <3>2
    <3>  QED  BY <1>1, <3>3 DEF IsEventLine
  <2>5. ASSUME NEW i \in Line("event")', NEW j \in Line("event")', i < j
        PROVE  FileOrder(prv'[i].line, prv'[j].line)
    <3>1. \A k \in Line("event") : prv'[k] = prv[k] /\ k \in DOMAIN prv
      BY <1>4 DEF Line
    <3>2. i \in Line("event")
      <4>1. i = n => j \in DOMAIN prv
        BY <1>5, <1>9, <2>5, <3>1
      <4>  QED  BY <1>5, <1>9, <2>5, <4>1, <1>3
    <3>3. CASE j \in Line("event")
      BY <1>10, <2>5, <3>1, <3>2, <3>3 DEF Written
    <3>4. CASE j = n
      <4>1. PICK r \in 1 .. rec : IsEventLine(prv[i], r)
        BY <1>3, <3>2
      <4>2. r \in DOMAIN records /\ r < rec + 1
        BY <1>3
      <4>3. FileOrder(records[r], records[rec + 1])
        BY <1>8, <4>2 DEF IInv, Collected
      <4>  QED  BY <1>4, <1>7, <3>1, <3>2, <3>4, <4>1, <4>3 DEF IsEventLine
    <3>  QED  BY <1>9, <3>3, <3>4
  <2>6. IsFiniteSet(Line("arrow")') /\ Cardinality(Line("arrow")') = c'
    BY <1>1, <1>9, <1>10 DEF Written
  <2>7. \A id : DrawnOf(id)' = DrawnOf(id) /\ ArrowsOf(id, c)' = ArrowsOf(id, c)
    <3>1. \A k \in Line("arrow") : prv'[k] = prv[k]
      BY <1>4 DEF Line
    <3>  QED  BY <1>1, <1>9, <3>1 DEF DrawnOf, ArrowsOf
  <2>8. (\A id : Cardinality(DrawnOf(id)) = Cardinality(ArrowsOf(id, c)))'
    BY <1>10, <2>7 DEF Written
  <2>  QED  BY <1>4, <1>6, <2>1, <2>3, <2>4, <2>5, <2>6, <2>8 DEF Written
<1>12. \A i \in DOMAIN prv : prv[i].timestamp <= new.timestamp
  BY <1>1, <1>7 DEF IInv, NextIsLater
<1>13. PrvInTimeOrder'
  <2>1. \A i, j \in DOMAIN prv : i < j => prv[i].timestamp <= prv[j].timestamp
    BY DEF IInv, PrvInTimeOrder
  <2>2. ASSUME NEW i \in DOMAIN prv', NEW j \in DOMAIN prv', i < j
        PROVE  prv'[i].timestamp <= prv'[j].timestamp
    <3>1. i \in DOMAIN prv
      BY <1>3, <1>4, <1>5, <2>2
    <3>2. CASE j \in DOMAIN prv
      BY <1>4, <2>1, <2>2, <3>1, <3>2
    <3>3. CASE j = n
      BY <1>4, <1>12, <3>1, <3>3
    <3>  QED  BY <1>4, <3>2, <3>3
  <2>  QED  BY <2>2 DEF PrvInTimeOrder
<1>14. NextIsLater'
  <2>  SUFFICES ASSUME NEW i \in DOMAIN prv'
                PROVE  /\ rec + 1 < Len(records) =>
                            prv'[i].timestamp <= records[rec + 1 + 1].timestamp
                       /\ c < Len(comms) => prv'[i].timestamp <= comms[c + 1].send.timestamp
    BY <1>1 DEF NextIsLater
  <2>1. prv'[i].timestamp \in Nat /\ new.timestamp \in Nat /\ prv'[i].timestamp <= new.timestamp
    <3>1. new.timestamp \in Nat
      BY <1>3, <1>7, <1>8
    <3>2. CASE i \in DOMAIN prv
      BY <1>3, <1>4, <1>12, <3>1, <3>2
    <3>3. CASE i = n
      BY <1>4, <3>1, <3>3
    <3>  QED  BY <1>4, <3>1, <3>2, <3>3
  <2>2. ASSUME rec + 1 < Len(records)
        PROVE  prv'[i].timestamp <= records[rec + 1 + 1].timestamp
    <3>1. rec + 1 + 1 \in DOMAIN records /\ rec + 1 < rec + 1 + 1
      BY <1>3, <2>2
    <3>2. records[rec + 1].timestamp <= records[rec + 1 + 1].timestamp
      BY <1>1, <1>8, <3>1 DEF IInv, RecordsSorted, Sorted
    <3>3. records[rec + 1 + 1].timestamp \in Nat
      BY <3>1, RecordFacts
    <3>  QED  BY <1>7, <2>1, <3>2, <3>3
  <2>3. ASSUME c < Len(comms) PROVE prv'[i].timestamp <= comms[c + 1].send.timestamp
    <3>1. ~ (comms[c + 1].send.timestamp <= new.timestamp)
      BY <1>1, <1>7, <2>3 DEF ArrowIsNext
    <3>2. c + 1 \in DOMAIN comms
      BY <1>3, <2>3
    <3>3. comms[c + 1].send.timestamp \in Nat
      BY <1>3, <3>2
    <3>  QED  BY <2>1, <3>1, <3>3
  <2>  QED  BY <2>2, <2>3
<1>  QED  BY <1>2, <1>11, <1>13, <1>14 DEF IInv

-----------------------------------------------------------------------------
(* The theorems. *)

\* The writer has done nothing yet.
Unstarted ==
  /\ p = 0 /\ pc = "open" /\ result = "running"
  /\ records = << >> /\ comms = << >> /\ prv = << >>
  /\ flow_starts = NoFlows /\ flow_ends = NoFlows
  /\ unmatched = 0 /\ rec = 0 /\ c = 0

LEMMA UnstartedIInv == IsProcs(procs) /\ Unstarted => IInv
<1>  SUFFICES ASSUME IsProcs(procs), Unstarted PROVE IInv
  OBVIOUS
<1>1. /\ p = 0 /\ pc = "open" /\ result = "running"
      /\ records = << >> /\ comms = << >> /\ prv = << >>
      /\ flow_starts = NoFlows /\ flow_ends = NoFlows
      /\ unmatched = 0 /\ rec = 0 /\ c = 0
  BY DEF Unstarted
<1>2. IsProcs(procs) /\ Len(procs) \in Nat /\ DOMAIN procs = 1 .. Len(procs)
  BY ProcFacts
<1>3. OwnSeq(<< >>) /\ DOMAIN << >> = {} /\ Len(<< >>) = 0
  BY EmptyOwn
<1>4. Consumed = {}
  <2>  SUFFICES ASSUME NEW x \in Consumed PROVE FALSE
    OBVIOUS
  <2>1. x[1] \in DOMAIN procs /\ (x[1] < 0 \/ x[1] = 0)
    BY <1>1, PlaceFacts DEF Consumed
  <2>  QED  BY <1>2, <2>1
<1>5. Control
  BY <1>1, <1>2 DEF Control, Collecting, Sorted
<1>6. Collected /\ AllCollected /\ RecordsSorted
  BY <1>1, <1>3, <1>4 DEF Collected, AllCollected, RecordsSorted
<1>7. DOMAIN NoFlows = {}
  BY DEF NoFlows
<1>8. EndsOnTimeline
  BY <1>1, <1>7 DEF EndsOnTimeline, EndsIn
<1>9. \A extra : Counts(NoFlows, {}, extra)
  <2>1. Slots(NoFlows) = {}
    BY <1>7 DEF Slots
  <2>2. \A id : Len(Ends(NoFlows, id)) = 0
    BY <1>3, <1>7 DEF Ends
  <2>  QED  BY <2>1, <2>2, FS_EmptySet DEF Counts
<1>10. AllTallied
  <2>1. \A k : Flowed(k) = {}
    BY <1>4 DEF Flowed
  <2>  QED  BY <1>1, <1>9, <2>1 DEF AllTallied
<1>11. Arrows /\ AllPaired
  BY <1>1, <1>3 DEF Arrows, AllPaired, Sorted
<1>12. Line("arrow") = {} /\ Line("event") = {}
  BY <1>1, <1>3 DEF Line
<1>13. \A id : DrawnOf(id) = {} /\ ArrowsOf(id, c) = {}
  BY <1>1, <1>12 DEF DrawnOf, ArrowsOf
<1>14. Written
  <2>1. /\ OwnSeq(prv) /\ Len(prv) = rec + c /\ DOMAIN prv = {}
        /\ rec \in 0 .. Len(records) /\ c \in 0 .. Len(comms) /\ 1 .. rec = {}
    BY <1>1, <1>3
  <2>2. /\ IsFiniteSet(Line("arrow")) /\ Cardinality(Line("arrow")) = c
        /\ \A id : Cardinality(DrawnOf(id)) = Cardinality(ArrowsOf(id, c))
    BY <1>1, <1>12, <1>13, FS_EmptySet
  <2>  QED  BY <1>12, <2>1, <2>2 DEF Written
<1>15. NextIsLater /\ PrvInTimeOrder
  BY <1>1, <1>3 DEF NextIsLater, PrvInTimeOrder
<1>  QED  BY <1>5, <1>6, <1>8, <1>10, <1>11, <1>14, <1>15 DEF IInv

LEMMA InitIInv == ASSUME Init PROVE IInv
<1>1. IsProcs(procs)
  BY InputFacts DEF Init
<1>2. Unstarted
  BY DEF Init, Unstarted
<1>  QED  BY <1>1, <1>2, UnstartedIInv

LEMMA NextIInv == ASSUME IInv, [Next]_vars PROVE IInv'
<1>1. CASE UNCHANGED vars \/ WriteFails
  <2>1. /\ UNCHANGED data /\ procs' = procs /\ p' = p /\ pc' = pc /\ result' = result
        /\ merger' = merger
    BY <1>1 DEF WriteFails, vars, data, collected, paired, written
  <2>2. Control'
    BY <2>1 DEF IInv, Control, Collecting, Sorted, data, Files
  <2>3. Consumed' = Consumed
    BY <2>1, SameProcs DEF Consumed
  <2>  QED  BY <2>1, <2>2, <2>3, MovesOn DEF Sorted
<1>2. CASE MergeStep
  <2>1. PICK e \in Tops(merger) : Flow(e) \/ SetOrReset(e) \/ NoColor(e)
    BY <1>2 DEF MergeStep
  <2>2. pc = "merge" /\ UNCHANGED << procs, p, paired, written >>
    BY <1>2 DEF MergeStep
  <2>  QED  BY <2>1, <2>2, FlowStep, SetOrResetStep, NoColorStep
<1>3. CASE Open \/ OpenFails \/ BeginProc \/ EndProc \/ ClosePrv \/ WriteRow \/ RowFails
  BY <1>3, MoveStep
<1>4. CASE SortAndPair
  BY <1>4, SortAndPairStep
<1>5. CASE WriteComm
  BY <1>5, WriteCommStep
<1>6. CASE WriteRecord
  BY <1>6, WriteRecordStep
<1>7. CASE Finished
  BY <1>1, <1>7 DEF Finished
<1>  QED  BY <1>1, <1>2, <1>3, <1>4, <1>5, <1>6, <1>7 DEF Next

\* The inductive invariant holds of every behaviour of the writer.
THEOREM Invariant == Spec => []IInv
<1>1. Init => IInv
  BY InitIInv
<1>2. IInv /\ [Next]_vars => IInv'
  BY NextIInv
<1>  QED  BY <1>1, <1>2, PTL DEF Spec

LEMMA StreamTyped == Spec => [](good \in BOOLEAN)
<1>1. Init => good \in BOOLEAN
  BY DEF Init
<1>2. good \in BOOLEAN /\ [Next]_vars => (good \in BOOLEAN)'
  BY DEF Next, vars, collected, paired, written, Open, OpenFails, Fails, BeginProc,
         MergeStep, EndProc, SortAndPair, WriteComm, WriteRecord, Write, WriteFails,
         ClosePrv, WriteRow, RowFails, Finished
<1>  QED  BY <1>1, <1>2, PTL DEF Spec

\* The state is as declared; in particular every row is numbered from 1, and no more
\* lines are written than there are records and arrows.
THEOREM TypeCorrect == Spec => []TypeOK
<1>1. IInv /\ good \in BOOLEAN => TypeOK
  <2>  SUFFICES ASSUME IInv, good \in BOOLEAN PROVE TypeOK
    OBVIOUS
  <2>1. TimelineRow \subseteq Row
    BY DEF TimelineRow
  <2>2. \A i \in DOMAIN records : IsRow(records[i])
    BY RecordFacts DEF IsRow, Row
  <2>3. Seq(TimelineRow) \subseteq Seq(Row)
    <3>  SUFFICES ASSUME NEW s \in Seq(TimelineRow) PROVE s \in Seq(Row)
      OBVIOUS
    <3>1. Len(s) \in Nat /\ s \in [1 .. Len(s) -> TimelineRow]
      BY LenProperties
    <3>2. s \in [1 .. Len(s) -> Row]
      BY <2>1, <3>1
    <3>  QED  BY <3>1, <3>2, SeqDef
  <2>4. \A f \in {flow_starts, flow_ends} : \A id \in DOMAIN f : f[id] \in Seq(Row)
    BY <2>3 DEF IInv, EndsOnTimeline, EndsIn
  <2>5. \A i \in DOMAIN comms : comms[i].send \in Row /\ comms[i].recv \in Row
    BY <2>1 DEF IInv, Arrows
  <2>6. /\ p \in 0 .. Len(procs)
        /\ pc \in {"open", "proc", "merge", "write", "row", "over"}
        /\ result \in {"running", "ok", "failed", "undefined"}
    BY DEF IInv, Control
  <2>7. /\ unmatched \in Nat /\ rec \in 0 .. Len(records) /\ c \in 0 .. Len(comms)
        /\ Len(prv) = rec + c
    BY DEF IInv, AllPaired, Written
  <2>  QED  BY <2>2, <2>4, <2>5, <2>6, <2>7 DEF TypeOK
<1>  QED  BY <1>1, Invariant, StreamTyped, PTL

\* The lines of tracr.prv are in the order of their times, arrows and events of all
\* tasks together.
THEOREM LinesInTimeOrder == Spec => []PrvInTimeOrder
<1>1. IInv => PrvInTimeOrder
  BY DEF IInv
<1>  QED  BY <1>1, Invariant, PTL

\* Every time in the file lies on the timeline that its header announces.
THEOREM AllOnTimeline == Spec => []TimesOnTimeline
<1>1. IInv => TimesOnTimeline
  <2>  SUFFICES ASSUME IInv PROVE TimesOnTimeline
    OBVIOUS
  <2>1. 1 .. rec \subseteq DOMAIN records /\ 1 .. c \subseteq DOMAIN comms
    BY LineFacts
  <2>2. \A k \in DOMAIN comms : /\ comms[k].send.timestamp <= TotalTime
                                /\ comms[k].recv.timestamp <= TotalTime
    BY DEF IInv, Arrows, TimelineRow
  <2>3. \A k \in DOMAIN records : records[k].timestamp <= TotalTime
    BY RecordFacts
  <2>4. \A i \in DOMAIN prv : \/ \E r \in 1 .. rec : IsEventLine(prv[i], r)
                              \/ \E k \in 1 .. c : IsArrowLine(prv[i], k)
    BY DEF IInv, Written
  <2>5. \A i \in DOMAIN prv : prv[i].timestamp <= TotalTime
    BY <2>1, <2>2, <2>3, <2>4 DEF IsEventLine, IsArrowLine
  <2>6. \A i \in Line("arrow") : prv[i].line.recv.timestamp <= TotalTime
    BY <2>1, <2>2, LineFacts DEF IsArrowLine
  <2>  QED  BY <2>5, <2>6 DEF TimesOnTimeline
<1>  QED  BY <1>1, Invariant, PTL

\* What has been read at the end is everything.
LEMMA AllRead ==
  ASSUME IInv, result = "ok"
  PROVE  /\ Consumed = Places /\ IsProcs(procs)
         /\ rec = Len(records) /\ c = Len(comms)
<1>1. /\ pc = "over" /\ p = Len(procs) /\ IsProcs(procs)
      /\ rec = Len(records) /\ c = Len(comms)
  BY DEF IInv, Control, Sorted
<1>2. ASSUME NEW x \in Places PROVE x[1] < p \/ x[1] = p
  <2>1. x[1] \in 1 .. Len(procs) /\ Len(procs) \in Nat
    BY <1>1, PlaceFacts, ProcFacts
  <2>  QED  BY <1>1, <2>1
<1>3. Consumed = Places
  BY <1>1, <1>2 DEF Consumed
<1>  QED  BY <1>1, <1>3

LEMMA KeepsStates == IInv => StatesKept
<1>  SUFFICES ASSUME IInv, result = "ok",
                     NEW q \in DOMAIN procs, NEW i \in DOMAIN procs[q].files
              PROVE  LET file == procs[q].files[i]
                     IN  /\ {prv[k].line.place : k \in Events(q, i)}
                              = {n \in DOMAIN file : ~ IsFlow(file[n])}
                         /\ \A k, l \in Events(q, i) :
                              k < l => prv[k].line.place < prv[l].line.place
                         /\ \A k \in Events(q, i) :
                              LET payload == file[prv[k].line.place]
                              IN  /\ prv[k].line.eventId = payload.eventId
                                  /\ prv[k].line.thread = payload.channelId + 1
  BY DEF StatesKept
<1>  DEFINE file == procs[q].files[i]
<1>1. Consumed = Places /\ rec = Len(records)
  BY AllRead
<1>2. DOMAIN records = 1 .. rec
  BY <1>1, LineFacts
<1>3. ASSUME NEW k \in Events(q, i)
      PROVE  /\ prv[k].line.place \in DOMAIN file
             /\ ~ IsFlow(file[prv[k].line.place])
             /\ prv[k].line.eventId = file[prv[k].line.place].eventId
             /\ prv[k].line.thread = file[prv[k].line.place].channelId + 1
             /\ k \in Line("event") /\ prv[k].line.task = q /\ prv[k].line.file = i
  <2>1. k \in Line("event") /\ prv[k].line.task = q /\ prv[k].line.file = i
    BY DEF Events
  <2>2. PICK r \in 1 .. rec : IsEventLine(prv[k], r)
    BY <2>1, LineFacts
  <2>3. IsRecord(records[r]) /\ prv[k].line = records[r]
    BY <1>2, <2>2 DEF IInv, Collected, IsEventLine
  <2>4. PlaceOf(records[r]) = << q, i, prv[k].line.place >>
    BY <2>1, <2>3 DEF PlaceOf
  <2>5. << q, i, prv[k].line.place >> \in Places
    BY <1>1, <2>3, <2>4 DEF IsRecord
  <2>6. PayloadOf(PlaceOf(records[r])) = file[prv[k].line.place]
    BY <2>4 DEF PayloadOf
  <2>7. prv[k].line.place \in DOMAIN file
    BY <2>5, PlaceFacts
  <2>  QED  BY <2>1, <2>3, <2>6, <2>7 DEF IsRecord
<1>4. ASSUME NEW n \in DOMAIN file, ~ IsFlow(file[n])
      PROVE  \E k \in Events(q, i) : prv[k].line.place = n
  <2>1. << q, i, n >> \in Consumed /\ PayloadOf(<< q, i, n >>) = file[n]
    BY <1>1, PlaceFacts DEF PayloadOf
  <2>2. PICK r \in DOMAIN records : PlaceOf(records[r]) = << q, i, n >>
    BY <1>4, <2>1 DEF IInv, AllCollected
  <2>3. records[r].task = q /\ records[r].file = i /\ records[r].place = n
    BY <2>2 DEF PlaceOf
  <2>4. PICK k \in DOMAIN prv : IsEventLine(prv[k], r)
    BY <1>2, <2>2 DEF IInv, Written
  <2>5. k \in Events(q, i) /\ prv[k].line.place = n
    BY <2>3, <2>4 DEF IsEventLine, Events, Line
  <2>  QED  BY <2>5
<1>5. ASSUME NEW k \in Events(q, i), NEW l \in Events(q, i), k < l
      PROVE  prv[k].line.place < prv[l].line.place
  <2>1. FileOrder(prv[k].line, prv[l].line)
    BY <1>3, <1>5 DEF IInv, Written
  <2>  QED  BY <1>3, <2>1 DEF FileOrder
<1>6. {prv[k].line.place : k \in Events(q, i)} = {n \in DOMAIN file : ~ IsFlow(file[n])}
  BY <1>3, <1>4
<1>  QED  BY <1>3, <1>5, <1>6

\* Each thread's sets and resets are in the file, once each, in the order in which
\* it recorded them.
THEOREM StatesAreKept == Spec => []StatesKept
  BY KeepsStates, Invariant, PTL

\* Of two messages of one flow the one sent first is the one received first.
THEOREM NoArrowsCross == Spec => []ArrowsDoNotCross
<1>1. IInv => ArrowsDoNotCross
  <2>  SUFFICES ASSUME IInv, NEW i \in Line("arrow"), NEW j \in Line("arrow")
                PROVE  Uncrossed(prv[i].line, prv[j].line)
    BY DEF ArrowsDoNotCross, Uncrossed
  <2>1. PICK k \in 1 .. c : IsArrowLine(prv[i], k)
    BY LineFacts
  <2>2. PICK l \in 1 .. c : IsArrowLine(prv[j], l)
    BY LineFacts
  <2>3. k \in DOMAIN comms /\ l \in DOMAIN comms
    BY LineFacts
  <2>4. Uncrossed(comms[k], comms[l])
    BY <2>3 DEF IInv, Arrows
  <2>  QED  BY <2>1, <2>2, <2>4 DEF IsArrowLine
<1>  QED  BY <1>1, Invariant, PTL

LEMMA FlowPlacesFacts ==
  ASSUME NEW event
  PROVE  FlowPlaces(event) = {x \in Places : PayloadOf(x).eventId = event}
<1>1. ASSUME NEW x \in FlowPlaces(event)
      PROVE  x \in Places /\ PayloadOf(x).eventId = event
  <2>1. PICK q \in DOMAIN procs : \E i \in DOMAIN procs[q].files :
          \E n \in DOMAIN procs[q].files[i] :
            procs[q].files[i][n].eventId = event /\ x = << q, i, n >>
    BY <1>1 DEF FlowPlaces
  <2>2. PICK i \in DOMAIN procs[q].files : \E n \in DOMAIN procs[q].files[i] :
          procs[q].files[i][n].eventId = event /\ x = << q, i, n >>
    BY <2>1
  <2>3. PICK n \in DOMAIN procs[q].files[i] :
          procs[q].files[i][n].eventId = event /\ x = << q, i, n >>
    BY <2>2
  <2>4. x \in Places
    BY <2>3, PlaceFacts
  <2>  QED  BY <2>3, <2>4 DEF PayloadOf
<1>2. ASSUME NEW x \in Places, PayloadOf(x).eventId = event PROVE x \in FlowPlaces(event)
  <2>1. /\ x = << x[1], x[2], x[3] >> /\ x[1] \in DOMAIN procs
        /\ x[2] \in DOMAIN procs[x[1]].files
        /\ x[3] \in DOMAIN procs[x[1]].files[x[2]]
    BY PlaceFacts
  <2>2. procs[x[1]].files[x[2]][x[3]].eventId = event
    BY <1>2 DEF PayloadOf
  <2>  QED  BY <2>1, <2>2 DEF FlowPlaces
<1>  QED  BY <1>1, <1>2

LEMMA AccountsForFlows == IInv => FlowsAccounted
<1>  SUFFICES ASSUME IInv, result = "ok", good PROVE FlowsAccounted
  BY DEF FlowsAccounted
<1>1. Consumed = Places /\ IsProcs(procs) /\ c = Len(comms)
  BY AllRead
<1>2. \A event : FlowPlaces(event) = Flowed(event)
  BY <1>1, FlowPlacesFacts DEF Flowed
<1>3. ASSUME NEW event, NEW id
      PROVE  OfFlow(id, FlowPlaces(event)) = {x \in Flowed(event) : ExtraIds[x] = id}
  <2>1. \A x \in Flowed(event) : ExtraIds[x] = procs[x[1]].files[x[2]][x[3]].extraId
    BY <1>1 DEF Flowed, ExtraIds, PayloadOf
  <2>  QED  BY <1>2, <2>1 DEF OfFlow
<1>  DEFINE Starts == FlowPlaces(EVENTID_FLOW_START)
            Stops  == FlowPlaces(EVENTID_FLOW_END)
<1>4. /\ Counts(flow_starts, Flowed(EVENTID_FLOW_START), ExtraIds)
      /\ Counts(flow_ends, Flowed(EVENTID_FLOW_END), ExtraIds)
  BY DEF IInv, AllTallied
<1>5. ASSUME NEW id
      PROVE  /\ Len(Ends(flow_starts, id)) = Cardinality(OfFlow(id, Starts))
             /\ Len(Ends(flow_ends, id)) = Cardinality(OfFlow(id, Stops))
  BY <1>3, <1>4 DEF Counts
<1>6. Sorted
  BY DEF Sorted
<1>7. ASSUME NEW id
      PROVE  Cardinality({k \in Line("arrow") : prv[k].line.flowId = id})
               = Min({Cardinality(OfFlow(id, Starts)), Cardinality(OfFlow(id, Stops))})
  <2>1. Cardinality(DrawnOf(id)) = Cardinality(ArrowsOf(id, c))
    BY DEF IInv, Written
  <2>2. Cardinality(ArrowsOf(id, c)) = NumPairs(id)
    BY <1>1, <1>6 DEF IInv, AllPaired
  <2>3. NumPairs(id) = Min({Len(Ends(flow_starts, id)), Len(Ends(flow_ends, id))})
    BY DEF NumPairs
  <2>  HIDE DEF Starts, Stops
  <2>4. NumPairs(id) = Min({Cardinality(OfFlow(id, Starts)), Cardinality(OfFlow(id, Stops))})
    BY <1>5, <2>3
  <2>  QED  BY <2>1, <2>2, <2>4 DEF DrawnOf
<1>8. unmatched = Cardinality(Starts) + Cardinality(Stops) - 2 * Cardinality(Line("arrow"))
  <2>1. /\ unmatched \in Nat
        /\ unmatched + 2 * Len(comms)
             = Cardinality(Slots(flow_starts)) + Cardinality(Slots(flow_ends))
    BY <1>6 DEF IInv, AllPaired
  <2>2. /\ Cardinality(Slots(flow_starts)) = Cardinality(Starts)
        /\ Cardinality(Slots(flow_ends)) = Cardinality(Stops)
    BY <1>2, <1>4 DEF Counts
  <2>3. Cardinality(Line("arrow")) = Len(comms) /\ Len(comms) \in Nat
    BY <1>1, LineFacts DEF IInv, Written
  <2>  HIDE DEF Starts, Stops
  <2>4. unmatched + 2 * Len(comms) = Cardinality(Starts) + Cardinality(Stops)
    BY <2>1, <2>2
  <2>5. Cardinality(Starts) \in Nat /\ Cardinality(Stops) \in Nat
    BY <1>2, <1>4, FS_CardinalityType DEF Counts, Starts, Stops
  <2>  QED  BY <2>1, <2>3, <2>4, <2>5
<1>  QED  BY <1>7, <1>8 DEF FlowsAccounted

\* Each flow id has as many arrows as it has pairs of ends, and the warning counts
\* the ends without an arrow.
THEOREM FlowsAreAccounted == Spec => []FlowsAccounted
  BY AccountsForFlows, Invariant, PTL

-----------------------------------------------------------------------------
(* Which payloads an arrow connects. *)

\* row is drawn for the payload at x, an end of flow id.
IsEndOf(x, event, id, row) ==
  /\ PayloadOf(x).eventId = event /\ PayloadOf(x).extraId = id
  /\ row.task = x[1] /\ row.thread = PayloadOf(x).channelId + 1
  /\ row.timestamp = TimeOf(x[1], PayloadOf(x).timestamp)

EndsFrom(f, event) ==
  \A id, row : HasEnd(f, id, row) => \E x \in Places : IsEndOf(x, event, id, row)

\* Every arrow goes from a start of its flow to an end of it.
Traced ==
  /\ EndsFrom(flow_starts, EVENTID_FLOW_START) /\ EndsFrom(flow_ends, EVENTID_FLOW_END)
  /\ \A k \in DOMAIN comms : /\ HasEnd(flow_starts, comms[k].flowId, comms[k].send)
                             /\ HasEnd(flow_ends, comms[k].flowId, comms[k].recv)

LEMMA UnstartedTraced == Unstarted => Traced
<1>1. DOMAIN NoFlows = {} /\ DOMAIN << >> = {}
  BY DEF NoFlows
<1>  QED  BY <1>1 DEF Unstarted, Traced, EndsFrom, HasEnd

LEMMA HasNewEnd ==
  ASSUME NEW T, NEW f, EndsIn(f, T), NEW id, NEW row,
         NEW k, NEW r, HasEnd(WithEnd(f, id, row), k, r)
  PROVE  HasEnd(f, k, r) \/ (k = id /\ r = row)
<1>1. k \in DOMAIN f \cup {id}
  BY DEF HasEnd, WithEnd
<1>2. CASE k # id
  BY <1>1, <1>2 DEF HasEnd, WithEnd
<1>3. CASE k = id
  <2>1. WithEnd(f, id, row)[id] = Append(Ends(f, id), row)
    BY DEF WithEnd
  <2>2. PICK i \in DOMAIN Append(Ends(f, id), row) : r = Append(Ends(f, id), row)[i]
    BY <1>3, <2>1 DEF HasEnd
  <2>3. Ends(f, id) \in Seq(T \cup {row})
    <3>1. ASSUME id \in DOMAIN f PROVE f[id] \in Seq(T \cup {row})
      <4>1. f[id] \in Seq(T)
        BY <3>1 DEF EndsIn
      <4>2. Len(f[id]) \in Nat /\ f[id] \in [1 .. Len(f[id]) -> T]
        BY <4>1, LenProperties
      <4>3. f[id] \in [1 .. Len(f[id]) -> T \cup {row}]
        BY <4>2
      <4>  QED  BY <4>2, <4>3, SeqDef
    <3>  QED  BY <3>1, EmptySeq DEF Ends
  <2>4. /\ Len(Ends(f, id)) \in Nat /\ DOMAIN Ends(f, id) = 1 .. Len(Ends(f, id))
        /\ DOMAIN Append(Ends(f, id), row) = 1 .. Len(Ends(f, id)) + 1
        /\ \A n \in 1 .. Len(Ends(f, id)) : Append(Ends(f, id), row)[n] = Ends(f, id)[n]
        /\ Append(Ends(f, id), row)[Len(Ends(f, id)) + 1] = row
    BY <2>3, LenProperties, AppendProperties
  <2>5. CASE i = Len(Ends(f, id)) + 1
    BY <1>3, <2>2, <2>4, <2>5
  <2>6. CASE i # Len(Ends(f, id)) + 1
    <3>1. i \in DOMAIN Ends(f, id) /\ r = Ends(f, id)[i]
      BY <2>2, <2>4, <2>6
    <3>2. id \in DOMAIN f
      <4>1. DOMAIN << >> = {}
        OBVIOUS
      <4>  QED  BY <3>1, <4>1 DEF Ends
    <3>  QED  BY <1>3, <3>1, <3>2 DEF HasEnd, Ends
  <2>  QED  BY <2>5, <2>6
<1>  QED  BY <1>2, <1>3

LEMMA KeepsTraced ==
  ASSUME Traced, procs' = procs, flow_starts' = flow_starts, flow_ends' = flow_ends,
         \A k \in DOMAIN comms' : /\ HasEnd(flow_starts, comms'[k].flowId, comms'[k].send)
                                  /\ HasEnd(flow_ends, comms'[k].flowId, comms'[k].recv)
  PROVE  Traced'
<1>1. /\ Places' = Places /\ \A x : PayloadOf(x)' = PayloadOf(x)
      /\ \A q, t : TimeOf(q, t)' = TimeOf(q, t)
  BY SameProcs
<1>2. EndsFrom(flow_starts, EVENTID_FLOW_START)' /\ EndsFrom(flow_ends, EVENTID_FLOW_END)'
  BY <1>1 DEF Traced, EndsFrom, HasEnd, IsEndOf
<1>3. (\A k \in DOMAIN comms : /\ HasEnd(flow_starts, comms[k].flowId, comms[k].send)
                               /\ HasEnd(flow_ends, comms[k].flowId, comms[k].recv))'
  BY DEF HasEnd
<1>  QED  BY <1>2, <1>3 DEF Traced

LEMMA FlowTraced ==
  ASSUME IInv, Traced, pc = "merge", NEW e \in Tops(merger), Flow(e),
         UNCHANGED << procs, p, paired, written >>
  PROVE  Traced'
<1>  DEFINE payload == PayloadAt(Files, merger, e)
            x == NextPlace(e)
            row == RowOf(payload)
            id == payload.extraId
            isStart == payload.eventId = EVENTID_FLOW_START
<1>1. /\ procs' = procs /\ comms' = comms /\ IsFlow(payload)
      /\ flow_starts' = IF isStart THEN WithEnd(flow_starts, id, row) ELSE flow_starts
      /\ flow_ends' = IF isStart THEN flow_ends ELSE WithEnd(flow_ends, id, row)
  BY DEF Flow, paired
<1>2. comms' = << >> /\ DOMAIN << >> = {}
  BY <1>1 DEF IInv, Control, Collecting
<1>3. /\ x \in Places /\ payload = PayloadOf(x) /\ x[1] = p
  BY TopFacts DEF NextPlace
<1>4. /\ row.task = p /\ row.thread = payload.channelId + 1
      /\ row.timestamp = TimeOf(p, payload.timestamp)
  BY RowFacts
<1>5. IsEndOf(x, payload.eventId, id, row)
  BY <1>3, <1>4 DEF IsEndOf
<1>6. /\ Places' = Places /\ \A y : PayloadOf(y)' = PayloadOf(y)
      /\ \A q, t : TimeOf(q, t)' = TimeOf(q, t)
  BY <1>1, SameProcs
<1>7. EndsIn(flow_starts, TimelineRow) /\ EndsIn(flow_ends, TimelineRow)
  BY DEF IInv, EndsOnTimeline
<1>8. EndsFrom(flow_starts, EVENTID_FLOW_START) /\ EndsFrom(flow_ends, EVENTID_FLOW_END)
  BY DEF Traced
<1>9. isStart \/ payload.eventId = EVENTID_FLOW_END
  BY <1>1 DEF IsFlow
<1>10. ASSUME NEW f, EndsIn(f, TimelineRow), EndsFrom(f, payload.eventId)
       PROVE  EndsFrom(WithEnd(f, id, row), payload.eventId)
  <2>  HIDE DEF payload, x, row, id
  <2>  SUFFICES ASSUME NEW k, NEW r, HasEnd(WithEnd(f, id, row), k, r)
                PROVE  \E y \in Places : IsEndOf(y, payload.eventId, k, r)
    BY DEF EndsFrom
  <2>1. HasEnd(f, k, r) \/ (k = id /\ r = row)
    BY <1>10, HasNewEnd
  <2>  QED  BY <1>3, <1>5, <1>10, <2>1 DEF EndsFrom
<1>  HIDE DEF payload, x, row, id
<1>11. /\ EndsFrom(flow_starts', EVENTID_FLOW_START)
       /\ EndsFrom(flow_ends', EVENTID_FLOW_END)
  <2>1. CASE isStart
    BY <1>1, <1>7, <1>8, <1>10, <2>1
  <2>2. CASE ~ isStart
    BY <1>1, <1>7, <1>8, <1>9, <1>10, <2>2
  <2>  QED  BY <2>1, <2>2
<1>12. EndsFrom(flow_starts, EVENTID_FLOW_START)' /\ EndsFrom(flow_ends, EVENTID_FLOW_END)'
  BY <1>6, <1>11 DEF EndsFrom, HasEnd, IsEndOf
<1>  QED  BY <1>2, <1>12 DEF Traced

LEMMA NextTraced == ASSUME IInv, Traced, [Next]_vars PROVE Traced'
<1>1. \A k \in DOMAIN comms : /\ HasEnd(flow_starts, comms[k].flowId, comms[k].send)
                              /\ HasEnd(flow_ends, comms[k].flowId, comms[k].recv)
  BY DEF Traced
<1>2. ASSUME NEW e \in Tops(merger), pc = "merge", Flow(e),
             UNCHANGED << procs, p, paired, written >>
      PROVE  Traced'
  BY <1>2, FlowTraced
<1>3. CASE SortAndPair
  <2>1. PICK arrows \in Pairings : \E order \in Sortings(Pairs, SendTimes(arrows)) :
          comms' = [k \in DOMAIN order |-> arrows[order[k][1]][order[k][2]]]
    BY <1>3 DEF SortAndPair
  <2>2. PICK order \in Sortings(Pairs, SendTimes(arrows)) :
          comms' = [k \in DOMAIN order |-> arrows[order[k][1]][order[k][2]]]
    BY <2>1
  <2>3. /\ procs' = procs /\ flow_starts' = flow_starts /\ flow_ends' = flow_ends
        /\ pc = "proc"
    BY <1>3 DEF SortAndPair
  <2>4. /\ EndsIn(flow_starts, TimelineRow) /\ EndsIn(flow_ends, TimelineRow)
        /\ \A row \in TimelineRow : row.timestamp \in Nat
    BY TimelineTimes DEF IInv, EndsOnTimeline
  <2>5. IsFiniteSet(Pairs)
    <3>1. IsFiniteSet(Slots(flow_starts))
      BY <2>3 DEF IInv, Control, AllTallied, Counts
    <3>2. \A id : NumPairs(id) <= Len(Ends(flow_starts, id))
      <4>1. \A id : /\ NumPairs(id) \in Nat
                    /\ Len(Ends(flow_starts, id)) \in Nat /\ Len(Ends(flow_ends, id)) \in Nat
                    /\ NumPairs(id) = IF Len(Ends(flow_starts, id)) <= Len(Ends(flow_ends, id))
                                      THEN Len(Ends(flow_starts, id))
                                      ELSE Len(Ends(flow_ends, id))
        BY <2>4, NumPairsFacts
      <4>  QED  BY <4>1
    <3>  QED  BY <2>4, <3>1, <3>2, RestFacts
  <2>6. AreArrows([k \in DOMAIN order |-> arrows[order[k][1]][order[k][2]]], TimelineRow)
    BY <2>4, <2>5, ArrowsFacts
  <2>7. AreArrows(comms', TimelineRow)
    BY <2>2, <2>6
  <2>8. \A k \in DOMAIN comms' : /\ HasEnd(flow_starts, comms'[k].flowId, comms'[k].send)
                                 /\ HasEnd(flow_ends, comms'[k].flowId, comms'[k].recv)
    BY <2>7 DEF AreArrows
  <2>  QED  BY <2>3, <2>8, KeepsTraced
<1>4. CASE MergeStep
  <2>1. PICK e \in Tops(merger) : Flow(e) \/ SetOrReset(e) \/ NoColor(e)
    BY <1>4 DEF MergeStep
  <2>2. pc = "merge" /\ UNCHANGED << procs, p, paired, written >>
    BY <1>4 DEF MergeStep
  <2>3. CASE Flow(e)
    BY <1>2, <2>2, <2>3
  <2>4. CASE SetOrReset(e) \/ NoColor(e)
    <3>1. /\ procs' = procs /\ flow_starts' = flow_starts /\ flow_ends' = flow_ends
          /\ comms' = comms
      BY <2>2, <2>4 DEF SetOrReset, NoColor, collected, paired
    <3>  QED  BY <1>1, <3>1, KeepsTraced
  <2>  QED  BY <2>1, <2>3, <2>4
<1>5. CASE \/ Open \/ OpenFails \/ BeginProc \/ EndProc \/ WriteComm \/ WriteRecord
           \/ WriteFails \/ ClosePrv \/ WriteRow \/ RowFails \/ Finished
           \/ UNCHANGED vars
  <2>1. /\ procs' = procs /\ flow_starts' = flow_starts /\ flow_ends' = flow_ends
        /\ comms' = comms
    BY <1>5 DEF Open, OpenFails, Fails, BeginProc, EndProc, WriteComm, WriteRecord, Write,
                WriteFails, ClosePrv, WriteRow, RowFails, Finished, vars, collected, paired
  <2>  QED  BY <1>1, <2>1, KeepsTraced
<1>  QED  BY <1>3, <1>4, <1>5 DEF Next

-----------------------------------------------------------------------------
(* The example: what its two processes record. *)

SendPlace == {"sync", "start", "set", "flow", "write", "reset", "end", "over"}
RecvPlace == {"sync", "start", "read", "set", "flow", "reset", "end", "over"}

AppTypes ==
  /\ sender \in {1, 2}
  /\ place \in [{1, 2} -> SendPlace \cup RecvPlace]
  /\ place[sender] \in SendPlace /\ place[receiver] \in RecvPlace
  /\ msg \in [{1, 2} -> Nat]
  /\ data_pipe \in Seq(Nat)
  /\ clock \in 0 .. MaxTime
  /\ OwnSeq(procs) /\ DOMAIN procs = {1, 2}

FlowEvent(q) == IF q = sender THEN EVENTID_FLOW_START ELSE EVENTID_FLOW_END

\* Of each message the set, the flow payload and the reset are recorded.
IsPart(x, event, i, j) ==
  /\ x.channelId = 0
  /\ x.eventId = IF j = 1 THEN 0 ELSE IF j = 2 THEN event ELSE EVENTID_RESET
  /\ j = 2 => x.extraId = i

HasMessages(file, event) ==
  /\ IsTrace(file)
  /\ \A i \in Nat : \A j \in 1 .. 3 :
       3 * i + j \in DOMAIN file => IsPart(file[3 * i + j], event, i, j)

\* A proc with one file, recorded since its START.
IsRecorded(proc, event, now) ==
  /\ proc = [files |-> << proc.files[1] >>, num_channels |-> 1, num_labels |-> 1,
             start_time |-> proc.start_time, end_time |-> proc.end_time]
  /\ proc.start_time \in 0 .. UInt64Max /\ proc.end_time \in 0 .. UInt64Max
  /\ HasMessages(proc.files[1], event)
  /\ \A n \in DOMAIN proc.files[1] : /\ proc.start_time <= proc.files[1][n].timestamp
                                     /\ proc.files[1][n].timestamp <= now

FileOf(q) == procs[q].files[1]

Before == {"sync", "start"}
Behind == {"end", "over"}

\* How many payloads q has recorded.
NumRecorded(q) ==
  3 * msg[q] + IF place[q] = "flow" THEN 1
               ELSE IF place[q] \in {"write", "reset"} THEN 2 ELSE 0

ProcInv(q) ==
  /\ IsRecorded(procs[q], FlowEvent(q), clock)
  /\ Len(FileOf(q)) = NumRecorded(q)
  /\ IF place[q] \in Before THEN procs[q].start_time = UInt64Max /\ msg[q] = 0
                            ELSE procs[q].start_time <= clock
  /\ IF place[q] \in Behind THEN msg[q] = NMSGS ELSE msg[q] < NMSGS

\* How many messages q has written, or read.
NumPassed(q) == msg[q] + IF place[q] = "reset" THEN 1 ELSE 0

\* The pipe holds those that are written and not yet read, in their order.
PipeInv ==
  /\ Len(data_pipe) = NumPassed(sender) - NumPassed(receiver)
  /\ \A k \in DOMAIN data_pipe : data_pipe[k] = NumPassed(receiver) + k - 1
  /\ place[receiver] \in {"set", "flow"} => data_pipe # << >>

\* No message is received before it is sent.
Causal ==
  \A i \in Nat : 3 * i + 2 \in DOMAIN FileOf(receiver) =>
    /\ 3 * i + 2 \in DOMAIN FileOf(sender)
    /\ FileOf(sender)[3 * i + 2].timestamp <= FileOf(receiver)[3 * i + 2].timestamp

AppInv ==
  /\ AppTypes
  /\ \A q \in {1, 2} : ProcInv(q)
  /\ PipeInv /\ Causal

\* The writer begins when both processes are through.
InTurn == IF pc = "open" THEN Unstarted ELSE AppOver

LEMMA FlowConstants ==
  /\ NMSGS \in Nat /\ NMSGS # 0 /\ MaxTime \in Nat /\ UInt64Max \in Nat
  /\ MaxTime < UInt64Max
  /\ UInt16Max \in Nat /\ UInt16Max >= 3
  BY FlowAssumption, ProcAssumption, IdAssumption

LEMMA TheTwo ==
  ASSUME AppTypes
  PROVE  /\ sender \in {1, 2} /\ receiver \in {1, 2} /\ sender # receiver
         /\ \A q \in {1, 2} : q = sender \/ q = receiver
         /\ \A q \in {1, 2} : q # sender => q = receiver
  BY DEF AppTypes, receiver

LEMMA SameDomainOwn ==
  ASSUME NEW s, OwnSeq(s), NEW t, DOMAIN t = DOMAIN s, t = [i \in DOMAIN t |-> t[i]]
  PROVE  OwnSeq(t)
<1>1. Len(s) \in Nat /\ DOMAIN s = 1 .. Len(s)
  BY LenProperties DEF OwnSeq
<1>  DEFINE T == {t[i] : i \in DOMAIN t}
<1>2. DOMAIN t = 1 .. Len(s) /\ \A i \in DOMAIN t : t[i] \in T
  BY <1>1
<1>3. t \in Seq(T)
  <2>  HIDE DEF T
  <2>1. [i \in DOMAIN t |-> t[i]] \in [1 .. Len(s) -> T]
    BY <1>2
  <2>2. t \in [1 .. Len(s) -> T]
    BY <2>1
  <2>  QED  BY <1>1, <2>2, SeqDef
<1>  QED  BY <1>3 DEF OwnSeq

LEMMA AppendPart ==
  ASSUME NEW file, NEW event, HasMessages(file, event), NEW i \in Nat, NEW j \in 1 .. 3,
         NEW m, m = 3 * i + j, Len(file) + 1 = m,
         NEW x, IsPart(x, event, i, j), x.timestamp \in 0 .. UInt64Max,
         \A n \in DOMAIN file : file[n].timestamp <= x.timestamp,
         NEW g, g = Append(file, x)
  PROVE  /\ HasMessages(g, event) /\ Len(g) = m /\ DOMAIN g = DOMAIN file \cup {m}
         /\ g[m] = x /\ \A n \in DOMAIN file : g[n] = file[n]
<1>1. IsTrace(file) /\ OwnSeq(file)
  BY DEF HasMessages, IsTrace, OwnSeq
<1>2. /\ OwnSeq(g) /\ Len(g) = Len(file) + 1
      /\ Len(file) \in Nat /\ DOMAIN file = 1 .. Len(file)
      /\ DOMAIN g = DOMAIN file \cup {Len(file) + 1} /\ Len(file) + 1 \notin DOMAIN file
      /\ g[Len(file) + 1] = x /\ \A n \in DOMAIN file : g[n] = file[n]
  BY <1>1, OwnAppend
<1>3. m = Len(file) + 1 /\ m \in Nat
  OBVIOUS
<1>4. /\ Len(g) = m /\ DOMAIN g = DOMAIN file \cup {m} /\ m \notin DOMAIN file
      /\ g[m] = x /\ \A n \in DOMAIN file : g[n] = file[n] /\ n < m
  BY <1>2, <1>3
<1>5. IsTrace(g)
  <2>1. \A k \in DOMAIN g : g[k].channelId \in Nat /\ g[k].timestamp \in 0 .. UInt64Max
    BY <1>1, <1>4 DEF IsTrace, IsPart
  <2>2. ASSUME NEW a \in DOMAIN g, NEW b \in DOMAIN g, a < b
        PROVE  g[a].timestamp <= g[b].timestamp
    <3>1. a \in DOMAIN file
      BY <1>2, <1>3, <1>4, <2>2
    <3>2. CASE b \in DOMAIN file
      BY <1>1, <1>4, <2>2, <3>1, <3>2 DEF IsTrace, InTimeOrder
    <3>3. CASE b = m
      BY <1>4, <3>1, <3>3
    <3>  QED  BY <1>4, <3>2, <3>3
  <2>  QED  BY <1>2, <2>1, <2>2 DEF IsTrace, InTimeOrder, OwnSeq
<1>6. ASSUME NEW a \in Nat, NEW b \in 1 .. 3, 3 * a + b \in DOMAIN g
      PROVE  IsPart(g[3 * a + b], event, a, b)
  <2>1. CASE 3 * a + b \in DOMAIN file
    BY <1>4, <2>1 DEF HasMessages
  <2>2. CASE 3 * a + b = m
    <3>1. a = i /\ b = j
      BY <2>2
    <3>  QED  BY <1>4, <2>2, <3>1
  <2>  QED  BY <1>4, <1>6, <2>1, <2>2
<1>7. HasMessages(g, event)
  BY <1>5, <1>6 DEF HasMessages
<1>  QED  BY <1>4, <1>7

\* What the two have recorded is what a loader hands over.
LEMMA RecordedProcs ==
  ASSUME AppInv
  PROVE  IsProcs(procs)
<1>1. OwnSeq(procs) /\ DOMAIN procs = {1, 2}
  BY DEF AppInv, AppTypes
<1>2. ASSUME NEW q \in {1, 2} PROVE IsProc(procs[q])
  <2>1. IsRecorded(procs[q], FlowEvent(q), clock)
    BY DEF AppInv, ProcInv
  <2>  DEFINE f == procs[q].files[1]
  <2>2. procs[q] = [files |-> << f >>, num_channels |-> 1, num_labels |-> 1,
                    start_time |-> procs[q].start_time, end_time |-> procs[q].end_time]
    BY <2>1 DEF IsRecorded
  <2>3. IsTrace(f) /\ procs[q].start_time \in 0 .. UInt64Max
                   /\ procs[q].end_time \in 0 .. UInt64Max
    BY <2>1 DEF IsRecorded, HasMessages
  <2>  HIDE DEF f
  <2>4. procs[q].files = << f >> /\ procs[q].num_channels = 1 /\ procs[q].num_labels = 1
    BY <2>2
  <2>5. \A i \in DOMAIN procs[q].files : IsTrace(procs[q].files[i])
    BY <2>3, <2>4
  <2>  QED  BY <2>3, <2>4, <2>5 DEF IsProc
<1>  QED  BY <1>1, <1>2 DEF IsProcs

-----------------------------------------------------------------------------
(* The steps of the example. *)

\* Who goes from one place to another, and what that leaves alone.
LEMMA StepTypes ==
  ASSUME AppTypes, NEW q \in {1, 2}, NEW from, NEW to, Step(q, from, to), sender' = sender,
         q = sender => to \in SendPlace, q = receiver => to \in RecvPlace,
         msg' \in [{1, 2} -> Nat], data_pipe' \in Seq(Nat), clock' \in 0 .. MaxTime,
         OwnSeq(procs'), DOMAIN procs' = {1, 2}
  PROVE  AppTypes'
<1>1. /\ place' = [place EXCEPT ![q] = to]
      /\ place \in [{1, 2} -> SendPlace \cup RecvPlace]
      /\ place[sender] \in SendPlace /\ place[receiver] \in RecvPlace
      /\ sender \in {1, 2} /\ receiver \in {1, 2}
  BY TheTwo DEF AppTypes, Step
<1>2. to \in SendPlace \cup RecvPlace
  BY TheTwo
<1>3. receiver' = receiver
  BY DEF receiver
<1>4. /\ place'[q] = to /\ \A o \in {1, 2} : o # q => place'[o] = place[o]
      /\ place' \in [{1, 2} -> SendPlace \cup RecvPlace]
  BY <1>1, <1>2
<1>5. place'[sender] \in SendPlace /\ place'[receiver] \in RecvPlace
  BY <1>1, <1>4
<1>  QED  BY <1>1, <1>3, <1>4, <1>5 DEF AppTypes, SendPlace, RecvPlace

LEMMA StaysRecorded ==
  ASSUME NEW proc, NEW event, NEW now \in Nat, NEW later \in Nat, now <= later,
         IsRecorded(proc, event, now)
  PROVE  IsRecorded(proc, event, later)
<1>1. \A n \in DOMAIN proc.files[1] : proc.files[1][n].timestamp \in Nat
  BY FlowConstants DEF IsRecorded, HasMessages, IsTrace
<1>2. \A n \in DOMAIN proc.files[1] : proc.files[1][n].timestamp <= later
  BY <1>1 DEF IsRecorded
<1>  QED  BY <1>2 DEF IsRecorded

\* A step of one process leaves the other as it was.
LEMMA OtherStays ==
  ASSUME AppInv, NEW o \in {1, 2}, sender' = sender, procs'[o] = procs[o],
         place'[o] = place[o], msg'[o] = msg[o], clock' \in Nat, clock <= clock'
  PROVE  ProcInv(o)'
<1>1. ProcInv(o) /\ clock \in Nat
  BY FlowConstants DEF AppInv, AppTypes
<1>2. FlowEvent(o)' = FlowEvent(o)
  BY DEF FlowEvent
<1>3. IsRecorded(procs[o], FlowEvent(o), clock')
  BY <1>1, StaysRecorded DEF ProcInv
<1>4. IsRecorded(procs[o], FlowEvent(o), clock)'
  BY <1>2, <1>3 DEF IsRecorded
<1>5. FileOf(o)' = FileOf(o) /\ NumRecorded(o)' = NumRecorded(o)
  BY DEF FileOf, NumRecorded
<1>6. procs[o].start_time \in Nat
  BY <1>1, FlowConstants DEF ProcInv, IsRecorded
<1>7. /\ Len(FileOf(o)) = NumRecorded(o)
      /\ IF place[o] \in Before THEN procs[o].start_time = UInt64Max /\ msg[o] = 0
                                ELSE procs[o].start_time <= clock'
      /\ IF place[o] \in Behind THEN msg[o] = NMSGS ELSE msg[o] < NMSGS
  BY <1>1, <1>6 DEF ProcInv
<1>  QED  BY <1>4, <1>5, <1>7 DEF ProcInv

\* The times the two processes may see.
LEMMA NowFacts ==
  ASSUME AppTypes, NEW t \in Now
  PROVE  t \in 0 .. MaxTime /\ t \in Nat /\ clock <= t /\ t \in 0 .. UInt64Max
  BY FlowConstants DEF AppTypes, Now

\* A marker call adds one payload to the file of its process.
LEMMA MarkFacts ==
  ASSUME AppInv, NEW q \in {1, 2}, place[q] \notin Before, NEW t \in Now, NEW x, Mark(q, x, t),
         x.timestamp = t, NEW j \in 1 .. 3, NumRecorded(q) = 3 * msg[q] + j - 1,
         IsPart(x, FlowEvent(q), msg[q], j)
  PROVE  LET m == 3 * msg[q] + j
             g == procs'[q].files[1]
         IN  /\ OwnSeq(procs') /\ DOMAIN procs' = {1, 2}
             /\ \A o \in {1, 2} : o # q => procs'[o] = procs[o]
             /\ IsRecorded(procs'[q], FlowEvent(q), t) /\ Len(g) = m
             /\ procs'[q].start_time = procs[q].start_time /\ procs'[q].start_time <= t
             /\ DOMAIN g = DOMAIN FileOf(q) \cup {m}
             /\ g[m] = x /\ \A n \in DOMAIN FileOf(q) : g[n] = FileOf(q)[n]
<1>  DEFINE m == 3 * msg[q] + j
            f == procs[q].files[1]
            g == Append(f, x)
<1>1. /\ OwnSeq(procs) /\ DOMAIN procs = {1, 2} /\ msg[q] \in Nat /\ clock \in Nat
      /\ ProcInv(q) /\ IsRecorded(procs[q], FlowEvent(q), clock)
      /\ procs[q].start_time <= clock
  BY FlowConstants DEF AppInv, AppTypes, ProcInv
<1>2. t \in Nat /\ clock <= t /\ t \in 0 .. UInt64Max
  BY NowFacts DEF AppInv
<1>3. /\ HasMessages(f, FlowEvent(q)) /\ Len(f) = 3 * msg[q] + j - 1
      /\ procs[q].start_time \in Nat
      /\ \A n \in DOMAIN f : /\ procs[q].start_time <= f[n].timestamp
                             /\ f[n].timestamp <= t
  <2>1. HasMessages(f, FlowEvent(q)) /\ Len(f) = 3 * msg[q] + j - 1
    BY <1>1 DEF ProcInv, IsRecorded, FileOf
  <2>2. IsRecorded(procs[q], FlowEvent(q), t)
    BY <1>1, <1>2, StaysRecorded
  <2>  QED  BY <2>1, <2>2, FlowConstants DEF IsRecorded
<1>4. /\ procs[q] = [files |-> << f >>, num_channels |-> 1, num_labels |-> 1,
                     start_time |-> procs[q].start_time, end_time |-> procs[q].end_time]
      /\ procs[q].start_time \in 0 .. UInt64Max /\ procs[q].end_time \in 0 .. UInt64Max
  BY <1>1 DEF IsRecorded
<1>  HIDE DEF f
<1>5. /\ HasMessages(g, FlowEvent(q)) /\ Len(g) = m
      /\ DOMAIN g = DOMAIN f \cup {m}
      /\ g[m] = x /\ \A n \in DOMAIN f : g[n] = f[n]
  <2>1. /\ x.timestamp \in 0 .. UInt64Max
        /\ \A n \in DOMAIN f : f[n].timestamp <= x.timestamp
    BY <1>2, <1>3
  <2>2. m = 3 * msg[q] + j /\ Len(f) + 1 = m /\ msg[q] \in Nat
    BY <1>1, <1>3
  <2>  HIDE DEF m
  <2>3. g = Append(f, x)
    OBVIOUS
  <2>  HIDE DEF g
  <2>  DEFINE event == FlowEvent(q)
              i == msg[q]
  <2>4. /\ HasMessages(f, event) /\ i \in Nat /\ j \in 1 .. 3
        /\ m = 3 * i + j /\ Len(f) + 1 = m
        /\ IsPart(x, event, i, j)
        /\ x.timestamp \in 0 .. UInt64Max
        /\ \A n \in DOMAIN f : f[n].timestamp <= x.timestamp
    BY <1>3, <2>1, <2>2
  <2>  HIDE DEF event, i
  <2>5. HasMessages(g, event)
    BY ONLY <2>3, <2>4, AppendPart
  <2>6. Len(g) = m
    BY ONLY <2>3, <2>4, AppendPart
  <2>7. DOMAIN g = DOMAIN f \cup {m}
    BY ONLY <2>3, <2>4, AppendPart
  <2>8. g[m] = x
    BY ONLY <2>3, <2>4, AppendPart
  <2>9. \A n \in DOMAIN f : g[n] = f[n]
    BY ONLY <2>3, <2>4, AppendPart
  <2>  QED  BY <2>5, <2>6, <2>7, <2>8, <2>9 DEF event
<1>6. procs' = [procs EXCEPT ![q] = [procs[q] EXCEPT !.files = [procs[q].files EXCEPT ![1] = g]]]
  BY DEF Mark, f
<1>  HIDE DEF g, m
<1>7. procs[q].files = << f >>
  BY <1>4
<1>8. [procs[q].files EXCEPT ![1] = g] = << g >>
  BY <1>7
<1>9. procs'[q] = [procs[q] EXCEPT !.files = << g >>]
  BY <1>1, <1>6, <1>8
<1>10. /\ procs'[q] = [files |-> << g >>, num_channels |-> 1, num_labels |-> 1,
                       start_time |-> procs[q].start_time, end_time |-> procs[q].end_time]
       /\ procs'[q].files[1] = g
       /\ procs'[q].start_time = procs[q].start_time
       /\ procs'[q].end_time = procs[q].end_time
  BY <1>4, <1>9
<1>11. \A o \in {1, 2} : o # q => procs'[o] = procs[o]
  BY <1>1, <1>6
<1>12. DOMAIN procs' = {1, 2}
  BY <1>1, <1>6
<1>13. OwnSeq(procs')
  <2>1. procs' = [o \in DOMAIN procs' |-> procs'[o]]
    BY <1>6
  <2>  QED  BY <1>1, <1>12, <2>1, SameDomainOwn
<1>14. \A n \in DOMAIN g : procs[q].start_time <= g[n].timestamp /\ g[n].timestamp <= t
  BY <1>1, <1>2, <1>3, <1>5
<1>15. IsRecorded(procs'[q], FlowEvent(q), t)
  BY <1>4, <1>5, <1>10, <1>14 DEF IsRecorded
<1>16. procs[q].start_time <= t
  BY <1>1, <1>2, <1>3
<1>  QED  BY <1>5, <1>10, <1>11, <1>12, <1>13, <1>15, <1>16 DEF m, f, FileOf

\* START and END write an anchor.
LEMMA AnchorFacts ==
  ASSUME AppInv, NEW q \in {1, 2}, NEW t \in Now,
         \/ procs' = [procs EXCEPT ![q].start_time = t] /\ place[q] \in Before
         \/ procs' = [procs EXCEPT ![q].end_time = t] /\ place[q] \notin Before
  PROVE  /\ OwnSeq(procs') /\ DOMAIN procs' = {1, 2}
         /\ \A o \in {1, 2} : o # q => procs'[o] = procs[o]
         /\ \A o \in {1, 2} : procs'[o].files[1] = FileOf(o)
         /\ IsRecorded(procs'[q], FlowEvent(q), t)
         /\ procs'[q].start_time <= t
<1>  DEFINE f == procs[q].files[1]
<1>1. /\ OwnSeq(procs) /\ DOMAIN procs = {1, 2} /\ msg[q] \in Nat /\ clock \in Nat
      /\ ProcInv(q) /\ IsRecorded(procs[q], FlowEvent(q), clock)
  BY FlowConstants DEF AppInv, AppTypes, ProcInv
<1>2. t \in Nat /\ clock <= t /\ t \in 0 .. UInt64Max
  BY NowFacts DEF AppInv
<1>3. /\ procs[q] = [files |-> << f >>, num_channels |-> 1, num_labels |-> 1,
                     start_time |-> procs[q].start_time, end_time |-> procs[q].end_time]
      /\ procs[q].start_time \in 0 .. UInt64Max /\ procs[q].end_time \in 0 .. UInt64Max
      /\ HasMessages(f, FlowEvent(q))
      /\ procs[q].start_time \in Nat
  BY <1>1, FlowConstants DEF IsRecorded
<1>4. IsRecorded(procs[q], FlowEvent(q), t)
  BY <1>1, <1>2, StaysRecorded
<1>5. DOMAIN procs' = {1, 2} /\ \A o \in {1, 2} : o # q => procs'[o] = procs[o]
  BY <1>1
<1>6. OwnSeq(procs')
  <2>1. procs' = [o \in DOMAIN procs' |-> procs'[o]]
    OBVIOUS
  <2>  QED  BY <1>1, <1>5, <2>1, SameDomainOwn
<1>7. CASE procs' = [procs EXCEPT ![q].start_time = t] /\ place[q] \in Before
  <2>1. DOMAIN f = {}
    <3>1. Len(f) = 0
      <4>1. msg[q] = 0 /\ place[q] \in {"sync", "start"}
        BY <1>1, <1>7 DEF ProcInv, Before
      <4>2. NumRecorded(q) = 0
        BY <4>1 DEF NumRecorded
      <4>  QED  BY <1>1, <4>2 DEF ProcInv, FileOf
    <3>2. DOMAIN f = 1 .. Len(f)
      BY <1>3, LenProperties DEF HasMessages, IsTrace
    <3>  QED  BY <3>1, <3>2
  <2>  HIDE DEF f
  <2>2. procs'[q] = [files |-> << f >>, num_channels |-> 1, num_labels |-> 1,
                     start_time |-> t, end_time |-> procs[q].end_time]
    BY <1>1, <1>3, <1>7
  <2>3. procs'[q].files[1] = f /\ procs'[q].start_time = t
        /\ procs'[q].end_time = procs[q].end_time
    BY <2>2
  <2>4. IsRecorded(procs'[q], FlowEvent(q), t)
    BY <1>2, <1>3, <2>1, <2>2, <2>3 DEF IsRecorded
  <2>5. \A o \in {1, 2} : procs'[o].files[1] = FileOf(o)
    BY <1>5, <2>3 DEF FileOf, f
  <2>  QED  BY <1>2, <1>5, <1>6, <2>3, <2>4, <2>5
<1>8. CASE procs' = [procs EXCEPT ![q].end_time = t] /\ place[q] \notin Before
  <2>1. /\ procs[q].start_time <= clock
        /\ \A n \in DOMAIN f : procs[q].start_time <= f[n].timestamp /\ f[n].timestamp <= t
    BY <1>1, <1>4, <1>8 DEF ProcInv, IsRecorded
  <2>  HIDE DEF f
  <2>2. procs'[q] = [files |-> << f >>, num_channels |-> 1, num_labels |-> 1,
                     start_time |-> procs[q].start_time, end_time |-> t]
    BY <1>1, <1>3, <1>8
  <2>3. procs'[q].files[1] = f /\ procs'[q].start_time = procs[q].start_time
        /\ procs'[q].end_time = t
    BY <2>2
  <2>4. IsRecorded(procs'[q], FlowEvent(q), t)
    BY <1>2, <1>3, <2>1, <2>2, <2>3 DEF IsRecorded
  <2>5. \A o \in {1, 2} : procs'[o].files[1] = FileOf(o)
    BY <1>5, <2>3 DEF FileOf, f
  <2>6. procs[q].start_time <= t
    BY <1>1, <1>2, <1>3, <2>1
  <2>  QED  BY <1>5, <1>6, <2>3, <2>4, <2>5, <2>6
<1>  QED  BY <1>7, <1>8

\* What q has recorded behind a marker call, if its program has gone on rightly.
LEMMA MarkKeeps ==
  ASSUME AppInv, NEW q \in {1, 2}, place[q] \notin Before \cup Behind,
         NEW t \in Now, NEW x, Mark(q, x, t), x.timestamp = t,
         NEW j \in 1 .. 3, NumRecorded(q) = 3 * msg[q] + j - 1,
         IsPart(x, FlowEvent(q), msg[q], j),
         sender' = sender, place'[q] \notin Before,
         NumRecorded(q)' = 3 * msg[q] + j,
         IF place'[q] \in Behind THEN msg'[q] = NMSGS ELSE msg'[q] < NMSGS,
         \A o \in {1, 2} : o # q => place'[o] = place[o] /\ msg'[o] = msg[o]
  PROVE  \A o \in {1, 2} : ProcInv(o)'
<1>1. /\ IsRecorded(procs'[q], FlowEvent(q), t) /\ Len(procs'[q].files[1]) = 3 * msg[q] + j
      /\ procs'[q].start_time <= t
      /\ \A o \in {1, 2} : o # q => procs'[o] = procs[o]
  BY MarkFacts
<1>2. clock' = t /\ t \in Nat /\ clock <= t
  BY NowFacts DEF AppInv, Mark
<1>3. ProcInv(q)'
  <2>1. FlowEvent(q)' = FlowEvent(q) /\ FileOf(q)' = procs'[q].files[1]
    BY DEF FlowEvent, FileOf
  <2>2. IsRecorded(procs[q], FlowEvent(q), clock)'
    BY <1>1, <1>2, <2>1 DEF IsRecorded
  <2>3. Len(FileOf(q))' = NumRecorded(q)'
    BY <1>1, <2>1
  <2>  QED  BY <1>1, <1>2, <2>2, <2>3 DEF ProcInv
<1>4. ASSUME NEW o \in {1, 2}, o # q PROVE ProcInv(o)'
  BY <1>1, <1>2, <1>4, OtherStays
<1>  QED  BY <1>3, <1>4

\* A step that records nothing.
LEMMA SilentKeeps ==
  ASSUME AppInv, NEW q \in {1, 2}, place[q] \notin Behind, Silently, UNCHANGED msg,
         sender' = sender, NumRecorded(q)' = NumRecorded(q), place'[q] \notin Behind,
         place'[q] \in Before <=> place[q] \in Before,
         \A o \in {1, 2} : o # q => place'[o] = place[o]
  PROVE  \A o \in {1, 2} : ProcInv(o)'
<1>1. procs' = procs /\ clock' = clock /\ msg' = msg /\ clock \in Nat /\ clock <= clock'
  BY FlowConstants DEF Silently, AppInv, AppTypes
<1>2. ProcInv(q)'
  <2>1. /\ FlowEvent(q)' = FlowEvent(q) /\ FileOf(q)' = FileOf(q)
        /\ ProcInv(q)
    BY <1>1 DEF FlowEvent, FileOf, AppInv
  <2>2. IsRecorded(procs[q], FlowEvent(q), clock)'
    BY <1>1, <2>1 DEF IsRecorded, ProcInv
  <2>  QED  BY <1>1, <2>1, <2>2 DEF ProcInv
<1>3. ASSUME NEW o \in {1, 2}, o # q PROVE ProcInv(o)'
  BY <1>1, <1>3, OtherStays
<1>  QED  BY <1>2, <1>3

\* START and END.
LEMMA AnchorKeeps ==
  ASSUME AppInv, NEW q \in {1, 2}, NEW t \in Now, clock' = t, UNCHANGED msg, sender' = sender,
         \/ /\ procs' = [procs EXCEPT ![q].start_time = t]
            /\ place[q] \in Before /\ place'[q] \notin Before \cup Behind
         \/ /\ procs' = [procs EXCEPT ![q].end_time = t]
            /\ place[q] \in Behind /\ place'[q] \in Behind
         , NumRecorded(q)' = NumRecorded(q),
         \A o \in {1, 2} : o # q => place'[o] = place[o]
  PROVE  \A o \in {1, 2} : ProcInv(o)'
<1>1. t \in Nat /\ clock <= t /\ ProcInv(q)
  BY NowFacts DEF AppInv
<1>2. Before \cap Behind = {}
  BY DEF Before, Behind
<1>3. /\ \A o \in {1, 2} : o # q => procs'[o] = procs[o]
      /\ \A o \in {1, 2} : procs'[o].files[1] = FileOf(o)
      /\ IsRecorded(procs'[q], FlowEvent(q), t)
      /\ procs'[q].start_time <= t
  BY <1>2, AnchorFacts
<1>4. ProcInv(q)'
  <2>1. FlowEvent(q)' = FlowEvent(q) /\ FileOf(q)' = FileOf(q)
    BY <1>3 DEF FlowEvent, FileOf
  <2>2. IsRecorded(procs[q], FlowEvent(q), clock)'
    BY <1>3, <2>1 DEF IsRecorded
  <2>3. place'[q] \notin Before
    BY <1>2
  <2>4. IF place'[q] \in Behind THEN msg'[q] = NMSGS ELSE msg'[q] < NMSGS
    BY <1>1, <1>2 DEF ProcInv
  <2>5. Len(FileOf(q)) = NumRecorded(q)
    BY <1>1 DEF ProcInv
  <2>  QED  BY <1>3, <2>1, <2>2, <2>3, <2>4, <2>5 DEF ProcInv
<1>5. ASSUME NEW o \in {1, 2}, o # q PROVE ProcInv(o)'
  BY <1>1, <1>3, <1>5, OtherStays
<1>  QED  BY <1>4, <1>5

\* Nothing is received that was not sent, if only the new payload is looked at.
LEMMA CausalKeeps ==
  ASSUME AppInv, sender' = sender,
         \A q \in {1, 2} : \A n \in DOMAIN FileOf(q) :
           n \in DOMAIN procs'[q].files[1] /\ procs'[q].files[1][n] = FileOf(q)[n],
         \A i \in Nat : 3 * i + 2 \in DOMAIN procs'[receiver].files[1] =>
           \/ 3 * i + 2 \in DOMAIN FileOf(receiver)
           \/ /\ 3 * i + 2 \in DOMAIN FileOf(sender)
              /\ FileOf(sender)[3 * i + 2].timestamp
                   <= procs'[receiver].files[1][3 * i + 2].timestamp
  PROVE  Causal'
<1>1. receiver' = receiver /\ sender \in {1, 2} /\ receiver \in {1, 2}
  BY TheTwo DEF receiver, AppInv
<1>2. ASSUME NEW i \in Nat, 3 * i + 2 \in DOMAIN procs'[receiver].files[1]
      PROVE  /\ 3 * i + 2 \in DOMAIN procs'[sender].files[1]
             /\ procs'[sender].files[1][3 * i + 2].timestamp
                  <= procs'[receiver].files[1][3 * i + 2].timestamp
  <2>  DEFINE n == 3 * i + 2
  <2>1. /\ n \in DOMAIN FileOf(sender)
        /\ FileOf(sender)[n].timestamp <= procs'[receiver].files[1][n].timestamp
    <3>1. CASE n \in DOMAIN FileOf(receiver)
      BY <1>1, <3>1 DEF AppInv, Causal
    <3>2. CASE n \notin DOMAIN FileOf(receiver)
      BY <1>2, <3>2
    <3>  QED  BY <3>1, <3>2
  <2>  QED  BY <1>1, <2>1
<1>  QED  BY <1>1, <1>2 DEF Causal, FileOf

LEMMA StepMoves ==
  ASSUME AppTypes, NEW q \in {1, 2}, NEW from, NEW to, Step(q, from, to)
  PROVE  /\ place[q] = from /\ place'[q] = to
         /\ \A o \in {1, 2} : o # q => place'[o] = place[o]
  BY DEF AppTypes, Step

\* The pipe, if nobody has written to it or read from it.
LEMMA PipeKeeps ==
  ASSUME AppInv, sender' = sender, data_pipe' = data_pipe,
         \A q \in {1, 2} : NumPassed(q)' = NumPassed(q),
         place'[receiver] \in {"set", "flow"} => data_pipe # << >>
  PROVE  PipeInv'
<1>1. receiver' = receiver /\ sender \in {1, 2} /\ receiver \in {1, 2}
  BY TheTwo DEF receiver, AppInv
<1>2. /\ \A r \in {1, 2} : r = receiver => NumPassed(r)' = NumPassed(receiver)
      /\ \A r \in {1, 2} : r = sender => NumPassed(r)' = NumPassed(sender)
  OBVIOUS
<1>3. NumPassed(receiver)' = NumPassed(receiver) /\ NumPassed(sender)' = NumPassed(sender)
  BY <1>1, <1>2 DEF NumPassed
<1>  QED  BY <1>1, <1>3 DEF AppInv, PipeInv

\* A step that records nothing and leaves the pipe alone.
LEMMA SilentStep ==
  ASSUME AppInv, NEW q \in {1, 2}, NEW from, NEW to, Step(q, from, to),
         Silently, UNCHANGED << msg, data_pipe >>, sender' = sender,
         \/ from = "sync" /\ to = "start"
         \/ q = receiver /\ from = "read" /\ to = "set" /\ data_pipe # << >>
  PROVE  AppInv'
<1>1. /\ AppTypes /\ procs' = procs /\ clock' = clock /\ msg' = msg /\ data_pipe' = data_pipe
  BY DEF AppInv, Silently
<1>2. /\ place[q] = from /\ place'[q] = to
      /\ \A o \in {1, 2} : o # q => place'[o] = place[o]
  BY <1>1, StepMoves
<1>3. AppTypes'
  <2>1. (q = sender => to \in SendPlace) /\ (q = receiver => to \in RecvPlace)
    BY TheTwo, <1>1 DEF SendPlace, RecvPlace
  <2>  QED  BY <1>1, <2>1, StepTypes DEF AppTypes
<1>4. \A o \in {1, 2} : ProcInv(o)'
  <2>1. /\ place[q] \notin Behind /\ place'[q] \notin Behind
        /\ place'[q] \in Before <=> place[q] \in Before
    BY <1>2 DEF Before, Behind
  <2>2. NumRecorded(q)' = NumRecorded(q)
    BY <1>1, <1>2 DEF NumRecorded
  <2>  QED  BY <1>1, <1>2, <2>1, <2>2, SilentKeeps
<1>5. PipeInv'
  <2>1. \A o \in {1, 2} : NumPassed(o)' = NumPassed(o)
    BY <1>1, <1>2 DEF NumPassed
  <2>2. place'[receiver] \in {"set", "flow"} => data_pipe # << >>
    <3>1. CASE q = receiver
      BY <1>2, <3>1
    <3>2. CASE q # receiver
      <4>1. place'[receiver] = place[receiver]
        BY <1>1, <1>2, <3>2, TheTwo
      <4>  QED  BY <4>1 DEF AppInv, PipeInv
    <3>  QED  BY <3>1, <3>2
  <2>  QED  BY <1>1, <2>1, <2>2, PipeKeeps
<1>6. Causal'
  <2>1. \A o \in {1, 2} : procs'[o].files[1] = FileOf(o)
    BY <1>1 DEF FileOf
  <2>2. receiver \in {1, 2}
    BY <1>1, TheTwo
  <2>  QED  BY <2>1, <2>2, CausalKeeps
<1>  QED  BY <1>3, <1>4, <1>5, <1>6 DEF AppInv

\* A marker call.  The end of a flow is the one that looks at the other process.
LEMMA MarkStep ==
  ASSUME AppInv, NEW q \in {1, 2}, NEW from, NEW to, Step(q, from, to), sender' = sender,
         from \notin Before \cup Behind, to \notin Before,
         q = sender => to \in SendPlace, q = receiver => to \in RecvPlace,
         NEW t \in Now, NEW x, Mark(q, x, t), x.timestamp = t,
         NEW j \in 1 .. 3, NumRecorded(q) = 3 * msg[q] + j - 1,
         IsPart(x, FlowEvent(q), msg[q], j),
         msg' \in [{1, 2} -> Nat], \A o \in {1, 2} : o # q => msg'[o] = msg[o],
         NumRecorded(q)' = 3 * msg[q] + j,
         IF to \in Behind THEN msg'[q] = NMSGS ELSE msg'[q] < NMSGS,
         q = receiver /\ j = 2 =>
           /\ 3 * msg[q] + 2 \in DOMAIN FileOf(sender)
           /\ FileOf(sender)[3 * msg[q] + 2].timestamp <= t,
         data_pipe' \in Seq(Nat), PipeInv'
  PROVE  AppInv'
<1>1. AppTypes /\ msg[q] \in Nat
  BY DEF AppInv, AppTypes
<1>2. /\ place[q] = from /\ place'[q] = to
      /\ \A o \in {1, 2} : o # q => place'[o] = place[o]
  BY <1>1, StepMoves
<1>  DEFINE m == 3 * msg[q] + j
            g == procs'[q].files[1]
<1>3. /\ OwnSeq(procs') /\ DOMAIN procs' = {1, 2}
      /\ \A o \in {1, 2} : o # q => procs'[o] = procs[o]
      /\ DOMAIN g = DOMAIN FileOf(q) \cup {m}
      /\ g[m] = x /\ \A n \in DOMAIN FileOf(q) : g[n] = FileOf(q)[n]
  BY <1>2, MarkFacts
<1>4. AppTypes'
  <2>1. clock' \in 0 .. MaxTime
    BY <1>1, NowFacts DEF Mark
  <2>  QED  BY <1>1, <1>3, <2>1, StepTypes
<1>5. \A o \in {1, 2} : ProcInv(o)'
  BY <1>2, MarkKeeps
<1>  HIDE DEF g
<1>6. Causal'
  <2>1. ASSUME NEW o \in {1, 2}, NEW n \in DOMAIN FileOf(o)
        PROVE  n \in DOMAIN procs'[o].files[1] /\ procs'[o].files[1][n] = FileOf(o)[n]
    <3>1. CASE o = q
      BY <1>3, <3>1 DEF g
    <3>2. CASE o # q
      BY <1>3, <3>2 DEF FileOf
    <3>  QED  BY <3>1, <3>2
  <2>2. ASSUME NEW i \in Nat, 3 * i + 2 \in DOMAIN procs'[receiver].files[1]
        PROVE  \/ 3 * i + 2 \in DOMAIN FileOf(receiver)
               \/ /\ 3 * i + 2 \in DOMAIN FileOf(sender)
                  /\ FileOf(sender)[3 * i + 2].timestamp
                       <= procs'[receiver].files[1][3 * i + 2].timestamp
    <3>1. CASE q # receiver
      <4>1. procs'[receiver] = procs[receiver]
        BY <1>1, <1>3, <3>1, TheTwo
      <4>  QED  BY <2>2, <4>1 DEF FileOf
    <3>2. CASE q = receiver /\ 3 * i + 2 = m
      <4>1. i = msg[q] /\ j = 2
        <5>  DEFINE k == msg[q]
        <5>1. k \in Nat /\ 3 * i + 2 = 3 * k + j /\ i \in Nat /\ j \in 1 .. 3
          BY <1>1, <3>2
        <5>  HIDE DEF k
        <5>2. i = k /\ j = 2
          BY ONLY <5>1
        <5>  QED  BY <5>2 DEF k
      <4>2. g[3 * i + 2].timestamp = t
        BY <1>3, <3>2
      <4>  QED  BY <3>2, <4>1, <4>2 DEF g
    <3>3. CASE q = receiver /\ 3 * i + 2 # m
      <4>1. 3 * i + 2 \in DOMAIN g
        BY <2>2, <3>3 DEF g
      <4>2. 3 * i + 2 \in DOMAIN FileOf(q)
        BY <1>3, <3>3, <4>1
      <4>  QED  BY <3>3, <4>2
    <3>  QED  BY <3>1, <3>2, <3>3
  <2>  QED  BY <2>1, <2>2, CausalKeeps
<1>  QED  BY <1>4, <1>5, <1>6 DEF AppInv

LEMMA AnchorStep ==
  ASSUME AppInv, NEW q \in {1, 2}, sender' = sender,
         \/ Start(q, "read") /\ q = receiver
         \/ Start(q, "set") /\ q = sender
         \/ End(q)
  PROVE  AppInv'
<1>1. PICK from, to \in SendPlace \cup RecvPlace, t \in Now :
        /\ Step(q, from, to) /\ clock' = t /\ msg' = msg /\ data_pipe' = data_pipe
        /\ \/ /\ procs' = [procs EXCEPT ![q].start_time = t] /\ from = "start"
              /\ (q = receiver /\ to = "read") \/ (q = sender /\ to = "set")
           \/ /\ procs' = [procs EXCEPT ![q].end_time = t] /\ from = "end" /\ to = "over"
  <2>1. CASE Start(q, "read") /\ q = receiver
    BY <2>1 DEF Start, SendPlace, RecvPlace
  <2>2. CASE Start(q, "set") /\ q = sender
    BY <2>2 DEF Start, SendPlace, RecvPlace
  <2>3. CASE End(q)
    BY <2>3 DEF End, SendPlace, RecvPlace
  <2>  QED  BY <2>1, <2>2, <2>3
<1>2. AppTypes /\ sender # receiver /\ receiver \in {1, 2}
  BY TheTwo DEF AppInv
<1>3. /\ place[q] = from /\ place'[q] = to
      /\ \A o \in {1, 2} : o # q => place'[o] = place[o]
  BY <1>1, <1>2, StepMoves
<1>4. \/ /\ procs' = [procs EXCEPT ![q].start_time = t]
         /\ place[q] \in Before /\ place'[q] \notin Before \cup Behind
      \/ /\ procs' = [procs EXCEPT ![q].end_time = t]
         /\ place[q] \in Behind /\ place'[q] \in Behind
  BY <1>1, <1>3 DEF Before, Behind
<1>5. /\ OwnSeq(procs') /\ DOMAIN procs' = {1, 2}
      /\ \A o \in {1, 2} : procs'[o].files[1] = FileOf(o)
  <2>1. Before \cap Behind = {}
    BY DEF Before, Behind
  <2>  QED  BY <1>4, <2>1, AnchorFacts
<1>6. AppTypes'
  <2>1. (q = sender => to \in SendPlace) /\ (q = receiver => to \in RecvPlace)
    BY <1>1, <1>2 DEF SendPlace, RecvPlace
  <2>2. clock' \in 0 .. MaxTime
    BY <1>1, <1>2, NowFacts
  <2>3. msg' \in [{1, 2} -> Nat] /\ data_pipe' \in Seq(Nat)
    BY <1>1, <1>2 DEF AppTypes
  <2>  QED  BY <1>1, <1>2, <1>5, <2>1, <2>2, <2>3, StepTypes
<1>7. \A o \in {1, 2} : ProcInv(o)'
  <2>1. NumRecorded(q)' = NumRecorded(q)
    BY <1>1, <1>3 DEF NumRecorded
  <2>  QED  BY <1>1, <1>3, <1>4, <2>1, AnchorKeeps
<1>8. PipeInv'
  <2>1. \A o \in {1, 2} : NumPassed(o)' = NumPassed(o)
    BY <1>1, <1>3 DEF NumPassed
  <2>2. place'[receiver] \in {"set", "flow"} => data_pipe # << >>
    <3>1. CASE q = receiver
      BY <1>1, <1>2, <1>3, <3>1
    <3>2. CASE q # receiver
      <4>1. place'[receiver] = place[receiver]
        BY <1>2, <1>3, <3>2
      <4>  QED  BY <4>1 DEF AppInv, PipeInv
    <3>  QED  BY <3>1, <3>2
  <2>  QED  BY <1>1, <2>1, <2>2, PipeKeeps
<1>9. Causal'
  BY <1>2, <1>5, CausalKeeps
<1>  QED  BY <1>6, <1>7, <1>8, <1>9 DEF AppInv

LEMMA EventIdsOfParts ==
  /\ Tracr!EVENTID_RESET = EVENTID_RESET
  /\ Tracr!EVENTID_FLOW_START = EVENTID_FLOW_START
  /\ Tracr!EVENTID_FLOW_END = EVENTID_FLOW_END
  BY DEF Tracr!EVENTID_RESET, Tracr!EVENTID_FLOW_START, Tracr!EVENTID_FLOW_END,
         EVENTID_RESET, EVENTID_FLOW_START, EVENTID_FLOW_END

\* The payloads the two record.
LEMMA Parts ==
  ASSUME NEW event, NEW i, NEW t
  PROVE  /\ \A f : /\ IsPart(Tracr!SetPayload(0, 0, f, t), event, i, 1)
                   /\ Tracr!SetPayload(0, 0, f, t).timestamp = t
         /\ IsPart(Tracr!FlowStartPayload(0, i, t), EVENTID_FLOW_START, i, 2)
         /\ Tracr!FlowStartPayload(0, i, t).timestamp = t
         /\ IsPart(Tracr!FlowEndPayload(0, i, t), EVENTID_FLOW_END, i, 2)
         /\ Tracr!FlowEndPayload(0, i, t).timestamp = t
         /\ IsPart(Tracr!ResetPayload(0, t), event, i, 3)
         /\ Tracr!ResetPayload(0, t).timestamp = t
  BY EventIdsOfParts DEF IsPart, Tracr!SetPayload, Tracr!FlowStartPayload, Tracr!FlowEndPayload,
                         Tracr!ResetPayload

LEMMA PlaceOfMessage ==
  ASSUME AppInv, NEW q \in {1, 2}
  PROVE  /\ msg[q] \in Nat /\ NumRecorded(q) \in Nat /\ NumPassed(q) \in Nat
         /\ place[q] \notin Behind => msg[q] < NMSGS
         /\ place[q] \in Behind => msg[q] = NMSGS
         /\ Len(FileOf(q)) = NumRecorded(q) /\ DOMAIN FileOf(q) = 1 .. NumRecorded(q)
<1>1. /\ msg[q] \in Nat /\ Len(FileOf(q)) = NumRecorded(q)
      /\ place[q] \notin Behind => msg[q] < NMSGS
      /\ place[q] \in Behind => msg[q] = NMSGS
      /\ IsTrace(FileOf(q))
  BY DEF AppInv, AppTypes, ProcInv, IsRecorded, HasMessages, FileOf
<1>2. NumRecorded(q) \in Nat /\ NumPassed(q) \in Nat
  BY <1>1 DEF NumRecorded, NumPassed
<1>3. DOMAIN FileOf(q) = 1 .. Len(FileOf(q))
  BY <1>1, LenProperties DEF IsTrace
<1>  QED  BY <1>1, <1>2, <1>3

LEMMA ResetStep ==
  ASSUME AppInv, NEW q \in {1, 2}, NEW next, Reset(q, next), sender' = sender,
         \/ next = "read" /\ q = receiver
         \/ next = "set" /\ q = sender
  PROVE  AppInv'
<1>  DEFINE to == IF msg[q] + 1 < NMSGS THEN next ELSE "end"
<1>1. /\ Step(q, "reset", to) /\ msg' = [msg EXCEPT ![q] = @ + 1]
      /\ data_pipe' = data_pipe
  BY DEF Reset
<1>2. PICK t \in Now : Mark(q, Tracr!ResetPayload(0, t), t)
  BY DEF Reset
<1>3. /\ AppTypes /\ sender # receiver /\ receiver \in {1, 2} /\ sender \in {1, 2}
  BY TheTwo DEF AppInv
<1>4. /\ place[q] = "reset" /\ place'[q] = to
      /\ \A o \in {1, 2} : o # q => place'[o] = place[o]
  BY <1>1, <1>3, StepMoves
<1>5. msg[q] \in Nat /\ msg[q] < NMSGS /\ NMSGS \in Nat
  BY <1>4, PlaceOfMessage, FlowConstants DEF Behind
<1>6. /\ msg'[q] = msg[q] + 1 /\ \A o \in {1, 2} : o # q => msg'[o] = msg[o]
      /\ msg' \in [{1, 2} -> Nat] /\ data_pipe \in Seq(Nat)
  BY <1>1, <1>3, <1>5 DEF AppTypes
<1>7. /\ to \in {"read", "set", "end"} /\ to \notin Before
      /\ (q = sender => to \in SendPlace) /\ (q = receiver => to \in RecvPlace)
      /\ IF to \in Behind THEN msg'[q] = NMSGS ELSE msg'[q] < NMSGS
  BY <1>3, <1>5, <1>6 DEF Before, Behind, SendPlace, RecvPlace
<1>8. NumRecorded(q) = 3 * msg[q] + 3 - 1
  BY <1>4, <1>5 DEF NumRecorded
<1>9. NumRecorded(q)' = 3 * msg[q] + 3
  BY <1>4, <1>5, <1>6, <1>7 DEF NumRecorded
<1>10. PipeInv'
  <2>1. \A o \in {1, 2} : NumPassed(o)' = NumPassed(o)
    BY <1>4, <1>5, <1>6, <1>7 DEF NumPassed
  <2>2. place'[receiver] \in {"set", "flow"} => data_pipe # << >>
    <3>1. CASE q = receiver
      <4>1. next = "read"
        BY <1>3, <3>1
      <4>  QED  BY <1>4, <3>1, <4>1
    <3>2. CASE q # receiver
      <4>1. place'[receiver] = place[receiver]
        BY <1>3, <1>4, <3>2
      <4>  QED  BY <4>1 DEF AppInv, PipeInv
    <3>  QED  BY <3>1, <3>2
  <2>  QED  BY <1>1, <2>1, <2>2, PipeKeeps
<1>  DEFINE x == Tracr!ResetPayload(0, t)
<1>11. Mark(q, x, t) /\ x.timestamp = t /\ IsPart(x, FlowEvent(q), msg[q], 3)
  BY <1>2, Parts
<1>12. 3 \in 1 .. 3 /\ "reset" \notin Before \cup Behind
  BY DEF Before, Behind
<1>  HIDE DEF x, to
<1>  QED  BY <1>1, <1>6, <1>7, <1>8, <1>9, <1>10, <1>11, <1>12, MarkStep

\* A marker call within a message that leaves the pipe alone.
LEMMA PlainMarkStep ==
  ASSUME AppInv, NEW q \in {1, 2}, NEW from, NEW to, Step(q, from, to), sender' = sender,
         NEW t \in Now, NEW x, Mark(q, x, t), x.timestamp = t,
         NEW j \in {1, 2}, IsPart(x, FlowEvent(q), msg[q], j),
         UNCHANGED << msg, data_pipe >>,
         \/ j = 1 /\ from = "set" /\ to = "flow"
         \/ j = 2 /\ from = "flow" /\ to = "write" /\ q = sender
  PROVE  AppInv'
<1>1. /\ AppTypes /\ sender # receiver /\ receiver \in {1, 2} /\ sender \in {1, 2}
  BY TheTwo DEF AppInv
<1>2. /\ place[q] = from /\ place'[q] = to
      /\ \A o \in {1, 2} : o # q => place'[o] = place[o]
  BY <1>1, StepMoves
<1>3. /\ from \notin Before \cup Behind /\ to \notin Before \cup Behind
      /\ (q = sender => to \in SendPlace) /\ (q = receiver => to \in RecvPlace)
  BY <1>1 DEF Before, Behind, SendPlace, RecvPlace
<1>4. msg[q] \in Nat /\ msg[q] < NMSGS
  BY <1>2, <1>3, PlaceOfMessage
<1>5. /\ msg' = msg /\ data_pipe' = data_pipe
      /\ msg' \in [{1, 2} -> Nat] /\ data_pipe' \in Seq(Nat)
  BY <1>1 DEF AppTypes
<1>6. NumRecorded(q) = 3 * msg[q] + j - 1
  BY <1>2, <1>4 DEF NumRecorded
<1>7. NumRecorded(q)' = 3 * msg[q] + j
  BY <1>2, <1>4, <1>5 DEF NumRecorded
<1>8. PipeInv'
  <2>1. \A o \in {1, 2} : NumPassed(o)' = NumPassed(o)
    BY <1>2, <1>5 DEF NumPassed
  <2>2. place'[receiver] \in {"set", "flow"} => data_pipe # << >>
    <3>1. CASE q = receiver
      <4>1. place[receiver] = "set"
        BY <1>1, <1>2, <3>1
      <4>  QED  BY <4>1 DEF AppInv, PipeInv
    <3>2. CASE q # receiver
      <4>1. place'[receiver] = place[receiver]
        BY <1>1, <1>2, <3>2
      <4>  QED  BY <4>1 DEF AppInv, PipeInv
    <3>  QED  BY <3>1, <3>2
  <2>  QED  BY <1>5, <2>1, <2>2, PipeKeeps
<1>9. j \in 1 .. 3 /\ ~ (q = receiver /\ j = 2)
  BY <1>1
<1>10. /\ IF to \in Behind THEN msg'[q] = NMSGS ELSE msg'[q] < NMSGS
       /\ \A o \in {1, 2} : o # q => msg'[o] = msg[o]
  BY <1>3, <1>4, <1>5
<1>  QED  BY <1>3, <1>5, <1>6, <1>7, <1>8, <1>9, <1>10, MarkStep

\* What is known of the pipe, with sender and receiver as they are.
LEMMA PipeFacts ==
  ASSUME AppInv
  PROVE  /\ data_pipe \in Seq(Nat) /\ Len(data_pipe) \in Nat
         /\ DOMAIN data_pipe = 1 .. Len(data_pipe)
         /\ NumPassed(sender) \in Nat /\ NumPassed(receiver) \in Nat
         /\ Len(data_pipe) = NumPassed(sender) - NumPassed(receiver)
         /\ \A k \in 1 .. Len(data_pipe) : data_pipe[k] = NumPassed(receiver) + k - 1
<1>1. AppTypes /\ PipeInv /\ sender \in {1, 2} /\ receiver \in {1, 2}
  BY TheTwo DEF AppInv
<1>2. NumPassed(sender) \in Nat /\ NumPassed(receiver) \in Nat
  BY <1>1, PlaceOfMessage
<1>3. /\ data_pipe \in Seq(Nat) /\ Len(data_pipe) \in Nat
      /\ DOMAIN data_pipe = 1 .. Len(data_pipe)
  BY <1>1, LenProperties DEF AppTypes
<1>  QED  BY <1>1, <1>2, <1>3 DEF PipeInv

LEMMA WriteMessageStep ==
  ASSUME AppInv, WriteMessage, sender' = sender
  PROVE  AppInv'
<1>1. /\ Step(sender, "write", "reset") /\ data_pipe' = Append(data_pipe, msg[sender])
      /\ Silently /\ msg' = msg /\ procs' = procs /\ clock' = clock
  BY DEF WriteMessage, Silently, flow_id
<1>2. /\ AppTypes /\ sender # receiver /\ receiver \in {1, 2} /\ sender \in {1, 2}
      /\ receiver' = receiver
  BY TheTwo DEF AppInv, receiver
<1>3. PICK q \in {1, 2} : q = sender
  BY <1>2
<1>4. PICK r \in {1, 2} : r = receiver
  BY <1>2
<1>5. /\ place[q] = "write" /\ place'[q] = "reset" /\ place'[r] = place[r]
      /\ \A o \in {1, 2} : o # q => place'[o] = place[o]
  BY <1>1, <1>2, <1>3, <1>4, StepMoves
<1>6. msg[q] \in Nat
  BY PlaceOfMessage
<1>  DEFINE n == Len(data_pipe)
<1>7. /\ data_pipe \in Seq(Nat) /\ n \in Nat /\ DOMAIN data_pipe = 1 .. n
      /\ n = NumPassed(q) - NumPassed(r) /\ NumPassed(q) \in Nat /\ NumPassed(r) \in Nat
      /\ \A k \in 1 .. n : data_pipe[k] = NumPassed(r) + k - 1
  BY <1>3, <1>4, PipeFacts
<1>8. /\ data_pipe' \in Seq(Nat) /\ Len(data_pipe') = n + 1 /\ data_pipe' # << >>
      /\ \A k \in 1 .. n : data_pipe'[k] = data_pipe[k]
      /\ data_pipe'[n + 1] = msg[q] /\ DOMAIN data_pipe' = 1 .. n + 1
  BY <1>1, <1>3, <1>6, <1>7, AppendProperties, LenProperties
<1>  HIDE DEF n
<1>9. AppTypes'
  BY <1>1, <1>2, <1>8, StepTypes DEF AppTypes, SendPlace
<1>10. \A o \in {1, 2} : ProcInv(o)'
  <2>1. /\ place[q] \notin Behind /\ place'[q] \notin Behind
        /\ place'[q] \in Before <=> place[q] \in Before
    BY <1>5 DEF Before, Behind
  <2>2. NumRecorded(q)' = NumRecorded(q)
    BY <1>1, <1>5 DEF NumRecorded
  <2>  QED  BY <1>1, <1>5, <2>1, <2>2, SilentKeeps
<1>11. PipeInv'
  <2>1. NumPassed(q)' = NumPassed(q) + 1 /\ NumPassed(r)' = NumPassed(r) /\ NumPassed(q) = msg[q]
    BY <1>1, <1>5, <1>6 DEF NumPassed
  <2>2. Len(data_pipe') = NumPassed(q)' - NumPassed(r)'
    BY <1>7, <1>8, <2>1
  <2>3. ASSUME NEW k \in DOMAIN data_pipe'
        PROVE  data_pipe'[k] = NumPassed(r)' + k - 1
    <3>1. CASE k = n + 1
      BY <1>7, <1>8, <2>1, <3>1
    <3>2. CASE k \in 1 .. n
      BY <1>7, <1>8, <2>1, <3>2
    <3>  QED  BY <1>7, <1>8, <3>1, <3>2
  <2>4. /\ NumPassed(sender)' = NumPassed(q)' /\ NumPassed(receiver)' = NumPassed(r)'
    BY <1>2, <1>3, <1>4 DEF NumPassed
  <2>  QED  BY <1>8, <2>2, <2>3, <2>4 DEF PipeInv
<1>12. Causal'
  <2>1. \A o \in {1, 2} : procs'[o].files[1] = FileOf(o)
    BY <1>1 DEF FileOf
  <2>  QED  BY <1>2, <2>1, CausalKeeps
<1>  QED  BY <1>9, <1>10, <1>11, <1>12 DEF AppInv

LEMMA EndFlowStep ==
  ASSUME AppInv, EndFlow, sender' = sender
  PROVE  AppInv'
<1>1. /\ Step(receiver, "flow", "reset") /\ data_pipe' = Tail(data_pipe) /\ msg' = msg
  BY DEF EndFlow
<1>2. PICK t \in Now : Mark(receiver, Tracr!FlowEndPayload(0, Head(data_pipe), t), t)
  BY DEF EndFlow
<1>3. /\ AppTypes /\ sender # receiver /\ receiver \in {1, 2} /\ sender \in {1, 2}
      /\ receiver' = receiver
  BY TheTwo DEF AppInv, receiver
<1>4. PICK q \in {1, 2} : q = sender
  BY <1>3
<1>5. PICK r \in {1, 2} : r = receiver
  BY <1>3
<1>6. /\ place[r] = "flow" /\ place'[r] = "reset" /\ place'[q] = place[q]
      /\ \A o \in {1, 2} : o # r => place'[o] = place[o]
  BY <1>1, <1>3, <1>4, <1>5, StepMoves
<1>7. msg[r] \in Nat /\ msg[r] < NMSGS /\ msg[q] \in Nat
  BY <1>6, PlaceOfMessage DEF Behind
<1>  DEFINE n == Len(data_pipe)
<1>8. /\ data_pipe \in Seq(Nat) /\ n \in Nat /\ DOMAIN data_pipe = 1 .. n
      /\ n = NumPassed(q) - NumPassed(r) /\ NumPassed(q) \in Nat /\ NumPassed(r) \in Nat
      /\ \A k \in 1 .. n : data_pipe[k] = NumPassed(r) + k - 1
  BY <1>4, <1>5, PipeFacts
<1>9. data_pipe # << >>
  BY <1>5, <1>6 DEF AppInv, PipeInv
<1>10. n # 0 /\ Head(data_pipe) = data_pipe[1]
  BY <1>8, <1>9, EmptySeq, LenProperties
<1>11. NumPassed(r) = msg[r]
  BY <1>6, <1>7 DEF NumPassed
<1>12. Head(data_pipe) = msg[r] /\ msg[r] < NumPassed(q)
  <2>1. 1 \in 1 .. n /\ 0 < n
    BY <1>8, <1>10
  <2>2. data_pipe[1] = NumPassed(r) + 1 - 1
    BY <1>8, <2>1
  <2>  QED  BY <1>7, <1>8, <1>10, <1>11, <2>1, <2>2
<1>13. /\ data_pipe' \in Seq(Nat) /\ Len(data_pipe') = n - 1
       /\ \A k \in 1 .. n - 1 : data_pipe'[k] = data_pipe[k + 1]
       /\ DOMAIN data_pipe' = 1 .. n - 1
  <2>1. /\ data_pipe' \in Seq(Nat) /\ Len(data_pipe') = n - 1
        /\ \A k \in 1 .. Len(data_pipe') : data_pipe'[k] = data_pipe[k + 1]
    BY <1>1, <1>8, <1>9, HeadTailProperties
  <2>  QED  BY <2>1, LenProperties
<1>  HIDE DEF n
<1>14. PipeInv'
  <2>1. NumPassed(r)' = NumPassed(r) + 1 /\ NumPassed(q)' = NumPassed(q)
    BY <1>1, <1>6, <1>7 DEF NumPassed
  <2>2. Len(data_pipe') = NumPassed(q)' - NumPassed(r)'
    BY <1>8, <1>13, <2>1
  <2>3. ASSUME NEW k \in DOMAIN data_pipe'
        PROVE  data_pipe'[k] = NumPassed(r)' + k - 1
    <3>1. k \in 1 .. n - 1 /\ n \in Nat
      BY <1>8, <1>13
    <3>2. k + 1 \in 1 .. n /\ k \in Nat
      BY <3>1
    <3>3. data_pipe'[k] = NumPassed(r) + (k + 1) - 1
      BY <1>8, <1>13, <3>1, <3>2
    <3>  QED  BY <1>8, <2>1, <3>2, <3>3
  <2>4. /\ NumPassed(sender)' = NumPassed(q)' /\ NumPassed(receiver)' = NumPassed(r)'
    BY <1>3, <1>4, <1>5 DEF NumPassed
  <2>5. place'[receiver] \notin {"set", "flow"}
    BY <1>5, <1>6
  <2>  QED  BY <1>3, <2>2, <2>3, <2>4, <2>5 DEF PipeInv
<1>15. /\ 3 * msg[r] + 2 \in DOMAIN FileOf(q)
       /\ FileOf(q)[3 * msg[r] + 2].timestamp <= t
  <2>  DEFINE m == 3 * msg[r] + 2
  <2>1. DOMAIN FileOf(q) = 1 .. NumRecorded(q)
    BY PlaceOfMessage
  <2>2. m <= NumRecorded(q) /\ m \in Nat /\ 1 <= m /\ NumRecorded(q) \in Nat
    <3>1. CASE place[q] = "reset"
      <4>1. NumPassed(q) = msg[q] + 1 /\ NumRecorded(q) = 3 * msg[q] + 2
        BY <1>7, <3>1 DEF NumPassed, NumRecorded
      <4>2. msg[r] <= msg[q]
        BY <1>7, <1>12, <4>1
      <4>  QED  BY <1>7, <4>1, <4>2
    <3>2. CASE place[q] # "reset"
      <4>1. NumPassed(q) = msg[q] /\ NumRecorded(q) \in Nat /\ 3 * msg[q] <= NumRecorded(q)
        BY <1>7, <3>2 DEF NumPassed, NumRecorded
      <4>2. msg[r] + 1 <= msg[q]
        BY <1>7, <1>12, <4>1
      <4>  QED  BY <1>7, <4>1, <4>2
    <3>  QED  BY <3>1, <3>2
  <2>3. m \in DOMAIN FileOf(q)
    BY <2>1, <2>2
  <2>4. clock \in Nat /\ t \in Nat /\ clock <= t
    BY <1>3, NowFacts, FlowConstants DEF AppTypes
  <2>  HIDE DEF m
  <2>5. FileOf(q)[m].timestamp <= clock /\ FileOf(q)[m].timestamp \in Nat
    BY <2>3, FlowConstants DEF AppInv, ProcInv, IsRecorded, HasMessages, IsTrace, FileOf
  <2>6. FileOf(q)[m].timestamp <= t
    BY <2>4, <2>5
  <2>  QED  BY <2>3, <2>6 DEF m
<1>  DEFINE x == Tracr!FlowEndPayload(0, msg[r], t)
<1>16. Mark(r, x, t) /\ x.timestamp = t /\ IsPart(x, FlowEvent(r), msg[r], 2)
  <2>1. FlowEvent(r) = EVENTID_FLOW_END
    BY <1>3, <1>5 DEF FlowEvent
  <2>  QED  BY <1>2, <1>5, <1>12, <2>1, Parts
<1>17. /\ NumRecorded(r) = 3 * msg[r] + 2 - 1 /\ NumRecorded(r)' = 3 * msg[r] + 2
  BY <1>1, <1>6, <1>7 DEF NumRecorded
<1>18. /\ "flow" \notin Before \cup Behind /\ "reset" \notin Before \cup Behind
       /\ "reset" \in SendPlace /\ "reset" \in RecvPlace /\ 2 \in 1 .. 3
  BY DEF Before, Behind, SendPlace, RecvPlace
<1>19. /\ msg' \in [{1, 2} -> Nat] /\ \A o \in {1, 2} : o # r => msg'[o] = msg[o]
       /\ msg'[r] < NMSGS
  BY <1>1, <1>3, <1>7 DEF AppTypes
<1>20. Step(r, "flow", "reset")
  BY <1>1, <1>5
<1>21. /\ 3 * msg[r] + 2 \in DOMAIN FileOf(sender)
       /\ FileOf(sender)[3 * msg[r] + 2].timestamp <= t
  BY <1>4, <1>15
<1>  HIDE DEF x
<1>  QED  BY <1>13, <1>14, <1>16, <1>17, <1>18, <1>19, <1>20, <1>21, MarkStep

LEMMA AppStepInv ==
  ASSUME AppInv, AppStep
  PROVE  AppInv'
<1>1. /\ sender' = sender /\ sender \in {1, 2} /\ receiver \in {1, 2} /\ sender # receiver
  BY TheTwo DEF AppStep, AppInv
<1>2. CASE Ready \/ Await
  <2>1. PICK q \in {1, 2} : Step(q, "sync", "start")
    BY <1>1, <1>2 DEF Ready, Await
  <2>2. Silently /\ UNCHANGED << msg, data_pipe >>
    BY <1>2 DEF Ready, Await
  <2>  QED  BY <1>1, <2>1, <2>2, SilentStep
<1>3. CASE Read
  <2>1. /\ Step(receiver, "read", "set") /\ data_pipe # << >>
        /\ Silently /\ UNCHANGED << msg, data_pipe >>
    BY <1>3 DEF Read
  <2>  QED  BY <1>1, <2>1, SilentStep
<1>4. CASE Start(receiver, "read") \/ End(receiver)
  BY <1>1, <1>4, AnchorStep
<1>5. CASE Start(sender, "set") \/ End(sender)
  BY <1>1, <1>5, AnchorStep
<1>6. CASE Reset(receiver, "read")
  BY <1>1, <1>6, ResetStep
<1>7. CASE Reset(sender, "set")
  BY <1>1, <1>7, ResetStep
<1>8. CASE SetRecv
  <2>1. PICK t \in Now : Mark(receiver, Tracr!SetPayload(0, 0, Head(data_pipe), t), t)
    BY <1>8 DEF SetRecv
  <2>  DEFINE x == Tracr!SetPayload(0, 0, Head(data_pipe), t)
  <2>2. Step(receiver, "set", "flow") /\ UNCHANGED << msg, data_pipe >>
    BY <1>8 DEF SetRecv
  <2>3. x.timestamp = t /\ IsPart(x, FlowEvent(receiver), msg[receiver], 1)
    BY Parts
  <2>4. Mark(receiver, x, t)
    BY <2>1
  <2>  HIDE DEF x
  <2>  QED  BY <1>1, <2>2, <2>3, <2>4, PlainMarkStep
<1>9. CASE SetSend
  <2>1. PICK t \in Now : Mark(sender, Tracr!SetPayload(0, 0, flow_id(msg[sender]), t), t)
    BY <1>9 DEF SetSend
  <2>  DEFINE x == Tracr!SetPayload(0, 0, flow_id(msg[sender]), t)
  <2>2. Step(sender, "set", "flow") /\ UNCHANGED << msg, data_pipe >>
    BY <1>9 DEF SetSend
  <2>3. x.timestamp = t /\ IsPart(x, FlowEvent(sender), msg[sender], 1)
    BY Parts
  <2>4. Mark(sender, x, t)
    BY <2>1
  <2>  HIDE DEF x
  <2>  QED  BY <1>1, <2>2, <2>3, <2>4, PlainMarkStep
<1>10. CASE StartFlow
  <2>1. PICK t \in Now : Mark(sender, Tracr!FlowStartPayload(0, msg[sender], t), t)
    BY <1>10 DEF StartFlow, flow_id
  <2>  DEFINE x == Tracr!FlowStartPayload(0, msg[sender], t)
  <2>2. Step(sender, "flow", "write") /\ UNCHANGED << msg, data_pipe >>
    BY <1>10 DEF StartFlow
  <2>3. x.timestamp = t /\ IsPart(x, FlowEvent(sender), msg[sender], 2)
    BY Parts DEF FlowEvent
  <2>4. Mark(sender, x, t)
    BY <2>1
  <2>  HIDE DEF x
  <2>  QED  BY <1>1, <2>2, <2>3, <2>4, PlainMarkStep
<1>11. CASE EndFlow
  BY <1>1, <1>11, EndFlowStep
<1>12. CASE WriteMessage
  BY <1>1, <1>12, WriteMessageStep
<1>  QED  BY <1>2, <1>3, <1>4, <1>5, <1>6, <1>7, <1>8, <1>9, <1>10, <1>11, <1>12
         DEF AppStep, Receive, Send

-----------------------------------------------------------------------------
(* The invariant of the example, the writer included. *)

FlowIInv == AppInv /\ InTurn /\ IInv /\ Traced

LEMMA BeforeWriting == AppInv /\ Unstarted => IInv /\ Traced
  BY RecordedProcs, UnstartedIInv, UnstartedTraced

LEMMA AppStays ==
  ASSUME AppInv, procs' = procs, UNCHANGED app
  PROVE  AppInv'
<1>1. /\ sender' = sender /\ place' = place /\ msg' = msg /\ data_pipe' = data_pipe
      /\ clock' = clock /\ receiver' = receiver
  BY DEF app, receiver
<1>2. AppTypes'
  BY <1>1 DEF AppInv, AppTypes
<1>3. ASSUME NEW q \in {1, 2} PROVE ProcInv(q)'
  <2>1. clock \in Nat /\ clock <= clock'
    BY <1>1, FlowConstants DEF AppInv, AppTypes
  <2>  QED  BY <1>1, <2>1, OtherStays
<1>4. PipeInv'
  BY <1>1 DEF AppInv, PipeInv, NumPassed
<1>5. Causal'
  BY <1>1 DEF AppInv, Causal, FileOf
<1>  QED  BY <1>2, <1>3, <1>4, <1>5 DEF AppInv

LEMMA InitFlowIInv == ASSUME FlowInit PROVE FlowIInv
<1>1. /\ sender \in {1, 2} /\ place = << "sync", "sync" >> /\ msg = << 0, 0 >>
      /\ data_pipe = << >> /\ clock = 0 /\ procs = << NewProc, NewProc >>
      /\ receiver \in {1, 2}
  BY DEF FlowInit, receiver
<1>2. AppTypes
  <2>1. place \in [{1, 2} -> SendPlace \cup RecvPlace] /\ msg \in [{1, 2} -> Nat]
    BY <1>1 DEF SendPlace, RecvPlace
  <2>2. place[sender] \in SendPlace /\ place[receiver] \in RecvPlace
    BY <1>1 DEF SendPlace, RecvPlace
  <2>3. OwnSeq(procs) /\ DOMAIN procs = {1, 2}
    BY <1>1 DEF OwnSeq
  <2>  QED  BY <1>1, <2>1, <2>2, <2>3, FlowConstants, EmptySeq DEF AppTypes
<1>3. ASSUME NEW q \in {1, 2} PROVE ProcInv(q)
  <2>1. procs[q] = NewProc /\ place[q] = "sync" /\ msg[q] = 0
    BY <1>1
  <2>2. /\ NewProc.files[1] = << >> /\ NewProc.start_time = UInt64Max /\ NewProc.end_time = 0
        /\ NewProc = [files |-> << << >> >>, num_channels |-> 1, num_labels |-> 1,
                      start_time |-> UInt64Max, end_time |-> 0]
    BY DEF NewProc
  <2>3. HasMessages(<< >>, FlowEvent(q))
    <3>1. DOMAIN << >> = {} /\ << >> \in Seq({<< >>[k] : k \in DOMAIN << >>})
      BY EmptyOwn DEF OwnSeq
    <3>  QED  BY <3>1 DEF HasMessages, IsTrace, InTimeOrder
  <2>4. IsRecorded(NewProc, FlowEvent(q), clock)
    BY <2>2, <2>3, FlowConstants, EmptyOwn DEF IsRecorded
  <2>5. NumRecorded(q) = 0 /\ Len(FileOf(q)) = 0
    BY <2>1, <2>2 DEF NumRecorded, FileOf
  <2>  QED  BY <2>1, <2>2, <2>4, <2>5, FlowConstants DEF ProcInv, Before, Behind
<1>4. PipeInv
  <2>1. NumPassed(sender) = 0 /\ NumPassed(receiver) = 0
    BY <1>1 DEF NumPassed
  <2>2. place[receiver] = "sync"
    BY <1>1
  <2>  QED  BY <1>1, <2>1, <2>2, EmptyOwn DEF PipeInv
<1>5. Causal
  <2>1. FileOf(receiver) = << >>
    BY <1>1 DEF FileOf, NewProc
  <2>  QED  BY <2>1, EmptyOwn DEF Causal
<1>6. Unstarted
  BY DEF FlowInit, Unstarted
<1>7. AppInv /\ InTurn
  BY <1>2, <1>3, <1>4, <1>5, <1>6 DEF AppInv, InTurn, Unstarted
<1>  QED  BY <1>6, <1>7, BeforeWriting DEF FlowIInv

LEMMA NextFlowIInv == ASSUME FlowIInv, [FlowNext]_flowVars PROVE FlowIInv'
<1>1. AppInv /\ InTurn /\ IInv /\ Traced
  BY DEF FlowIInv
<1>2. CASE AppStep
  <2>1. AppInv'
    BY <1>1, <1>2, AppStepInv
  <2>2. /\ p' = p /\ pc' = pc /\ result' = result /\ records' = records /\ comms' = comms
        /\ prv' = prv /\ flow_starts' = flow_starts /\ flow_ends' = flow_ends
        /\ unmatched' = unmatched /\ rec' = rec /\ c' = c
    BY <1>2 DEF AppStep, writer, collected, paired, written
  <2>3. ~ AppOver
    <3>1. \A q \in {1, 2} : AppOver => place[q] = "over"
      BY DEF AppOver
    <3>2. sender \in {1, 2} /\ receiver \in {1, 2}
      BY <1>1, TheTwo DEF AppInv
    <3>3. \E q \in {1, 2} : place[q] # "over"
      BY <1>2, <3>2 DEF AppStep, Receive, Send, Ready, Await, Start, End, Read, SetRecv,
                        SetSend, StartFlow, EndFlow, WriteMessage, Reset, Step
    <3>  QED  BY <3>1, <3>3
  <2>4. Unstarted
    BY <1>1, <2>3 DEF InTurn
  <2>5. Unstarted' /\ InTurn'
    BY <2>2, <2>4 DEF Unstarted, InTurn
  <2>6. (AppInv /\ Unstarted => IInv /\ Traced)'
    BY BeforeWriting, PTL
  <2>  QED  BY <2>1, <2>5, <2>6 DEF FlowIInv
<1>3. CASE WriterStep
  <2>1. Next /\ AppOver /\ UNCHANGED app
    BY <1>3 DEF WriterStep
  <2>2. /\ procs' = procs
        /\ pc' # "open"
    BY <2>1 DEF Next, Open, OpenFails, Fails, BeginProc, MergeStep, Flow, SetOrReset, NoColor,
                EndProc, SortAndPair, WriteComm, WriteRecord, Write, WriteFails, ClosePrv,
                WriteRow, RowFails, Finished, vars
  <2>3. AppInv'
    BY <1>1, <2>1, <2>2, AppStays
  <2>4. InTurn'
    BY <2>1, <2>2 DEF InTurn, AppOver, app
  <2>5. IInv' /\ Traced'
    BY <1>1, <2>1, NextIInv, NextTraced
  <2>  QED  BY <2>3, <2>4, <2>5 DEF FlowIInv
<1>4. CASE UNCHANGED flowVars
  <2>1. UNCHANGED vars /\ UNCHANGED app
    BY <1>4 DEF flowVars
  <2>2. procs' = procs
    BY <2>1 DEF vars
  <2>3. AppInv'
    BY <1>1, <2>1, <2>2, AppStays
  <2>4. InTurn'
    BY <1>1, <2>1 DEF InTurn, AppOver, app, Unstarted, vars, collected, paired, written
  <2>5. IInv' /\ Traced'
    BY <1>1, <2>1, NextIInv, NextTraced
  <2>  QED  BY <2>3, <2>4, <2>5 DEF FlowIInv
<1>  QED  BY <1>2, <1>3, <1>4 DEF FlowNext

\* The inductive invariant of the two processes and the writer.
THEOREM FlowInvariant == FlowSpec => []FlowIInv
<1>1. FlowInit => FlowIInv
  BY InitFlowIInv
<1>2. FlowIInv /\ [FlowNext]_flowVars => FlowIInv'
  BY NextFlowIInv
<1>  QED  BY <1>1, <1>2, PTL DEF FlowSpec

-----------------------------------------------------------------------------
(* What the writer draws of the messages. *)

LEMMA Thirds ==
  ASSUME NEW n \in Nat, 1 <= n
  PROVE  \E i \in Nat : \E j \in 1 .. 3 : n = 3 * i + j
<1>  DEFINE i == (n - 1) \div 3
            j == ((n - 1) % 3) + 1
<1>1. i \in Nat /\ j \in 1 .. 3 /\ n = 3 * i + j
  OBVIOUS
<1>  HIDE DEF i, j
<1>  QED  BY <1>1

LEMMA EventsDiffer ==
  /\ EVENTID_FLOW_START # 0 /\ EVENTID_FLOW_END # 0 /\ EVENTID_RESET # 0
  /\ EVENTID_FLOW_START # EVENTID_FLOW_END
  /\ EVENTID_RESET # EVENTID_FLOW_START /\ EVENTID_RESET # EVENTID_FLOW_END
  BY FlowConstants DEF EVENTID_FLOW_START, EVENTID_FLOW_END, EVENTID_RESET

\* An end of a flow is in the middle of its message, of the process that made it.
LEMMA EndPlaces ==
  ASSUME AppInv, NEW x \in Places, NEW q \in {1, 2},
         PayloadOf(x).eventId = FlowEvent(q)
  PROVE  LET i == PayloadOf(x).extraId
         IN  i \in Nat /\ x = << q, 1, 3 * i + 2 >> /\ PayloadOf(x).channelId = 0
<1>1. /\ AppTypes /\ sender # receiver
      /\ \A o \in {1, 2} : o = sender \/ o = receiver
  BY TheTwo DEF AppInv
<1>2. /\ x = << x[1], x[2], x[3] >> /\ x[1] \in {1, 2}
      /\ x[2] \in DOMAIN procs[x[1]].files /\ x[3] \in DOMAIN procs[x[1]].files[x[2]]
  BY <1>1, PlaceFacts DEF AppTypes
<1>  DEFINE o == x[1]
            f == procs[o].files[1]
            n == x[3]
<1>3. IsRecorded(procs[o], FlowEvent(o), clock)
  BY <1>2 DEF AppInv, ProcInv
<1>4. x[2] = 1
  <2>1. procs[o].files = << f >>
    BY <1>3 DEF IsRecorded
  <2>  HIDE DEF f
  <2>  QED  BY <1>2, <2>1
<1>5. HasMessages(f, FlowEvent(o)) /\ n \in DOMAIN f /\ PayloadOf(x) = f[n]
  BY <1>2, <1>3, <1>4 DEF IsRecorded, PayloadOf
<1>6. n \in Nat /\ 1 <= n
  BY <1>5, LenProperties DEF HasMessages, IsTrace
<1>  HIDE DEF o, f, n
<1>7. PICK i \in Nat, j \in 1 .. 3 : n = 3 * i + j
  BY <1>6, Thirds
<1>8. IsPart(f[n], FlowEvent(o), i, j)
  BY <1>5, <1>7 DEF HasMessages
<1>9. FlowEvent(q) \in {EVENTID_FLOW_START, EVENTID_FLOW_END}
  BY DEF FlowEvent
<1>10. j = 2 /\ FlowEvent(o) = FlowEvent(q)
  BY <1>5, <1>8, <1>9, EventsDiffer DEF IsPart
<1>11. o = q
  BY <1>1, <1>2, <1>10, EventsDiffer DEF FlowEvent, o
<1>12. PayloadOf(x).extraId = i /\ PayloadOf(x).channelId = 0
  BY <1>5, <1>8, <1>10 DEF IsPart
<1>13. x = << q, 1, 3 * i + 2 >>
  BY <1>2, <1>4, <1>7, <1>10, <1>11 DEF o, n
<1>  QED  BY <1>12, <1>13

\* An arrow of flow id goes from the middle of message id of the sender to that of
\* the receiver.
LEMMA ArrowPlaces ==
  ASSUME FlowIInv, NEW k \in Line("arrow")
  PROVE  LET a == prv[k].line
             n == 3 * a.flowId + 2
         IN  /\ a.flowId \in Nat /\ sender \in {1, 2} /\ receiver \in {1, 2}
             /\ n \in DOMAIN FileOf(sender) /\ n \in DOMAIN FileOf(receiver)
             /\ a.send.task = sender /\ a.send.thread = 1
             /\ a.send.timestamp = TimeOf(sender, FileOf(sender)[n].timestamp)
             /\ a.recv.task = receiver /\ a.recv.thread = 1
             /\ a.recv.timestamp = TimeOf(receiver, FileOf(receiver)[n].timestamp)
<1>  DEFINE a == prv[k].line
            id == a.flowId
            n == 3 * id + 2
<1>1. AppInv /\ IInv /\ Traced /\ AppTypes
  BY DEF FlowIInv, AppInv
<1>2. /\ sender \in {1, 2} /\ receiver \in {1, 2} /\ sender # receiver
  BY <1>1, TheTwo
<1>3. PICK l \in 1 .. c : IsArrowLine(prv[k], l)
  BY <1>1, LineFacts
<1>4. a = comms[l] /\ l \in DOMAIN comms
  <2>1. l \in DOMAIN comms
    BY <1>1, LineFacts
  <2>  QED  BY <1>3, <2>1 DEF IsArrowLine
<1>  HIDE DEF a
<1>5. HasEnd(flow_starts, id, a.send) /\ HasEnd(flow_ends, id, a.recv)
  BY <1>1, <1>4 DEF Traced
<1>6. PICK x \in Places : IsEndOf(x, EVENTID_FLOW_START, id, a.send)
  BY <1>1, <1>5 DEF Traced, EndsFrom
<1>7. PICK y \in Places : IsEndOf(y, EVENTID_FLOW_END, id, a.recv)
  BY <1>1, <1>5 DEF Traced, EndsFrom
<1>8. FlowEvent(sender) = EVENTID_FLOW_START /\ FlowEvent(receiver) = EVENTID_FLOW_END
  BY <1>2 DEF FlowEvent
<1>9. id \in Nat /\ x = << sender, 1, n >> /\ PayloadOf(x).channelId = 0
  BY <1>1, <1>2, <1>6, <1>8, EndPlaces DEF IsEndOf
<1>10. y = << receiver, 1, n >> /\ PayloadOf(y).channelId = 0
  BY <1>1, <1>2, <1>7, <1>8, EndPlaces DEF IsEndOf
<1>  HIDE DEF id, n
<1>11. /\ n \in DOMAIN FileOf(sender) /\ n \in DOMAIN FileOf(receiver)
  BY <1>6, <1>7, <1>9, <1>10, PlaceFacts DEF FileOf
<1>12. /\ PayloadOf(x) = FileOf(sender)[n] /\ PayloadOf(y) = FileOf(receiver)[n]
       /\ x[1] = sender /\ y[1] = receiver
  BY <1>9, <1>10 DEF PayloadOf, FileOf
<1>13. /\ a.send.task = sender /\ a.send.thread = 1
       /\ a.send.timestamp = TimeOf(sender, FileOf(sender)[n].timestamp)
  BY <1>6, <1>9, <1>12 DEF IsEndOf
<1>14. /\ a.recv.task = receiver /\ a.recv.thread = 1
       /\ a.recv.timestamp = TimeOf(receiver, FileOf(receiver)[n].timestamp)
  BY <1>7, <1>10, <1>12 DEF IsEndOf
<1>  QED  BY <1>2, <1>9, <1>11, <1>13, <1>14 DEF a, id, n

\* A proc that passed START and marked afterwards begins at its start_time.
LEMMA SyncIsStart ==
  ASSUME NEW proc, NEW event, NEW now \in Nat, IsRecorded(proc, event, now),
         proc.start_time < UInt64Max
  PROVE  SyncStart(proc) = proc.start_time
<1>  DEFINE S == {proc.start_time, UInt64Max} \cup FirstTimes(proc.files)
            s == proc.start_time
<1>1. /\ s \in Nat /\ s \in 0 .. UInt64Max /\ UInt64Max \in Nat
      /\ \A n \in DOMAIN proc.files[1] : s <= proc.files[1][n].timestamp
      /\ HasMessages(proc.files[1], event)
  BY FlowConstants DEF IsRecorded
<1>2. proc.files = << proc.files[1] >>
  <2>  DEFINE f == proc.files[1]
  <2>1. proc = [files |-> << f >>, num_channels |-> 1, num_labels |-> 1,
                start_time |-> proc.start_time, end_time |-> proc.end_time]
    BY DEF IsRecorded
  <2>  HIDE DEF f
  <2>2. proc.files = << f >>
    BY <2>1
  <2>  QED  BY <2>2 DEF f
<1>3. ASSUME NEW x \in FirstTimes(proc.files) PROVE x \in Nat /\ s <= x
  <2>  DEFINE f == proc.files[1]
  <2>1. PICK i \in NonEmpty(proc.files) : x = proc.files[i][1].timestamp
    BY DEF FirstTimes
  <2>2. i = 1 /\ f # << >>
    <3>1. i \in DOMAIN proc.files /\ proc.files[i] # << >>
      BY <2>1 DEF NonEmpty
    <3>2. i = 1
      <4>  HIDE DEF f
      <4>1. proc.files = << f >>
        BY <1>2 DEF f
      <4>  QED  BY <3>1, <4>1
    <3>  QED  BY <3>1, <3>2
  <2>3. f \in Seq({f[n] : n \in DOMAIN f}) /\ IsTrace(f)
    BY <1>1 DEF HasMessages, IsTrace
  <2>4. 1 \in DOMAIN f
    BY <2>2, <2>3, LenProperties, EmptySeq
  <2>5. f[1].timestamp \in Nat
    BY <1>1, <2>3, <2>4 DEF IsTrace
  <2>  QED  BY <1>1, <2>1, <2>2, <2>4, <2>5
<1>4. S \in SUBSET Nat /\ s \in S /\ S # {}
  BY <1>1, <1>3
<1>5. \A x \in S : s <= x
  BY <1>1, <1>3
<1>6. SyncStart(proc) = IF Min(S) = UInt64Max THEN 0 ELSE Min(S)
  BY DEF SyncStart
<1>  HIDE DEF S
<1>7. Min(S) = s
  <2>1. Min(S) \in S /\ Min(S) <= s
    BY <1>4, MinFacts
  <2>2. s <= Min(S) /\ Min(S) \in Nat
    BY <1>4, <1>5, <2>1
  <2>  QED  BY <1>1, <2>1, <2>2
<1>8. s # UInt64Max
  BY <1>1
<1>  QED  BY <1>6, <1>7, <1>8

\* No arrow points back in time by more than the receiver's START was late.
THEOREM ArrowsForward == FlowSpec => []ArrowsPointForward
<1>1. FlowIInv => ArrowsPointForward
  <2>  DEFINE delay == procs[receiver].start_time - procs[sender].start_time
  <2>  SUFFICES ASSUME FlowIInv, Recorded, NEW k \in Line("arrow")
                PROVE  prv[k].line.send.timestamp
                         <= prv[k].line.recv.timestamp + Max({delay, 0})
    BY DEF ArrowsPointForward
  <2>  DEFINE a == prv[k].line
              n == 3 * a.flowId + 2
              s == FileOf(sender)[n].timestamp
              r == FileOf(receiver)[n].timestamp
  <2>1. /\ a.flowId \in Nat /\ sender \in {1, 2} /\ receiver \in {1, 2}
        /\ n \in DOMAIN FileOf(sender) /\ n \in DOMAIN FileOf(receiver)
        /\ a.send.timestamp = TimeOf(sender, s) /\ a.recv.timestamp = TimeOf(receiver, r)
    BY ArrowPlaces
  <2>2. AppInv /\ AppTypes /\ IsProcs(procs) /\ clock \in Nat
    BY RecordedProcs, FlowConstants DEF FlowIInv, AppInv, AppTypes
  <2>3. s <= r
    BY <2>1, <2>2 DEF AppInv, Causal
  <2>4. AppOver
    BY DEF FlowIInv, InTurn, Recorded, Unstarted
  <2>5. ASSUME NEW q \in {1, 2}
        PROVE  /\ SyncStart(procs[q]) = procs[q].start_time /\ procs[q].start_time \in Nat
               /\ q \in DOMAIN procs /\ 1 \in DOMAIN procs[q].files
    <3>1. place[q] \notin Before
      BY <2>4 DEF AppOver, Before
    <3>2. IsRecorded(procs[q], FlowEvent(q), clock) /\ procs[q].start_time <= clock
      BY <2>2, <3>1 DEF AppInv, ProcInv
    <3>3. procs[q].start_time \in Nat /\ clock < UInt64Max
      BY <2>2, <3>2, FlowConstants DEF IsRecorded, AppTypes
    <3>4. procs[q].start_time < UInt64Max
      BY <2>2, <3>2, <3>3, FlowConstants
    <3>5. 1 \in DOMAIN procs[q].files
      <4>  DEFINE f == procs[q].files[1]
      <4>1. procs[q] = [files |-> << f >>, num_channels |-> 1, num_labels |-> 1,
                        start_time |-> procs[q].start_time, end_time |-> procs[q].end_time]
        BY <3>2 DEF IsRecorded
      <4>  HIDE DEF f
      <4>2. procs[q].files = << f >>
        BY <4>1
      <4>  QED  BY <4>2
    <3>  QED  BY <2>2, <3>2, <3>3, <3>4, <3>5, SyncIsStart DEF AppTypes
  <2>6. /\ TimeOf(sender, s) = s - procs[sender].start_time - GlobalT0
        /\ TimeOf(receiver, r) = r - procs[receiver].start_time - GlobalT0
        /\ s \in Nat /\ r \in Nat /\ GlobalT0 \in Nat
    <3>1. ASSUME NEW q \in {1, 2}, NEW m \in DOMAIN FileOf(q)
          PROVE  LET t == FileOf(q)[m].timestamp
                 IN  /\ TimeOf(q, t) = t - procs[q].start_time - GlobalT0
                     /\ t \in Nat /\ GlobalT0 \in Nat
      <4>1. /\ q \in DOMAIN procs /\ 1 \in DOMAIN procs[q].files
            /\ SyncStart(procs[q]) = procs[q].start_time
        BY <2>5
      <4>2. LET t == procs[q].files[1][m].timestamp
            IN  /\ TimeOf(q, t) = t - SyncStart(procs[q]) - GlobalT0
                /\ t \in Nat /\ GlobalT0 \in Nat
        BY <2>2, <4>1, TimeFacts DEF FileOf
      <4>  QED  BY <4>1, <4>2 DEF FileOf
    <3>  QED  BY <2>1, <3>1
  <2>  HIDE DEF a, n, s, r
  <2>7. delay \in Int /\ delay <= Max({delay, 0}) /\ Max({delay, 0}) \in Nat
    <3>1. delay \in Int
      BY <2>1, <2>5
    <3>2. PICK b \in Nat : delay <= b
      <4>1. delay <= procs[receiver].start_time
        BY <2>1, <2>5
      <4>  QED  BY <2>1, <2>5, <4>1
    <3>  HIDE DEF delay
    <3>  QED  BY <3>1, <3>2, MaxOfSome
  <2>8. TimeOf(sender, s) <= TimeOf(receiver, r) + delay
    BY <2>1, <2>3, <2>5, <2>6
  <2>9. TimeOf(receiver, r) \in Int /\ TimeOf(sender, s) \in Int
    BY <2>1, <2>5, <2>6
  <2>  HIDE DEF delay
  <2>10. TimeOf(sender, s) <= TimeOf(receiver, r) + Max({delay, 0})
    BY <2>7, <2>8, <2>9
  <2>  QED  BY <2>1, <2>10 DEF a
<1>  QED  BY <1>1, FlowInvariant, PTL


-----------------------------------------------------------------------------
(* Every message has its arrow. *)

\* The places of the three payloads of each message, when both are through.
LEMMA AllMarked ==
  ASSUME AppInv, AppOver, NEW q \in {1, 2}
  PROVE  /\ q \in DOMAIN procs /\ 1 \in DOMAIN procs[q].files /\ IsProcs(procs)
         /\ \A n \in DOMAIN FileOf(q) :
              << q, 1, n >> \in Places /\ PayloadOf(<< q, 1, n >>) = FileOf(q)[n]
         /\ \A i \in Message : \A j \in 1 .. 3 :
              3 * i + j \in DOMAIN FileOf(q) /\ IsPart(FileOf(q)[3 * i + j], FlowEvent(q), i, j)
         /\ \A i \in Nat : 3 * i + 2 \in DOMAIN FileOf(q) => i \in Message
<1>1. place[q] = "over" /\ q \in DOMAIN procs /\ IsRecorded(procs[q], FlowEvent(q), clock)
  BY DEF AppInv, AppTypes, ProcInv, AppOver
<1>2. msg[q] = NMSGS /\ NumRecorded(q) = 3 * NMSGS
  BY <1>1, PlaceOfMessage, FlowConstants DEF Behind, NumRecorded
<1>3. DOMAIN FileOf(q) = 1 .. 3 * NMSGS
  BY <1>2, PlaceOfMessage
<1>4. HasMessages(FileOf(q), FlowEvent(q))
  BY <1>1 DEF IsRecorded, FileOf
<1>5. 1 \in DOMAIN procs[q].files
  <2>  DEFINE f == procs[q].files[1]
  <2>1. procs[q] = [files |-> << f >>, num_channels |-> 1, num_labels |-> 1,
                    start_time |-> procs[q].start_time, end_time |-> procs[q].end_time]
    BY <1>1 DEF IsRecorded
  <2>  HIDE DEF f
  <2>2. procs[q].files = << f >>
    BY <2>1
  <2>  QED  BY <2>2
<1>6. \A n \in DOMAIN FileOf(q) :
        << q, 1, n >> \in Places /\ PayloadOf(<< q, 1, n >>) = FileOf(q)[n]
  BY <1>1, <1>5, PlaceFacts DEF FileOf, PayloadOf
<1>7. \A i \in Message : \A j \in 1 .. 3 : i \in Nat /\ 3 * i + j \in DOMAIN FileOf(q)
  BY <1>3, FlowConstants DEF Message
<1>8. \A i \in Message : \A j \in 1 .. 3 : IsPart(FileOf(q)[3 * i + j], FlowEvent(q), i, j)
  BY <1>4, <1>7 DEF HasMessages
<1>9. \A i \in Nat : 3 * i + 2 \in DOMAIN FileOf(q) => i \in Message
  BY <1>3, FlowConstants DEF Message
<1>  QED  BY <1>1, <1>5, <1>6, <1>7, <1>8, <1>9, RecordedProcs

\* One end of the flow of each message in each process.
LEMMA EndsOfMessages ==
  ASSUME AppInv, AppOver, NEW q \in {1, 2}
  PROVE  LET places == FlowPlaces(FlowEvent(q))
         IN  /\ \A i \in Message : /\ OfFlow(i, places) = {<< q, 1, 3 * i + 2 >>}
                                   /\ i \in FlowIds
             /\ Cardinality(places) = NMSGS
<1>  DEFINE places == FlowPlaces(FlowEvent(q))
            At(i) == << q, 1, 3 * i + 2 >>
<1>1. places = {x \in Places : PayloadOf(x).eventId = FlowEvent(q)}
  BY FlowPlacesFacts
<1>2. ASSUME NEW i \in Message
      PROVE  /\ At(i) \in places /\ PayloadOf(At(i)).extraId = i
             /\ 3 * i + 2 \in DOMAIN FileOf(q) /\ FileOf(q)[3 * i + 2].extraId = i
  <2>1. /\ 3 * i + 2 \in DOMAIN FileOf(q)
        /\ IsPart(FileOf(q)[3 * i + 2], FlowEvent(q), i, 2)
    BY AllMarked
  <2>2. At(i) \in Places /\ PayloadOf(At(i)) = FileOf(q)[3 * i + 2]
    BY <2>1, AllMarked
  <2>  QED  BY <1>1, <2>1, <2>2 DEF IsPart
<1>3. ASSUME NEW x \in places
      PROVE  PayloadOf(x).extraId \in Message /\ x = At(PayloadOf(x).extraId)
  <2>1. PayloadOf(x).extraId \in Nat /\ x = At(PayloadOf(x).extraId)
    BY <1>1, <1>3, EndPlaces
  <2>  DEFINE i == PayloadOf(x).extraId
  <2>2. x = << x[1], x[2], x[3] >> /\ x[3] \in DOMAIN procs[x[1]].files[x[2]]
    BY <1>1, PlaceFacts
  <2>  HIDE DEF i
  <2>3. 3 * i + 2 \in DOMAIN FileOf(q)
    BY <2>1, <2>2 DEF FileOf, i
  <2>4. i \in Message
    BY <2>1, <2>3, AllMarked DEF i
  <2>  QED  BY <2>1, <2>4 DEF i
<1>4. ASSUME NEW i \in Message PROVE OfFlow(i, places) = {At(i)} /\ i \in FlowIds
  <2>1. \A x \in places : procs[x[1]].files[x[2]][x[3]].extraId = PayloadOf(x).extraId
    BY DEF PayloadOf
  <2>  HIDE DEF places
  <2>2. OfFlow(i, places) = {x \in places : PayloadOf(x).extraId = i}
    BY <2>1 DEF OfFlow
  <2>  HIDE DEF At
  <2>3. OfFlow(i, places) = {At(i)}
    BY <1>2, <1>3, <2>2
  <2>4. q \in DOMAIN procs /\ 1 \in DOMAIN procs[q].files
    BY AllMarked
  <2>5. i \in FlowIds
    BY <1>2, <2>4 DEF FlowIds, FileOf
  <2>  QED  BY <2>3, <2>5
<1>5. Cardinality(places) = NMSGS
  <2>  DEFINE f == [x \in places |-> PayloadOf(x).extraId]
  <2>  HIDE DEF places, At
  <2>1. f \in [places -> Message]
    BY <1>3
  <2>2. \A x, y \in places : f[x] = f[y] => x = y
    BY <1>3
  <2>3. \A i \in Message : \E x \in places : f[x] = i
    BY <1>2
  <2>4. IsFiniteSet(Message) /\ Cardinality(Message) = NMSGS
    <3>1. 0 \in Int /\ NMSGS - 1 \in Int /\ ~ 0 > NMSGS - 1 /\ NMSGS - 1 - 0 + 1 = NMSGS
      BY FlowConstants
    <3>  QED  BY <3>1, FS_Interval DEF Message
  <2>  HIDE DEF f
  <2>  QED  BY <2>1, <2>2, <2>3, <2>4, OneToOne
<1>  QED  BY <1>4, <1>5

\* The set and the reset of a message are in the file, at the times they were made.
LEMMA EventOfMessage ==
  ASSUME FlowIInv, Recorded, AppOver, NEW q \in {1, 2}, NEW i \in Message, NEW j \in {1, 3}
  PROVE  \E k \in Events(q, 1) :
           /\ prv[k].line.place = 3 * i + j
           /\ prv[k].timestamp = TimeOf(q, FileOf(q)[3 * i + j].timestamp)
<1>  DEFINE n == 3 * i + j
<1>1. AppInv /\ IInv /\ StatesKept /\ result = "ok" /\ good
  BY KeepsStates DEF FlowIInv, Recorded
<1>2. /\ q \in DOMAIN procs /\ 1 \in DOMAIN procs[q].files
      /\ n \in DOMAIN FileOf(q) /\ IsPart(FileOf(q)[n], FlowEvent(q), i, j)
  BY <1>1, AllMarked
<1>  HIDE DEF n
<1>3. ~ IsFlow(FileOf(q)[n])
  BY <1>2, EventsDiffer DEF IsPart, IsFlow
<1>4. n \in {prv[k].line.place : k \in Events(q, 1)}
  BY <1>1, <1>2, <1>3 DEF StatesKept, FileOf
<1>5. PICK k \in Events(q, 1) : prv[k].line.place = n
  BY <1>4
<1>6. k \in Line("event") /\ prv[k].line.task = q /\ prv[k].line.file = 1
  BY DEF Events
<1>7. PICK r \in 1 .. rec : IsEventLine(prv[k], r)
  BY <1>1, <1>6, LineFacts
<1>8. IsRecord(records[r])
  <2>1. r \in DOMAIN records
    BY <1>1, LineFacts
  <2>  QED  BY <1>1, <2>1 DEF IInv, Collected
<1>9. PlaceOf(records[r]) = << q, 1, n >> /\ records[r].task = q
  BY <1>5, <1>6, <1>7 DEF PlaceOf, IsEventLine
<1>10. prv[k].timestamp = TimeOf(q, FileOf(q)[n].timestamp)
  BY <1>7, <1>8, <1>9 DEF IsEventLine, IsRecord, PayloadOf, FileOf
<1>  QED  BY <1>5, <1>10 DEF n

\* An end that is drawn where the flow payload of message i was made is within the
\* event of that message.
LEMMA EndWithin ==
  ASSUME FlowIInv, Recorded, AppOver, NEW q \in {1, 2}, NEW i \in Message, NEW end,
         end.task = q, end.thread = 1,
         end.timestamp = TimeOf(q, FileOf(q)[3 * i + 2].timestamp)
  PROVE  Within(end, q, i)
<1>1. AppInv /\ i \in Nat
  BY FlowConstants DEF FlowIInv, Message
<1>2. PICK s \in Events(q, 1) :
        /\ prv[s].line.place = 3 * i + 1
        /\ prv[s].timestamp = TimeOf(q, FileOf(q)[3 * i + 1].timestamp)
  BY EventOfMessage
<1>3. PICK r \in Events(q, 1) :
        /\ prv[r].line.place = 3 * i + 3
        /\ prv[r].timestamp = TimeOf(q, FileOf(q)[3 * i + 3].timestamp)
  BY EventOfMessage
<1>4. /\ q \in DOMAIN procs /\ 1 \in DOMAIN procs[q].files /\ IsProcs(procs)
      /\ 3 * i + 1 \in DOMAIN procs[q].files[1] /\ 3 * i + 2 \in DOMAIN procs[q].files[1]
      /\ 3 * i + 3 \in DOMAIN procs[q].files[1]
  BY <1>1, AllMarked DEF FileOf
<1>5. ASSUME NEW m \in DOMAIN procs[q].files[1], NEW n \in DOMAIN procs[q].files[1], m <= n
      PROVE  TimeOf(q, FileOf(q)[m].timestamp) <= TimeOf(q, FileOf(q)[n].timestamp)
  BY <1>4, <1>5, TimesMonotone DEF FileOf
<1>6. 3 * i + 1 <= 3 * i + 2 /\ 3 * i + 2 <= 3 * i + 3
  BY <1>1
<1>7. prv[s].timestamp <= end.timestamp /\ end.timestamp <= prv[r].timestamp
  BY <1>2, <1>3, <1>4, <1>5, <1>6
<1>  QED  BY <1>2, <1>3, <1>7 DEF Within

\* Every message is drawn as one arrow, from within the event in which it was sent to
\* within the event in which it was received, and nothing else is.
THEOREM AllMessagesDrawn == FlowSpec => []MessagesDrawn
<1>1. FlowIInv => MessagesDrawn
  <2>  SUFFICES ASSUME FlowIInv, Recorded
                PROVE  /\ \A i \in Message : \E k \in Line("arrow") :
                            /\ Within(prv[k].line.send, sender, i)
                            /\ Within(prv[k].line.recv, receiver, i)
                       /\ Cardinality(Line("arrow")) = NMSGS
                       /\ unmatched = 0
    BY DEF MessagesDrawn
  <2>1. AppInv /\ IInv /\ FlowsAccounted /\ result = "ok" /\ good /\ AppOver
    BY AccountsForFlows DEF FlowIInv, InTurn, Recorded, Unstarted
  <2>2. /\ sender \in {1, 2} /\ receiver \in {1, 2} /\ sender # receiver
        /\ FlowEvent(sender) = EVENTID_FLOW_START /\ FlowEvent(receiver) = EVENTID_FLOW_END
    BY <2>1, TheTwo DEF AppInv, FlowEvent
  <2>  DEFINE Starts == FlowPlaces(EVENTID_FLOW_START)
              Stops  == FlowPlaces(EVENTID_FLOW_END)
  <2>3. /\ Cardinality(Starts) = NMSGS /\ Cardinality(Stops) = NMSGS
        /\ \A i \in Message : /\ i \in FlowIds
                              /\ OfFlow(i, Starts) = {<< sender, 1, 3 * i + 2 >>}
                              /\ OfFlow(i, Stops) = {<< receiver, 1, 3 * i + 2 >>}
    BY <2>1, <2>2, EndsOfMessages
  <2>4. /\ \A id \in FlowIds : Cardinality(DrawnOf(id))
             = Min({Cardinality(OfFlow(id, Starts)), Cardinality(OfFlow(id, Stops))})
        /\ unmatched = Cardinality(Starts) + Cardinality(Stops)
                         - 2 * Cardinality(Line("arrow"))
    BY <2>1 DEF FlowsAccounted, DrawnOf
  <2>  HIDE DEF Starts, Stops
  <2>5. IsFiniteSet(Line("arrow"))
    BY <2>1 DEF IInv, Written
  <2>6. ASSUME NEW i \in Message PROVE \E k : DrawnOf(i) = {k}
    <3>1. /\ Cardinality(OfFlow(i, Starts)) = 1 /\ Cardinality(OfFlow(i, Stops)) = 1
      BY <2>3, FS_Singleton
    <3>2. {Cardinality(OfFlow(i, Starts)), Cardinality(OfFlow(i, Stops))} = {1}
      BY <3>1
    <3>3. Min({1}) = 1
      BY MinFacts
    <3>4. Cardinality(DrawnOf(i)) = 1
      BY <2>3, <2>4, <3>2, <3>3
    <3>5. IsFiniteSet(DrawnOf(i))
      BY <2>5, FS_Subset DEF DrawnOf
    <3>  QED  BY <3>4, <3>5, FS_Singleton
  <2>7. ASSUME NEW k \in Line("arrow")
        PROVE  /\ prv[k].line.flowId \in Message
               /\ prv[k].line.send.task = sender /\ prv[k].line.send.thread = 1
               /\ prv[k].line.send.timestamp
                    = TimeOf(sender, FileOf(sender)[3 * prv[k].line.flowId + 2].timestamp)
               /\ prv[k].line.recv.task = receiver /\ prv[k].line.recv.thread = 1
               /\ prv[k].line.recv.timestamp
                    = TimeOf(receiver, FileOf(receiver)[3 * prv[k].line.flowId + 2].timestamp)
    <3>1. prv[k].line.flowId \in Nat /\ 3 * prv[k].line.flowId + 2 \in DOMAIN FileOf(sender)
      BY ArrowPlaces
    <3>2. prv[k].line.flowId \in Message
      BY <2>1, <2>2, <3>1, AllMarked
    <3>  QED  BY <3>2, ArrowPlaces
  <2>8. ASSUME NEW i \in Message
        PROVE  \E k \in Line("arrow") : /\ Within(prv[k].line.send, sender, i)
                                        /\ Within(prv[k].line.recv, receiver, i)
    <3>1. PICK k \in Line("arrow") : prv[k].line.flowId = i
      BY <2>6 DEF DrawnOf
    <3>2. Within(prv[k].line.send, sender, i)
      BY <2>1, <2>2, <2>7, <3>1, EndWithin
    <3>3. Within(prv[k].line.recv, receiver, i)
      BY <2>1, <2>2, <2>7, <3>1, EndWithin
    <3>  QED  BY <3>2, <3>3
  <2>9. Cardinality(Line("arrow")) = NMSGS
    <3>  DEFINE f == [k \in Line("arrow") |-> prv[k].line.flowId]
    <3>1. f \in [Line("arrow") -> Message]
      BY <2>7
    <3>2. \A k, l \in Line("arrow") : f[k] = f[l] => k = l
      BY <2>6, <2>7 DEF DrawnOf
    <3>3. \A i \in Message : \E k \in Line("arrow") : f[k] = i
      BY <2>6 DEF DrawnOf
    <3>4. IsFiniteSet(Message) /\ Cardinality(Message) = NMSGS
      <4>1. 0 \in Int /\ NMSGS - 1 \in Int /\ ~ 0 > NMSGS - 1 /\ NMSGS - 1 - 0 + 1 = NMSGS
        BY FlowConstants
      <4>  QED  BY <4>1, FS_Interval DEF Message
    <3>  HIDE DEF f
    <3>  QED  BY <3>1, <3>2, <3>3, <3>4, OneToOne
  <2>10. unmatched = 0
    BY <2>3, <2>4, <2>9, FlowConstants
  <2>  QED  BY <2>8, <2>9, <2>10
<1>  QED  BY <1>1, FlowInvariant, PTL
=============================================================================
