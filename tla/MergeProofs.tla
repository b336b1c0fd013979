---------------------------- MODULE MergeProofs -----------------------------
(***************************************************************************)
(* The merge of the post-processor is a sorted merge, and the report of    *)
(* the terminal dump is that of the files, for every number of files,      *)
(* every length and every timestamp.                                       *)
(***************************************************************************)
EXTENDS Dump, MergerProofs

\* Nothing that is still to come precedes what was output.
OutputBelowHeap ==
  \A k \in DOMAIN output : \A e \in merger.heap : output[k][1].timestamp <= e.timestamp

IInv == TypeOK /\ HeapHoldsHeads /\ OutputSorted /\ OutputBelowHeap

-----------------------------------------------------------------------------
(* The files and the heap. *)

\* The payloads of a file, in the order of their timestamps.
LEMMA FileFacts ==
  ASSUME files \in Collections
  PROVE  /\ Traces(files)
         /\ \A i \in DOMAIN files :
              /\ files[i] \in Seq(Element)
              /\ \A k \in 1 .. Len(files[i]) : files[i][k] \in Element
<1>1. files \in Seq(Seq(Element)) /\ \A i \in DOMAIN files : InTimeOrder(files[i])
  BY MergeAssumption
<1>2. ASSUME NEW i \in DOMAIN files
      PROVE  /\ files[i] \in Seq(Element)
             /\ files[i] \in Seq({files[i][k] : k \in DOMAIN files[i]})
             /\ \A k \in 1 .. Len(files[i]) : files[i][k] \in Element
             /\ \A k \in DOMAIN files[i] : files[i][k].timestamp \in Nat
  <2>1. files[i] \in Seq(Element)
    BY <1>1
  <2>2. DOMAIN files[i] = 1 .. Len(files[i])
    BY <2>1, LenProperties
  <2>3. \A k \in 1 .. Len(files[i]) : files[i][k] \in Element
    BY <2>1, ElementOfSeq
  <2>4. files[i] \in Seq({files[i][k] : k \in DOMAIN files[i]})
    BY <2>1, SeqOwnRange
  <2>  QED  BY <2>1, <2>2, <2>3, <2>4, MergeAssumption
<1>  QED  BY <1>1, <1>2 DEF Traces

LEMMA MergerMirrors ==
  ASSUME IInv
  PROVE  Traces(files) /\ Mirrors(files, merger)
  BY FileFacts DEF IInv, TypeOK, HeapHoldsHeads, Mirrors

\* What the heap tells of the files.
LEMMA HeapFacts ==
  ASSUME IInv, NEW e \in merger.heap
  PROVE  /\ e.file_idx \in DOMAIN files
         /\ merger.ptrs[e.file_idx] \in Nat
         /\ merger.ptrs[e.file_idx] < Len(files[e.file_idx])
         /\ e.timestamp = files[e.file_idx][merger.ptrs[e.file_idx] + 1].timestamp
         /\ e.timestamp \in Nat
         /\ PayloadAt(files, merger, e) = files[e.file_idx][merger.ptrs[e.file_idx] + 1]
         /\ PayloadAt(files, merger, e) \in Element
         /\ PayloadAt(files, merger, e).timestamp = e.timestamp
<1>1. files \in Collections
  BY DEF IInv, TypeOK
<1>  QED  BY <1>1, MergerMirrors, EntryFacts, FileFacts

\* One call of next(): one pointer moves, the heap holds the heads again, and
\* nothing in it precedes the top that was taken.
LEMMA StepHeap ==
  ASSUME IInv, NEW e \in Tops(merger),
         merger' = Popped(files, merger, e), UNCHANGED files
  PROVE  /\ merger'.ptrs = [merger.ptrs EXCEPT ![e.file_idx] = @ + 1]
         /\ merger'.ptrs \in [DOMAIN files -> Nat]
         /\ HeapHoldsHeads'
         /\ \A f \in merger'.heap : f.timestamp \in Nat /\ e.timestamp <= f.timestamp
<1>1. e \in merger.heap /\ Traces(files) /\ Mirrors(files, merger)
  BY MergerMirrors DEF Tops
<1>2. /\ Mirrors(files, merger')
      /\ merger'.ptrs = [merger.ptrs EXCEPT ![e.file_idx] = @ + 1]
  BY <1>1, PoppedMirrors
<1>4. \A f \in merger'.heap : f.timestamp \in Nat /\ e.timestamp <= f.timestamp
  BY <1>1, HeapIsLater
<1>  QED  BY <1>2, <1>4 DEF Mirrors, HeapHoldsHeads

LEMMA InitInvariant == Init => IInv
<1>  SUFFICES ASSUME Init PROVE IInv
  OBVIOUS
<1>1. Traces(files) /\ merger = NewMerger(files)
  BY FileFacts DEF Init
<1>2. Mirrors(files, merger)
  BY <1>1, NewMirrors
<1>3. output = << >> /\ output \in Seq(Element \X DOMAIN files) /\ DOMAIN output = {}
  BY DEF Init
<1>  QED  BY <1>2, <1>3 DEF Init, IInv, TypeOK, Mirrors, HeapHoldsHeads, OutputSorted,
     OutputBelowHeap

LEMMA NextInvariant == IInv /\ [Next]_vars => IInv'
<1>  SUFFICES ASSUME IInv, [Next]_vars PROVE IInv'
  OBVIOUS
<1>1. ASSUME NEW e \in Tops(merger),
             output' = Append(output, << PayloadAt(files, merger, e), e.file_idx >>),
             merger' = Popped(files, merger, e), UNCHANGED files
      PROVE  IInv'
  <2> DEFINE n == Len(output)
             pair == << PayloadAt(files, merger, e), e.file_idx >>
  <2>1. e \in merger.heap  BY DEF Tops
  <2>2. pair \in Element \X DOMAIN files /\ pair[1].timestamp = e.timestamp /\ e.timestamp \in Nat
    BY <2>1, HeapFacts
  <2>  HIDE DEF pair
  <2>3. /\ output' \in Seq(Element \X DOMAIN files)
        /\ n \in Nat /\ DOMAIN output = 1 .. n /\ DOMAIN output' = 1 .. n + 1
        /\ \A k \in 1 .. n : output'[k] = output[k]
        /\ output'[n + 1] = pair
    <3>1. output \in Seq(Element \X DOMAIN files) /\ output' = Append(output, pair)
      BY <1>1 DEF IInv, TypeOK, pair
    <3>  QED  BY <3>1, <2>2, AppendProperties, LenProperties
  <2>4. TypeOK' /\ HeapHoldsHeads'
    BY <1>1, <2>3, StepHeap DEF IInv, TypeOK
  <2>5. \A k \in 1 .. n : output[k][1].timestamp \in Nat /\ output[k][1].timestamp <= e.timestamp
    <3>1. \A k \in 1 .. n : output[k] \in Element \X DOMAIN files
      BY <2>3, ElementOfSeq DEF IInv, TypeOK
    <3>  QED  BY <2>1, <2>3, <3>1, MergeAssumption DEF IInv, OutputBelowHeap
  <2>6. \A k \in 1 .. n + 1 : /\ output'[k][1].timestamp \in Nat
                              /\ output'[k][1].timestamp <= e.timestamp
    BY <2>2, <2>3, <2>5
  <2>7. OutputSorted'
    <3>  SUFFICES ASSUME NEW j \in 1 .. n + 1, NEW k \in 1 .. n + 1, j < k
                  PROVE  output'[j][1].timestamp <= output'[k][1].timestamp
      BY <2>3 DEF OutputSorted
    <3>1. CASE k \in 1 .. n
      <4>1. j \in 1 .. n  BY <2>3, <3>1
      <4>  QED  BY <2>3, <3>1, <4>1 DEF IInv, OutputSorted
    <3>2. CASE k = n + 1
      BY <2>2, <2>3, <2>6, <3>2
    <3>  QED  BY <2>3, <3>1, <3>2
  <2>8. OutputBelowHeap'
    <3>1. \A f \in merger'.heap : f.timestamp \in Nat /\ e.timestamp <= f.timestamp
      BY <1>1, StepHeap
    <3>  QED  BY <2>2, <2>3, <2>6, <3>1 DEF OutputBelowHeap
  <2>  QED  BY <2>4, <2>7, <2>8 DEF IInv
<1>2. CASE Done \/ UNCHANGED vars
  BY <1>2 DEF Done, vars, IInv, TypeOK, HeapHoldsHeads, OutputSorted, OutputBelowHeap
<1>  QED  BY <1>1, <1>2 DEF Next, MergeNext

\* The inductive invariant holds in every reachable state.
THEOREM Invariant == Spec => []IInv
  BY InitInvariant, NextInvariant, PTL DEF Spec

\* The types, for every value of the constants.
THEOREM TypeCorrect == Spec => []TypeOK
<1>1. IInv => TypeOK
  BY DEF IInv
<1>  QED  BY <1>1, Invariant, PTL

\* next() hands out payloads in timestamp order, whatever the files and
\* whichever of several equal heap entries comes first.
THEOREM MergeIsSorted == Spec => []OutputSorted
<1>1. IInv => OutputSorted
  BY DEF IInv
<1>  QED  BY <1>1, Invariant, PTL

\* The heap is never stale: it mirrors the pointers.
THEOREM HeapIsExact == Spec => []HeapHoldsHeads
<1>1. IInv => HeapHoldsHeads
  BY DEF IInv
<1>  QED  BY <1>1, Invariant, PTL

-----------------------------------------------------------------------------
(* The merger implements the sorted merge. *)

LEMMA StepRefines ==
  ASSUME IInv, NEW e \in Tops(merger),
         output' = Append(output, << PayloadAt(files, merger, e), e.file_idx >>),
         merger' = Popped(files, merger, e), UNCHANGED files
  PROVE  Sorted!Next
<1> DEFINE i == e.file_idx
           n == Len(files[i])
           p == merger.ptrs[i] + 1
<1>1. /\ i \in DOMAIN files /\ merger.ptrs[i] \in Nat /\ merger.ptrs[i] < n
      /\ files \in Collections /\ Traces(files) /\ Mirrors(files, merger)
      /\ e \in merger.heap
      /\ PayloadAt(files, merger, e) = files[i][p]
      /\ e.timestamp = files[i][p].timestamp
  BY HeapFacts, MergerMirrors DEF Tops, IInv, TypeOK
<1>2. files[i] \in Seq(Element) /\ n \in Nat
  BY <1>1, FileFacts, TraceFacts
<1>3. p \in 1 .. n /\ n \in p .. n
  BY <1>1, <1>2
<1>4. Left[i] = SubSeq(files[i], p, n)
  BY <1>1 DEF Left
<1>5. Head(Left[i]) = files[i][p] /\ Tail(Left[i]) = SubSeq(files[i], p + 1, n)
  <2>  HIDE DEF i, n, p
  <2>  QED  BY <1>2, <1>3, <1>4, HeadTailOfSubSeq DEF n
<1>6. Left[i] # << >>
  <2>1. \A k \in p .. n : files[i][k] \in Element
    BY <1>1, <1>3, FileFacts
  <2>2. Len(Left[i]) = n - p + 1
    <3>  HIDE DEF i, n, p
    <3>  QED  BY <1>2, <1>3, <1>4, <2>1, SubSeqProperties
  <2>3. Len(Left[i]) # 0
    <3>  HIDE DEF i, n, p
    <3>  QED  BY <1>3, <2>2
  <2>  QED  BY <2>3
<1>7. \A j \in DOMAIN Left : \A k \in DOMAIN Left[j] :
        Head(Left[i]).timestamp <= Left[j][k].timestamp
  <2>  SUFFICES ASSUME NEW j \in DOMAIN files, NEW k \in DOMAIN Left[j]
                PROVE  e.timestamp <= Left[j][k].timestamp
    BY <1>1, <1>5 DEF Left
  <2> DEFINE m == merger.ptrs[j]  l == Len(files[j])
  <2>1. /\ m \in Nat /\ l \in Nat /\ m <= l
        /\ \A q \in 1 .. l : files[j][q] \in Element
    BY <1>1, FileFacts, TraceFacts DEF Mirrors
  <2>2. Left[j] = SubSeq(files[j], m + 1, l)
    BY DEF Left
  <2>  HIDE DEF m, l
  <2>3. /\ Left[j] \in Seq(Element)
        /\ Len(Left[j]) = IF m + 1 <= l THEN l - m ELSE 0
        /\ \A q \in 1 .. l - m : Left[j][q] = files[j][m + q]
    <3>1. \A q \in m + 1 .. l : files[j][q] \in Element
      BY <2>1
    <3>2. /\ m + 1 \in Int /\ l \in Int /\ l - (m + 1) + 1 = l - m
          /\ \A q \in 1 .. l - m : m + 1 + q - 1 = m + q
      BY <2>1
    <3>3. /\ SubSeq(files[j], m + 1, l) \in Seq(Element)
          /\ Len(SubSeq(files[j], m + 1, l)) = IF m + 1 <= l THEN l - (m + 1) + 1 ELSE 0
          /\ \A q \in 1 .. l - (m + 1) + 1 :
               SubSeq(files[j], m + 1, l)[q] = files[j][m + 1 + q - 1]
      BY <3>1, <3>2, SubSeqProperties
    <3>  QED  BY <2>2, <3>2, <3>3
  <2>4. k \in 1 .. Len(Left[j])
    BY <2>3, LenProperties
  <2>5. /\ Left[j][k] = files[j][m + k]
        /\ m + k \in 1 .. l /\ m < m + k
    BY <2>1, <2>3, <2>4
  <2>  QED  BY <1>1, <2>5, TopIsLeast DEF m, l
<1>8. Left' = [Left EXCEPT ![i] = Tail(@)]
  <2>1. merger'.ptrs = [merger.ptrs EXCEPT ![i] = @ + 1]
    BY StepHeap
  <2>2. \A j \in DOMAIN files :
          SubSeq(files[j], merger'.ptrs[j] + 1, Len(files[j])) =
            IF j = i THEN Tail(Left[i]) ELSE Left[j]
    BY <1>1, <1>5, <2>1 DEF Left, Mirrors
  <2>3. Left' = [j \in DOMAIN files |-> IF j = i THEN Tail(Left[i]) ELSE Left[j]]
    BY <2>2 DEF Left
  <2>  QED  BY <1>1, <2>3 DEF Left
<1>9. output' = Append(output, << Head(Left[i]), i >>)
  BY <1>1, <1>5
<1>10. Sorted!Take(i) /\ i \in DOMAIN Left
  <2>  HIDE DEF i
  <2>1. i \in DOMAIN Left  BY <1>1 DEF Left
  <2>  QED  BY <1>6, <1>7, <1>8, <1>9, <2>1 DEF Sorted!Take
<1>  QED  BY <1>10 DEF Sorted!Next

\* The heap and the pointers implement a merge in which every payload taken is
\* least among everything that is left in all the files.
THEOREM ImplementsSortedMerge == Spec => MergeSpec
<1>1. Init => Sorted!Init
  <2>  SUFFICES ASSUME Init PROVE Left \in Collections /\ output = << >>
    BY DEF Sorted!Init
  <2>1. \A i \in DOMAIN files : SubSeq(files[i], merger.ptrs[i] + 1, Len(files[i])) = files[i]
    <3>  TAKE i \in DOMAIN files
    <3>1. merger.ptrs[i] + 1 = 1 /\ files[i] \in Seq(Element)
      BY FileFacts DEF Init, NewMerger
    <3>  QED  BY <3>1, SubSeqFull
  <2>2. Left = [i \in DOMAIN files |-> files[i]]
    BY <2>1 DEF Left
  <2>3. files \in Seq(Seq(Element))
    BY MergeAssumption DEF Init
  <2>4. Left = files
    BY <2>2, <2>3
  <2>  QED  BY <2>4 DEF Init
<1>2. IInv /\ [Next]_vars => [Sorted!Next]_<< Left, output >>
  <2>  SUFFICES ASSUME IInv, [Next]_vars
                PROVE  Sorted!Next \/ UNCHANGED << Left, output >>
    OBVIOUS
  <2>1. CASE MergeNext
    BY <2>1, StepRefines DEF MergeNext
  <2>2. CASE Done \/ UNCHANGED vars
    BY <2>2 DEF Done, vars, Left
  <2>  QED  BY <2>1, <2>2 DEF Next
<1>  QED  BY <1>1, <1>2, Invariant, PTL DEF Spec, MergeSpec, Sorted!Spec

-----------------------------------------------------------------------------
(* The report of the terminal dump.  What the tables hold is what was read: *)
(* the place of each payload counts once.                                   *)

ReadSets(c) ==
  {x \in ReadOf(files, merger) :
     /\ At0(files, x).channelId = c
     /\ ~ IsFlow(At0(files, x)) /\ At0(files, x).eventId # EVENTID_RESET}

ReadResets(c) ==
  {x \in ReadOf(files, merger) :
     At0(files, x).channelId = c /\ At0(files, x).eventId = EVENTID_RESET}

ReadEvents(id) == {x \in ReadOf(files, merger) : At0(files, x).eventId = id}

BalanceExact ==
  /\ DOMAIN channelIds_check \subseteq ChannelsUsed
  /\ \A c \in ChannelsUsed :
       At(channelIds_check, c, 0) = Cardinality(ReadSets(c)) - Cardinality(ReadResets(c))

CountsExact ==
  /\ DOMAIN event_counts = {At0(files, x).eventId : x \in ReadOf(files, merger)}
  /\ \A id \in EventsUsed : At(event_counts, id, 0) = Cardinality(ReadEvents(id))

DumpInv == IsFiniteSet(ReadOf(files, merger)) /\ BalanceExact /\ CountsExact

LEMMA ReadFinite ==
  ASSUME IsFiniteSet(ReadOf(files, merger)), NEW T \in SUBSET ReadOf(files, merger)
  PROVE  IsFiniteSet(T) /\ Cardinality(T) \in Nat
<1>1. IsFiniteSet(T)
  BY FS_Subset
<1>  QED  BY <1>1, FS_CardinalityType

\* A new place counts in the sets it belongs to, and nowhere else.
LEMMA CardinalityGrows ==
  ASSUME NEW S, IsFiniteSet(S), NEW x, x \notin S, NEW T,
         NEW b \in BOOLEAN, T = IF b THEN S \cup {x} ELSE S
  PROVE  Cardinality(T) = Cardinality(S) + (IF b THEN 1 ELSE 0) /\ Cardinality(S) \in Nat
<1>1. Cardinality(S) \in Nat
  BY FS_CardinalityType
<1>2. CASE b
  BY <1>1, <1>2, FS_AddElement
<1>3. CASE ~ b
  BY <1>1, <1>3
<1>  QED  BY <1>2, <1>3

LEMMA InitDump == DumpInit => DumpInv
<1>  SUFFICES ASSUME DumpInit PROVE DumpInv
  OBVIOUS
<1>1. ReadOf(files, merger) = {}
  BY FileFacts, NewMirrors DEF DumpInit, Init
<1>2. /\ IsFiniteSet(ReadOf(files, merger))
      /\ \A c : ReadSets(c) = {} /\ ReadResets(c) = {} /\ ReadEvents(c) = {}
  BY <1>1, FS_EmptySet DEF ReadSets, ReadResets, ReadEvents
<1>3. Cardinality({}) = 0
  BY FS_EmptySet
<1>4. DOMAIN NoEntries = {} /\ \A k, d : At(NoEntries, k, d) = d
  BY DEF NoEntries, At
<1>5. channelIds_check = NoEntries /\ event_counts = NoEntries
  BY DEF DumpInit
<1>6. BalanceExact
  <2>1. DOMAIN channelIds_check \subseteq ChannelsUsed
    BY <1>4, <1>5
  <2>2. ASSUME NEW c \in ChannelsUsed
        PROVE  At(channelIds_check, c, 0) = Cardinality(ReadSets(c)) - Cardinality(ReadResets(c))
    <3>1. At(channelIds_check, c, 0) = 0
      BY <1>4, <1>5
    <3>2. Cardinality(ReadSets(c)) = 0 /\ Cardinality(ReadResets(c)) = 0
      BY <1>2, <1>3
    <3>  QED  BY <3>1, <3>2
  <2>  QED  BY <2>1, <2>2 DEF BalanceExact
<1>7. CountsExact
  BY <1>1, <1>2, <1>3, <1>4, <1>5 DEF CountsExact
<1>  QED  BY <1>2, <1>6, <1>7 DEF DumpInv

\* A payload enters the tables as its place enters the places read.
LEMMA StepDump ==
  ASSUME IInv, DumpInv, DumpPayload
  PROVE  DumpInv'
<1>  DEFINE R == ReadOf(files, merger)
<1>1. PICK e \in Tops(merger) :
        /\ output' = Append(output, << PayloadAt(files, merger, e), e.file_idx >>)
        /\ merger' = Popped(files, merger, e)
        /\ UNCHANGED files
  BY DEF DumpPayload, MergeNext
<1>  DEFINE x == << e.file_idx, merger.ptrs[e.file_idx] + 1 >>
            payload == At0(files, x)
            c == payload.channelId
            reset == payload.eventId = EVENTID_RESET
            flow == IsFlow(payload)
<1>2. e \in merger.heap /\ Traces(files) /\ Mirrors(files, merger)
  BY MergerMirrors DEF Tops
<1>3. /\ x \in PlacesOf(files) /\ x \notin R
      /\ ReadOf(files, merger') = R \cup {x}
      /\ PayloadAt(files, merger, e) = payload
  BY <1>1, <1>2, PoppedReads, EntryFacts DEF At0
<1>4. Returned = payload
  <2>1. output \in Seq(Element \X DOMAIN files)
    BY DEF IInv, TypeOK
  <2>2. << PayloadAt(files, merger, e), e.file_idx >> \in Element \X DOMAIN files
    BY <1>2, HeapFacts
  <2>3. output'[Len(output')] = << PayloadAt(files, merger, e), e.file_idx >>
    BY <1>1, <2>1, <2>2, AppendProperties
  <2>  QED  BY <1>3, <2>3 DEF Returned
<1>5. c \in ChannelsUsed /\ payload.eventId \in EventsUsed
  BY <1>3 DEF PlacesOf, ChannelsUsed, EventsUsed, At0
<1>6. flow => ~ reset
  BY IdAssumption DEF IsFlow, EVENTID_RESET, EVENTID_FLOW_START, EVENTID_FLOW_END
<1>7. UNCHANGED << ChannelsUsed, EventsUsed >>
  BY <1>1 DEF ChannelsUsed, EventsUsed
<1>  HIDE DEF R, x
<1>8. IsFiniteSet(ReadOf(files, merger)')
  BY <1>1, <1>3, FS_AddElement DEF DumpInv, R
<1>9. ASSUME NEW d
      PROVE  /\ Cardinality(ReadSets(d)') =
                  Cardinality(ReadSets(d)) + (IF c = d /\ ~ flow /\ ~ reset THEN 1 ELSE 0)
             /\ Cardinality(ReadResets(d)') =
                  Cardinality(ReadResets(d)) + (IF c = d /\ reset THEN 1 ELSE 0)
             /\ Cardinality(ReadEvents(d)') =
                  Cardinality(ReadEvents(d)) + (IF payload.eventId = d THEN 1 ELSE 0)
             /\ Cardinality(ReadSets(d)) \in Nat /\ Cardinality(ReadResets(d)) \in Nat
             /\ Cardinality(ReadEvents(d)) \in Nat
  <2>1. /\ ReadSets(d) \in SUBSET R /\ ReadResets(d) \in SUBSET R /\ ReadEvents(d) \in SUBSET R
        /\ IsFiniteSet(R)
    BY DEF ReadSets, ReadResets, ReadEvents, R, DumpInv
  <2>2. /\ ReadSets(d)' = IF c = d /\ ~ flow /\ ~ reset THEN ReadSets(d) \cup {x} ELSE ReadSets(d)
        /\ ReadResets(d)' = IF c = d /\ reset THEN ReadResets(d) \cup {x} ELSE ReadResets(d)
        /\ ReadEvents(d)' = IF payload.eventId = d THEN ReadEvents(d) \cup {x} ELSE ReadEvents(d)
    BY <1>1, <1>3 DEF ReadSets, ReadResets, ReadEvents, R
  <2>3. IsFiniteSet(ReadSets(d)) /\ IsFiniteSet(ReadResets(d)) /\ IsFiniteSet(ReadEvents(d))
    BY <2>1, FS_Subset
  <2>4. x \notin ReadSets(d) /\ x \notin ReadResets(d) /\ x \notin ReadEvents(d)
    BY <1>3, <2>1
  <2>  HIDE DEF payload, c, reset, flow
  <2>5. /\ Cardinality(ReadSets(d)') =
             Cardinality(ReadSets(d)) + (IF c = d /\ ~ flow /\ ~ reset THEN 1 ELSE 0)
        /\ Cardinality(ReadSets(d)) \in Nat
    BY <2>2, <2>3, <2>4, CardinalityGrows
  <2>6. /\ Cardinality(ReadResets(d)') =
             Cardinality(ReadResets(d)) + (IF c = d /\ reset THEN 1 ELSE 0)
        /\ Cardinality(ReadResets(d)) \in Nat
    BY <2>2, <2>3, <2>4, CardinalityGrows
  <2>7. /\ Cardinality(ReadEvents(d)') =
             Cardinality(ReadEvents(d)) + (IF payload.eventId = d THEN 1 ELSE 0)
        /\ Cardinality(ReadEvents(d)) \in Nat
    BY <2>2, <2>3, <2>4, CardinalityGrows
  <2>  QED  BY <2>5, <2>6, <2>7
<1>10. CountsExact'
  <2>1. event_counts' = Put(event_counts, payload.eventId,
                            At(event_counts, payload.eventId, 0) + 1)
    BY <1>4 DEF DumpPayload, DumpFlow, DumpSetOrReset, CountEvent
  <2>2. /\ DOMAIN event_counts' = DOMAIN event_counts \cup {payload.eventId}
        /\ \A id : At(event_counts', id, 0) = IF id = payload.eventId
                                              THEN At(event_counts, payload.eventId, 0) + 1
                                              ELSE At(event_counts, id, 0)
    <3>  DEFINE id0 == payload.eventId
                v   == At(event_counts, id0, 0) + 1
    <3>  HIDE DEF id0, v
    <3>1. event_counts' = Put(event_counts, id0, v)
      BY <2>1 DEF id0, v
    <3>2. /\ DOMAIN Put(event_counts, id0, v) = DOMAIN event_counts \cup {id0}
          /\ \A j, d : At(Put(event_counts, id0, v), j, d)
                        = IF j = id0 THEN v ELSE At(event_counts, j, d)
      BY DEF Put, At
    <3>3. /\ DOMAIN event_counts' = DOMAIN event_counts \cup {id0}
          /\ \A id : At(event_counts', id, 0) = IF id = id0 THEN v ELSE At(event_counts, id, 0)
      BY <3>1, <3>2
    <3>  QED  BY <3>3 DEF id0, v
  <2>3. {At0(files, y).eventId : y \in ReadOf(files, merger)}' =
          {At0(files, y).eventId : y \in R} \cup {payload.eventId}
    BY <1>1, <1>3
  <2>4. DOMAIN event_counts' = {At0(files, y).eventId : y \in ReadOf(files, merger)}'
    BY <2>2, <2>3 DEF DumpInv, CountsExact, R
  <2>5. ASSUME NEW id \in EventsUsed
        PROVE  At(event_counts', id, 0) = Cardinality(ReadEvents(id)')
    BY <1>9, <2>2 DEF DumpInv, CountsExact
  <2>  QED  BY <1>7, <2>4, <2>5 DEF CountsExact
<1>11. BalanceExact'
  <2>1. CASE flow
    <3>1. UNCHANGED channelIds_check
      BY <1>4, <2>1 DEF DumpPayload, DumpFlow, DumpSetOrReset, SkipsChecks
    <3>2. ASSUME NEW d \in ChannelsUsed
          PROVE  At(channelIds_check, d, 0) =
                   Cardinality(ReadSets(d)') - Cardinality(ReadResets(d)')
      BY <1>6, <1>9, <2>1 DEF DumpInv, BalanceExact
    <3>  QED  BY <1>7, <3>1, <3>2 DEF DumpInv, BalanceExact
  <2>2. CASE ~ flow
    <3>1. channelIds_check' = Put(channelIds_check, c, Balance(payload))
      BY <1>4, <2>2 DEF DumpPayload, DumpFlow, DumpSetOrReset, SkipsChecks
    <3>2. /\ DOMAIN channelIds_check' = DOMAIN channelIds_check \cup {c}
          /\ \A d : At(channelIds_check', d, 0) = IF d = c THEN Balance(payload)
                                                  ELSE At(channelIds_check, d, 0)
      <4>  DEFINE v == Balance(payload)
      <4>  HIDE DEF c, v
      <4>1. channelIds_check' = Put(channelIds_check, c, v)
        BY <3>1 DEF v
      <4>2. /\ DOMAIN Put(channelIds_check, c, v) = DOMAIN channelIds_check \cup {c}
            /\ \A j, d : At(Put(channelIds_check, c, v), j, d)
                          = IF j = c THEN v ELSE At(channelIds_check, j, d)
        BY DEF Put, At
      <4>3. /\ DOMAIN channelIds_check' = DOMAIN channelIds_check \cup {c}
            /\ \A d : At(channelIds_check', d, 0) = IF d = c THEN v
                                                    ELSE At(channelIds_check, d, 0)
        BY <4>1, <4>2
      <4>  QED  BY <4>3 DEF v
    <3>3. Balance(payload) = At(channelIds_check, c, 0) + IF reset THEN -1 ELSE 1
      BY DEF Balance
    <3>4. ASSUME NEW d \in ChannelsUsed
          PROVE  At(channelIds_check', d, 0) =
                   Cardinality(ReadSets(d)') - Cardinality(ReadResets(d)')
      <4>1. At(channelIds_check, d, 0) = Cardinality(ReadSets(d)) - Cardinality(ReadResets(d))
        BY DEF DumpInv, BalanceExact
      <4>  HIDE DEF payload, c, reset, flow
      <4>  QED  BY <1>9, <2>2, <3>2, <3>3, <4>1
    <3>  QED  BY <1>5, <1>7, <3>2, <3>4 DEF DumpInv, BalanceExact
  <2>  QED  BY <2>1, <2>2
<1>  QED  BY <1>8, <1>10, <1>11 DEF DumpInv

\* When the heap is empty the tables are those of the files.
LEMMA ReportFollows == IInv /\ DumpInv => ReportExact
<1>  SUFFICES ASSUME IInv, DumpInv, Empty(merger)
              PROVE  MismatchReported /\ HistogramExact
  BY DEF ReportExact
<1>1. ReadOf(files, merger) = PlacesOf(files)
  BY MergerMirrors, EmptyReadsAll
<1>2. MismatchReported
  <2>  DEFINE IsReset(x) == x.eventId = EVENTID_RESET
              IsSet(x)   == ~ IsFlow(x) /\ ~ IsReset(x)
  <2>1. ASSUME NEW c
        PROVE  Places(IsSet, c) = ReadSets(c) /\ Places(IsReset, c) = ReadResets(c)
    BY <1>1 DEF Places, ReadSets, ReadResets, PlacesOf, At0
  <2>2. ASSUME NEW c \in ChannelsUsed
        PROVE  /\ Cardinality(ReadSets(c)) \in Nat /\ Cardinality(ReadResets(c)) \in Nat
               /\ At(channelIds_check, c, 0)
                    = Cardinality(ReadSets(c)) - Cardinality(ReadResets(c))
    <3>1. /\ ReadSets(c) \in SUBSET ReadOf(files, merger)
          /\ ReadResets(c) \in SUBSET ReadOf(files, merger)
      BY DEF ReadSets, ReadResets
    <3>  QED  BY <3>1, ReadFinite DEF DumpInv, BalanceExact
  <2>3. ChannelReport = {c \in ChannelsUsed :
                           Cardinality(ReadSets(c)) # Cardinality(ReadResets(c))}
    BY <2>2 DEF ChannelReport, DumpInv, BalanceExact, At
  <2>4. ChannelReport = {c \in ChannelsUsed :
                           Cardinality(Places(IsSet, c)) # Cardinality(Places(IsReset, c))}
    BY <2>1, <2>3
  <2>  QED  BY <2>4 DEF MismatchReported
<1>3. HistogramExact
  <2>1. DOMAIN event_counts = EventsUsed
    <3>1. DOMAIN event_counts = {At0(files, x).eventId : x \in PlacesOf(files)}
      BY <1>1 DEF DumpInv, CountsExact
    <3>2. \A id : id \in EventsUsed <=>
            \E i \in DOMAIN files : \E k \in DOMAIN files[i] : files[i][k].eventId = id
      BY DEF EventsUsed
    <3>3. \A x : x \in PlacesOf(files) <=>
            \E i \in DOMAIN files : \E k \in DOMAIN files[i] : x = << i, k >>
      BY DEF PlacesOf
    <3>4. \A i, k : At0(files, << i, k >>) = files[i][k]
      BY DEF At0
    <3>5. EventsUsed = {At0(files, x).eventId : x \in PlacesOf(files)}
      <4>1. ASSUME NEW id \in EventsUsed
            PROVE  \E x \in PlacesOf(files) : id = At0(files, x).eventId
        <5>1. PICK i \in DOMAIN files : \E k \in DOMAIN files[i] : files[i][k].eventId = id
          BY <3>2
        <5>2. PICK k \in DOMAIN files[i] : files[i][k].eventId = id
          BY <5>1
        <5>3. << i, k >> \in PlacesOf(files)
          BY <3>3
        <5>  QED  BY <3>4, <5>2, <5>3
      <4>2. ASSUME NEW x \in PlacesOf(files)
            PROVE  At0(files, x).eventId \in EventsUsed
        <5>1. PICK i \in DOMAIN files : \E k \in DOMAIN files[i] : x = << i, k >>
          BY <3>3
        <5>2. PICK k \in DOMAIN files[i] : x = << i, k >>
          BY <5>1
        <5>  QED  BY <3>2, <3>4, <5>2
      <4>  QED  BY <4>1, <4>2
    <3>  QED  BY <3>1, <3>5
  <2>2. ASSUME NEW id \in EventsUsed
        PROVE  LET IsEvent(x) == x.eventId = id
               IN  event_counts[id] = Cardinality(UNION {Places(IsEvent, c) : c \in ChannelsUsed})
    <3>  DEFINE IsEvent(x) == x.eventId = id
    <3>1. UNION {Places(IsEvent, c) : c \in ChannelsUsed} = ReadEvents(id)
      BY <1>1 DEF Places, ReadEvents, PlacesOf, At0, ChannelsUsed
    <3>2. event_counts[id] = Cardinality(ReadEvents(id))
      BY <2>1 DEF DumpInv, CountsExact, At
    <3>  QED  BY <3>1, <3>2
  <2>  QED  BY <2>1, <2>2 DEF HistogramExact
<1>  QED  BY <1>2, <1>3

\* The merge does not notice the tables.
LEMMA DumpRuns == DumpSpec => Spec
<1>1. DumpInit => Init
  BY DEF DumpInit
<1>2. [DumpNext]_dumpVars => [Next]_vars
  BY DEF DumpNext, DumpPayload, DumpDone, Next, dumpVars
<1>  QED  BY <1>1, <1>2, PTL DEF DumpSpec, Spec

\* The dump reports exactly the channels with unequal numbers of sets and resets
\* and the exact count of each event id, for every number of threads, whichever
\* threads share a channel and in whatever order equal timestamps are merged.
THEOREM ReportIsExact == DumpSpec => []ReportExact
<1>1. IInv /\ DumpInv /\ [DumpNext]_dumpVars => DumpInv'
  <2>  SUFFICES ASSUME IInv, DumpInv, [DumpNext]_dumpVars PROVE DumpInv'
    OBVIOUS
  <2>1. CASE DumpPayload
    BY <2>1, StepDump
  <2>2. CASE DumpDone \/ UNCHANGED dumpVars
    <3>1. UNCHANGED << files, merger, channelIds_check, event_counts >>
      BY <2>2 DEF DumpDone, Done, dumpVars, vars, checks
    <3>2. /\ ReadOf(files, merger)' = ReadOf(files, merger)
          /\ ChannelsUsed' = ChannelsUsed /\ EventsUsed' = EventsUsed
          /\ \A c : /\ ReadSets(c)' = ReadSets(c) /\ ReadResets(c)' = ReadResets(c)
                    /\ ReadEvents(c)' = ReadEvents(c)
      BY <3>1 DEF ChannelsUsed, EventsUsed, ReadSets, ReadResets, ReadEvents
    <3>3. BalanceExact'
      BY <3>1, <3>2 DEF DumpInv, BalanceExact
    <3>4. CountsExact'
      BY <3>1, <3>2 DEF DumpInv, CountsExact
    <3>  QED  BY <3>2, <3>3, <3>4 DEF DumpInv
  <2>  QED  BY <2>1, <2>2 DEF DumpNext
<1>  QED  BY <1>1, InitDump, ReportFollows, DumpRuns, Invariant, PTL DEF DumpSpec

=============================================================================
