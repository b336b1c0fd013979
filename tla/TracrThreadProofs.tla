------------------------- MODULE TracrThreadProofs --------------------------
(***************************************************************************)
(* Proofs about TracrThread, for every capacity, every policy and every    *)
(* set of channels, ids and timestamps, and about CounterThread, the       *)
(* thread whose clock is the hardware counter, for every frequency.        *)
(***************************************************************************)
EXTENDS CounterThread, TraceBufferProofs

-----------------------------------------------------------------------------
(* The inductive invariant. *)

\* A sequence of payloads in timestamp order, none later than c.
InTimeOrder(s, c) ==
  /\ \A i, j \in 1 .. Len(s) : i < j => s[i].timestamp <= s[j].timestamp
  /\ \A i \in 1 .. Len(s) : s[i].timestamp <= c

\* What the buffer would flush now is in order, and not in the future.
LogInv ==
  tracrThread # NoThread =>
    /\ GoodBuffer(Payload, tracrThread)
    /\ InTimeOrder(FlushTraces(tracrThread), clock)

IInv == TypeOK /\ LogInv /\ FileInTimeOrder

LEMMA OrderAppend ==
  ASSUME NEW s \in Seq(Payload), NEW p \in Payload, NEW c \in Nat,
         InTimeOrder(s, c), p.timestamp >= c
  PROVE  InTimeOrder(Append(s, p), p.timestamp)
<1>1. p.timestamp \in Nat /\ \A i \in 1 .. Len(s) : s[i].timestamp \in Nat
  <2>1. \A q \in Payload : q.timestamp \in Nat
    BY PayloadAssumption DEF Payload
  <2>  QED  BY <2>1, ElementOfSeq
<1>  DEFINE t == Append(s, p)
<1>2. /\ Len(s) \in Nat /\ Len(t) = Len(s) + 1
      /\ \A i \in 1 .. Len(s) : t[i] = s[i]
      /\ t[Len(s) + 1] = p
  BY AppendProperties, LenProperties
<1>  HIDE DEF t
<1>3. \A i \in 1 .. Len(t) : t[i].timestamp <= p.timestamp
  BY <1>1, <1>2 DEF InTimeOrder
<1>4. \A i, j \in 1 .. Len(t) : i < j => t[i].timestamp <= t[j].timestamp
  <2>1. SUFFICES ASSUME NEW i \in 1 .. Len(t), NEW j \in 1 .. Len(t), i < j
                 PROVE  t[i].timestamp <= t[j].timestamp
    OBVIOUS
  <2>2. CASE j = Len(s) + 1
    BY <1>2, <1>3, <2>2
  <2>3. CASE j # Len(s) + 1
    BY <1>2, <2>1, <2>3 DEF InTimeOrder
  <2>  QED  BY <2>2, <2>3
<1>  QED  BY <1>3, <1>4 DEF InTimeOrder, t

LEMMA OrderTail ==
  ASSUME NEW s \in Seq(Payload), s # << >>, NEW c, InTimeOrder(s, c)
  PROVE  Tail(s) \in Seq(Payload) /\ InTimeOrder(Tail(s), c)
<1>  DEFINE t == Tail(s)
<1>1. /\ t \in Seq(Payload) /\ Len(t) = Len(s) - 1 /\ Len(s) \in Nat
      /\ \A i \in 1 .. Len(t) : t[i] = s[i + 1]
  BY HeadTailProperties, LenProperties
<1>  HIDE DEF t
<1>2. \A i \in 1 .. Len(t) : i + 1 \in 1 .. Len(s)
  BY <1>1
<1>3. \A i \in 1 .. Len(t) : t[i].timestamp <= c
  BY <1>1, <1>2 DEF InTimeOrder
<1>4. \A i, j \in 1 .. Len(t) : i < j => t[i].timestamp <= t[j].timestamp
  <2>1. SUFFICES ASSUME NEW i \in 1 .. Len(t), NEW j \in 1 .. Len(t), i < j
                 PROVE  t[i].timestamp <= t[j].timestamp
    OBVIOUS
  <2>2. i + 1 \in 1 .. Len(s) /\ j + 1 \in 1 .. Len(s) /\ i + 1 < j + 1
    BY <1>2, <2>1
  <2>  QED  BY <1>1, <2>2 DEF InTimeOrder
<1>5. InTimeOrder(t, c)
  BY <1>3, <1>4 DEF InTimeOrder
<1>  QED  BY <1>1, <1>5 DEF t

\* store_trace() keeps the buffer good and its log in order, whatever the
\* policy; with "abort" a full buffer is left alone.
LEMMA StoreKeepsOrder ==
  ASSUME NEW b, GoodBuffer(Payload, b), NEW c \in Nat, InTimeOrder(FlushTraces(b), c),
         NEW p \in Payload, p.timestamp >= c
  PROVE  /\ GoodBuffer(Payload, StoreTrace(b, p))
         /\ InTimeOrder(FlushTraces(StoreTrace(b, p)), p.timestamp)
<1>1. b.traceIdx \in Nat /\ Capacity \in Nat /\ FlushTraces(b) \in Seq(Payload)
  BY BufferParameters, FlushShape DEF GoodBuffer, Buffer
<1>2. CASE ~ IsFull(b)
  <2>1. StoreTrace(b, p) = Stored(b, p) /\ b.traceIdx < Capacity
    BY <1>1, <1>2 DEF StoreTrace, IsFull
  <2>  QED  BY <1>1, <2>1, StoreWithRoom, OrderAppend
<1>3. CASE IsFull(b) /\ Policy = "periodic"
  <2>1. StoreTrace(b, p) = Stored(b, p) /\ b.traceIdx >= Capacity
    BY <1>1, <1>3 DEF StoreTrace, IsFull
  <2>2. /\ GoodBuffer(Payload, Stored(b, p)) /\ FlushTraces(b) # << >>
        /\ FlushTraces(Stored(b, p)) = Append(Tail(FlushTraces(b)), p)
    BY <1>3, <2>1, StoreOverOldest
  <2>3. /\ Tail(FlushTraces(b)) \in Seq(Payload)
        /\ InTimeOrder(Tail(FlushTraces(b)), c)
    BY <1>1, <2>2, OrderTail
  <2>  QED  BY <2>1, <2>2, <2>3, OrderAppend
<1>4. CASE IsFull(b) /\ Policy # "periodic"
  <2>1. StoreTrace(b, p) = b
    BY <1>4 DEF StoreTrace
  <2>2. \A i \in 1 .. Len(FlushTraces(b)) : FlushTraces(b)[i].timestamp \in Nat
    <3>1. \A q \in Payload : q.timestamp \in Nat
      BY PayloadAssumption DEF Payload
    <3>  QED  BY <1>1, <3>1, ElementOfSeq
  <2>3. p.timestamp \in Nat
    BY PayloadAssumption DEF Payload
  <2>4. InTimeOrder(FlushTraces(b), p.timestamp)
    BY <2>2, <2>3 DEF InTimeOrder
  <2>  QED  BY <2>1, <2>4
<1>  QED  BY <1>2, <1>3, <1>4

\* Every payload a marker call builds is a payload.
LEMMA MarkAtStores ==
  ASSUME NEW ts \in Timestamp, MarkAt(ts)
  PROVE  \E p \in Payload : p.timestamp = ts /\ Store(p)
<1>1. /\ MarkerId \subseteq EventId /\ EVENTID_RESET \in EventId
      /\ EVENTID_FLOW_START \in EventId /\ EVENTID_FLOW_END \in EventId
      /\ UInt32Max \in ExtraId
  BY PayloadAssumption, IdAssumption
     DEF MarkerId, EventId, ExtraId, EVENTID_RESET, EVENTID_FLOW_START,
         EVENTID_FLOW_END, EVENTID_RESERVED_MIN
<1>2. PICK c \in Channel :
        \/ \E e \in MarkerId, x \in ExtraId : MarkSet(c, e, x, ts)
        \/ MarkReset(c, ts)
        \/ \E f \in ExtraId : FlowStart(c, f, ts) \/ FlowEnd(c, f, ts)
  BY DEF MarkAt
<1>3. CASE \E e \in MarkerId, x \in ExtraId : MarkSet(c, e, x, ts)
  <2>1. PICK e \in MarkerId, x \in ExtraId : MarkSet(c, e, x, ts)
    BY <1>3
  <2>2. SetPayload(c, e, x, ts) \in Payload /\ SetPayload(c, e, x, ts).timestamp = ts
    BY <1>1 DEF SetPayload, Payload
  <2>  QED  BY <2>1, <2>2 DEF MarkSet
<1>4. CASE MarkReset(c, ts)
  <2>1. ResetPayload(c, ts) \in Payload /\ ResetPayload(c, ts).timestamp = ts
    BY <1>1 DEF ResetPayload, Payload
  <2>  QED  BY <1>4, <2>1 DEF MarkReset
<1>5. CASE \E f \in ExtraId : FlowStart(c, f, ts) \/ FlowEnd(c, f, ts)
  <2>1. PICK f \in ExtraId : FlowStart(c, f, ts) \/ FlowEnd(c, f, ts)
    BY <1>5
  <2>2. /\ FlowStartPayload(c, f, ts) \in Payload
        /\ FlowStartPayload(c, f, ts).timestamp = ts
        /\ FlowEndPayload(c, f, ts) \in Payload
        /\ FlowEndPayload(c, f, ts).timestamp = ts
    BY <1>1 DEF FlowStartPayload, FlowEndPayload, Payload
  <2>  QED  BY <2>1, <2>2 DEF FlowStart, FlowEnd
<1>  QED  BY <1>2, <1>3, <1>4, <1>5

\* A marker call stores a payload that is not older than the last one.
LEMMA MarkStores ==
  ASSUME Mark
  PROVE  \E p \in Payload : p.timestamp >= clock /\ Store(p)
<1>1. PICK ts \in Now : MarkAt(ts)
  BY DEF Mark
<1>2. ts \in Timestamp /\ ts >= clock
  BY DEF Now
<1>3. PICK p \in Payload : p.timestamp = ts /\ Store(p)
  BY <1>1, <1>2, MarkAtStores
<1>  QED  BY <1>2, <1>3

LEMMA InitInvariant == Init => IInv
<1>  SUFFICES ASSUME Init PROVE IInv
  OBVIOUS
<1>1. bts \in Seq(Payload) /\ Len(bts) = 0 /\ DOMAIN bts = {}
  BY EmptySeq DEF Init
<1>  QED  BY <1>1 DEF Init, IInv, TypeOK, LogInv, FileInTimeOrder

LEMMA StoreInvariant ==
  ASSUME IInv, NEW p \in Payload, p.timestamp >= clock, Store(p)
  PROVE  IInv'
<1>1. /\ tracrThread \in Buffer(Payload) /\ tracrThread # NoThread /\ clock \in Nat
      /\ GoodBuffer(Payload, tracrThread) /\ InTimeOrder(FlushTraces(tracrThread), clock)
  BY DEF IInv, TypeOK, LogInv, Store
<1>2. /\ GoodBuffer(Payload, tracrThread')
      /\ InTimeOrder(FlushTraces(tracrThread'), clock')
      /\ clock' \in Nat
  <2>1. p.timestamp \in Nat
    BY PayloadAssumption DEF Payload
  <2>2. tracrThread' = StoreTrace(tracrThread, p) /\ clock' = p.timestamp
    BY DEF Store
  <2>  QED  BY <1>1, <2>1, <2>2, StoreKeepsOrder
<1>3. LogInv'
  BY <1>2 DEF LogInv
<1>4. TypeOK'
  BY <1>2 DEF Store, IInv, TypeOK, GoodBuffer
<1>5. FileInTimeOrder'
  BY DEF Store, IInv, FileInTimeOrder
<1>  QED  BY <1>3, <1>4, <1>5 DEF IInv

LEMMA NextInvariant == IInv /\ [Next]_vars => IInv'
<1>  SUFFICES ASSUME IInv, [Next]_vars PROVE IInv'
  OBVIOUS
<1>1. CASE ThreadInit
  <2>1. TypeOK'
    BY <1>1, FreshBuffer DEF ThreadInit, IInv, TypeOK, GoodBuffer
  <2>2. LogInv'
    BY <1>1, FreshBuffer, EmptySeq DEF ThreadInit, LogInv, InTimeOrder
  <2>  QED  BY <1>1, <2>1, <2>2 DEF ThreadInit, IInv, FileInTimeOrder
<1>2. CASE Mark
  BY <1>2, MarkStores, StoreInvariant
<1>3. CASE ThreadInitAgain \/ ThreadFinalizeAgain
  BY <1>3 DEF ThreadInitAgain, ThreadFinalizeAgain, IInv, TypeOK, LogInv,
              FileInTimeOrder
<1>4. CASE InstrumentationOn \/ InstrumentationOff
  BY <1>4 DEF InstrumentationOn, InstrumentationOff, IInv, TypeOK, LogInv,
              FileInTimeOrder
<1>5. CASE ThreadFinalize
  <2>1. /\ GoodBuffer(Payload, tracrThread) /\ InTimeOrder(FlushTraces(tracrThread), clock)
        /\ FlushTraces(tracrThread) \in Seq(Payload)
    BY <1>5, FlushShape DEF ThreadFinalize, IInv, LogInv
  <2>2. bts' = bts \/ bts' = FlushTraces(tracrThread)
    BY <1>5 DEF ThreadFinalize
  <2>3. TypeOK'
    BY <1>5, <2>1, <2>2 DEF ThreadFinalize, IInv, TypeOK
  <2>4. LogInv'
    BY <1>5 DEF ThreadFinalize, LogInv
  <2>5. FileInTimeOrder'
    <3>1. CASE bts' = bts
      BY <3>1 DEF IInv, FileInTimeOrder
    <3>2. CASE bts' = FlushTraces(tracrThread)
      <4>1. DOMAIN bts' = 1 .. Len(bts')
        BY <2>1, <3>2, LenProperties
      <4>  QED  BY <2>1, <3>2, <4>1 DEF FileInTimeOrder, InTimeOrder
    <3>  QED  BY <2>2, <3>1, <3>2
  <2>  QED  BY <2>3, <2>4, <2>5 DEF IInv
<1>6. CASE Exited \/ UNCHANGED vars
  BY <1>6 DEF Exited, vars, IInv, TypeOK, LogInv, FileInTimeOrder
<1>  QED  BY <1>1, <1>2, <1>3, <1>4, <1>5, <1>6 DEF Next

\* The invariant of every reachable state: the buffer is well formed and
\* whatever a flush would write at that moment is in timestamp order.
THEOREM Invariant == Spec => []IInv
  BY InitInvariant, NextInvariant, PTL DEF Spec

\* The variables keep their types under every policy.
THEOREM TypeCorrect == Spec => []TypeOK
<1>1. IInv => TypeOK
  BY DEF IInv
<1>  QED  BY <1>1, Invariant, PTL

\* Every traces.bts a thread leaves is in timestamp order, also when the
\* ring wrapped any number of times: the order the post-processor's merge
\* relies on.
THEOREM FilesSorted == Spec => []FileInTimeOrder
<1>1. IInv => FileInTimeOrder
  BY DEF IInv
<1>  QED  BY <1>1, Invariant, PTL

-----------------------------------------------------------------------------
(* Refinement: array and index implement the bounded log. *)

ThreadLog == IF tracrThread = NoThread THEN << >> ELSE FlushTraces(tracrThread)

LEMMA MarkRefines ==
  ASSUME IInv, NEW p \in Payload, Store(p)
  PROVE  Log!Next \/ UNCHANGED << ThreadLog, bts, status = "failed" >>
<1>1. /\ GoodBuffer(Payload, tracrThread) /\ tracrThread # NoThread /\ status = "running"
      /\ tracrThread' = StoreTrace(tracrThread, p)
      /\ status' = IF Aborts(tracrThread) THEN "failed" ELSE "running"
      /\ bts' = bts
  BY DEF Store, IInv, LogInv
<1>2. /\ Len(FlushTraces(tracrThread)) = Kept(tracrThread)
      /\ tracrThread.traceIdx \in Nat /\ Capacity \in Nat \ {0}
  BY <1>1, FlushShape, BufferParameters DEF GoodBuffer, Buffer
<1>3. Log!Room <=> ~ IsFull(tracrThread)
  BY <1>1, <1>2 DEF Log!Room, IsFull, Kept
<1>4. CASE ~ IsFull(tracrThread)
  <2>1. tracrThread' = Stored(tracrThread, p) /\ status' = "running"
    BY <1>1, <1>4 DEF StoreTrace, Aborts
  <2>2. tracrThread.traceIdx < Capacity
    BY <1>2, <1>4 DEF IsFull
  <2>3. /\ GoodBuffer(Payload, tracrThread')
        /\ FlushTraces(tracrThread') = Append(FlushTraces(tracrThread), p)
    BY <1>1, <2>1, <2>2, StoreWithRoom
  <2>4. tracrThread' # NoThread
    BY <2>3, ThreadAssumption DEF GoodBuffer
  <2>5. Log!Keep(p)
    BY <1>1, <1>3, <1>4, <2>1, <2>3, <2>4 DEF Log!Keep
  <2>  QED  BY <2>5 DEF Log!Next
<1>5. CASE IsFull(tracrThread) /\ Policy = "periodic"
  <2>1. tracrThread' = Stored(tracrThread, p) /\ status' = "running"
    BY <1>1, <1>5 DEF StoreTrace, Aborts
  <2>2. tracrThread.traceIdx >= Capacity
    BY <1>5 DEF IsFull
  <2>3. /\ GoodBuffer(Payload, tracrThread')
        /\ FlushTraces(tracrThread') = Append(Tail(FlushTraces(tracrThread)), p)
    BY <1>1, <1>5, <2>1, <2>2, StoreOverOldest
  <2>4. tracrThread' # NoThread
    BY <2>3, ThreadAssumption DEF GoodBuffer
  <2>5. Log!PushOut(p)
    BY <1>1, <1>3, <1>5, <2>1, <2>3, <2>4 DEF Log!PushOut
  <2>  QED  BY <2>5 DEF Log!Next
<1>6. CASE IsFull(tracrThread) /\ Policy = "ignore"
  BY <1>1, <1>6 DEF StoreTrace, Aborts, ThreadLog
<1>7. CASE IsFull(tracrThread) /\ Policy = "abort"
  <2>1. tracrThread' = tracrThread /\ status' = "failed"
    BY <1>1, <1>7 DEF StoreTrace, Aborts
  <2>2. Log!Fail
    BY <1>1, <1>3, <1>7, <2>1 DEF Log!Fail
  <2>  QED  BY <2>2 DEF Log!Next
<1>  QED  BY <1>4, <1>5, <1>6, <1>7, BufferAssumption

LEMMA FinalizeRefines ==
  ASSUME IInv, ThreadFinalize
  PROVE  Log!Publish
<1>1. /\ GoodBuffer(Payload, tracrThread) /\ tracrThread # NoThread /\ status = "running"
      /\ tracrThread' = NoThread /\ status' = status
      /\ bts' = IF tracrThread.traceIdx = 0 THEN bts ELSE FlushTraces(tracrThread)
  BY DEF ThreadFinalize, IInv, LogInv
<1>2. FlushTraces(tracrThread) = << >> <=> tracrThread.traceIdx = 0
  <2>1. /\ FlushTraces(tracrThread) \in Seq(Payload)
        /\ Len(FlushTraces(tracrThread)) = Kept(tracrThread)
        /\ tracrThread.traceIdx \in Nat /\ Capacity \in Nat \ {0}
    BY <1>1, FlushShape, BufferParameters DEF GoodBuffer, Buffer
  <2>2. Kept(tracrThread) = 0 <=> tracrThread.traceIdx = 0
    BY <2>1 DEF Kept
  <2>  QED  BY <2>1, <2>2, EmptySeq
<1>  QED  BY <1>1, <1>2 DEF Log!Publish

\* Under each of the three policies a TraCR thread implements the bounded log:
\* no payload is lost, reordered or duplicated other than by the policy, and
\* the file a thread leaves is its log at the moment it finalized.
THEOREM ImplementsBoundedLog == Spec => LogSpec
<1>1. Init => Log!Init
  BY DEF Init, Log!Init
<1>2. IInv /\ [Next]_vars => [Log!Next]_<< ThreadLog, bts, status = "failed" >>
  <2>  SUFFICES ASSUME IInv, [Next]_vars
                PROVE  Log!Next \/ UNCHANGED << ThreadLog, bts, status = "failed" >>
    OBVIOUS
  <2>1. CASE ThreadInit
    <3>1. tracrThread' # NoThread /\ FlushTraces(tracrThread') = << >>
      BY <2>1, FreshBuffer, ThreadAssumption DEF ThreadInit, GoodBuffer
    <3>  QED  BY <2>1, <3>1 DEF ThreadInit, ThreadLog
  <2>2. CASE Mark
    BY <2>2, MarkStores, MarkRefines
  <2>3. CASE ThreadInitAgain \/ ThreadFinalizeAgain
    BY <2>3 DEF ThreadInitAgain, ThreadFinalizeAgain, ThreadLog
  <2>4. CASE InstrumentationOn \/ InstrumentationOff
    BY <2>4 DEF InstrumentationOn, InstrumentationOff, ThreadLog
  <2>5. CASE ThreadFinalize
    BY <2>5, FinalizeRefines DEF Log!Next
  <2>6. CASE Exited \/ UNCHANGED vars
    BY <2>6 DEF Exited, vars, ThreadLog
  <2>  QED  BY <2>1, <2>2, <2>3, <2>4, <2>5, <2>6 DEF Next
<1>  QED  BY <1>1, <1>2, Invariant, PTL DEF Spec, LogSpec, Log!Spec, ThreadLog

-----------------------------------------------------------------------------
(* The clock: the converted hardware counter is exact and does not go back, *)
(* for every frequency, so a thread that uses it is one of TracrThread.     *)

\* A quotient is what leaves a rest smaller than the divisor.
LEMMA QuotientUnique ==
  ASSUME NEW a \in Nat, NEW d \in Nat \ {0}, NEW q \in Nat,
         q * d <= a, a < q * d + d
  PROVE  a \div d = q
<1>1. a \div d \in Nat /\ (a \div d) * d <= a /\ a < (a \div d) * d + d
  BY Z3
<1>  DEFINE r == a \div d
<1>2. r \in Nat /\ r * d < q * d + d /\ q * d < r * d + d
  BY <1>1
<1>  HIDE DEF r
<1>3. r < q + 1 /\ q < r + 1
  BY <1>2, Z3
<1>  QED  BY <1>2, <1>3 DEF r

LEMMA QuotientFacts ==
  ASSUME NEW a \in Nat, NEW d \in Nat \ {0}
  PROVE  /\ a \div d \in Nat /\ a % d \in 0 .. d - 1
         /\ a = (a \div d) * d + (a % d)
  BY Z3

\* Larger numbers have no smaller quotient.
LEMMA QuotientMonotone ==
  ASSUME NEW a \in Nat, NEW b \in Nat, NEW d \in Nat \ {0}, a <= b
  PROVE  a \div d <= b \div d
  BY Z3

\* ticks_to_ns() is the exact conversion, rounded down: no product that fits the
\* result is lost on the way, as ticks * 1e9 would be after six seconds.
LEMMA TicksToNsExact ==
  ASSUME NEW ticks \in 0 .. MaxTicks
  PROVE  /\ TicksToNs(ticks) = (ticks * Second) \div Frequency
         /\ ticks * Second \in Nat
<1>  DEFINE F == Frequency  S == Second  W == UInt64Max + 1
            s == ticks \div F  r == ticks % F  q == (r * S) \div F
<1>1. /\ F \in Nat \ {0} /\ S \in Nat \ {0} /\ UInt64Max \in Nat /\ F * S <= UInt64Max
      /\ MaxTicks \in Nat /\ MaxTicks * S <= UInt64Max * F
  BY TimerAssumption, CounterAssumption
<1>2. ticks \in Nat /\ ticks <= MaxTicks
  BY <1>1
<1>3. s \in Nat /\ r \in Nat /\ r < F /\ ticks = s * F + r
  BY <1>1, <1>2, QuotientFacts
<1>  HIDE DEF s, r
<1>4. r * S \in Nat /\ r * S <= UInt64Max
  <2>1. r * S \in Nat /\ r * S <= F * S
    BY <1>1, <1>3, Z3
  <2>  QED  BY <1>1, <2>1, Z3
<1>5. q \in Nat /\ q * F <= r * S /\ r * S < q * F + F
  <2>1. (r * S) % F \in 0 .. F - 1 /\ r * S = q * F + ((r * S) % F) /\ q \in Nat
    BY <1>1, <1>4, QuotientFacts
  <2>  HIDE DEF q
  <2>2. q * F \in Nat
    BY <1>1, <2>1, Z3
  <2>  QED  BY <1>1, <2>1, <2>2
<1>6. ticks * S = (s * S) * F + r * S
  BY <1>1, <1>3, Z3
<1>  HIDE DEF q
<1>7. s * S \in Nat /\ s * S + q \in Nat /\ (s * S + q) * F = (s * S) * F + q * F
  BY <1>1, <1>3, <1>5, Z3
<1>8. ticks * S \in Nat /\ (s * S + q) * F <= ticks * S /\ ticks * S < (s * S + q) * F + F
  <2>1. (s * S) * F \in Nat /\ q * F \in Nat
    BY <1>1, <1>5, <1>7, Z3
  <2>  QED  BY <1>1, <1>4, <1>5, <1>6, <1>7, <2>1
<1>9. (ticks * S) \div F = s * S + q
  BY <1>1, <1>7, <1>8, QuotientUnique
<1>10. s * S + q <= UInt64Max
  <2>1. ticks * S <= MaxTicks * S
    BY <1>1, <1>2, Z3
  <2>2. (s * S + q) * F <= UInt64Max * F
    BY <1>1, <1>2, <1>7, <1>8, <2>1, Z3
  <2>  QED  BY <1>1, <1>7, <2>2, Z3
<1>11. \A n \in 0 .. UInt64Max : Word(n) = n
  BY <1>1 DEF Word
<1>12. Word(s * S) = s * S /\ Word(r * S) = r * S /\ Word(s * S + q) = s * S + q
  BY <1>1, <1>4, <1>5, <1>7, <1>10, <1>11
<1>13. TicksToNs(ticks) = s * S + q
  <2>1. TicksToNs(ticks) = Word(Word(s * S) + (Word(r * S) \div F))
    BY DEF TicksToNs, s, r
  <2>  QED  BY <1>12, <2>1 DEF q
<1>  QED  BY <1>8, <1>9, <1>13

\* A later reading of the counter is no earlier time.
LEMMA TicksToNsMonotone ==
  ASSUME NEW t \in 0 .. MaxTicks, NEW u \in 0 .. MaxTicks, t <= u
  PROVE  TicksToNs(t) <= TicksToNs(u)
<1>1. Second \in Nat /\ Frequency \in Nat \ {0} /\ MaxTicks \in Nat
  BY TimerAssumption, CounterAssumption
<1>2. t * Second <= u * Second
  BY <1>1, Z3
<1>  QED  BY <1>1, <1>2, TicksToNsExact, QuotientMonotone

\* The last time that was stored is not ahead of the counter.
ClockBehind ==
  /\ counter \in 0 .. MaxTicks
  /\ clock \in Nat /\ clock <= TicksToNs(counter)

LEMMA NanosecondsOfCounter ==
  ASSUME NEW t \in 0 .. MaxTicks
  PROVE  TicksToNs(t) \in Timestamp /\ TicksToNs(t) \in Nat
  BY CounterAssumption, PayloadAssumption

\* A marker call that reads the counter is one of TracrThread, and sets the clock to
\* what it read.
LEMMA CounterMark ==
  ASSUME ClockBehind, MarkAt(TicksToNs(counter))
  PROVE  Mark /\ clock' = TicksToNs(counter)
<1>1. TicksToNs(counter) \in Now
  BY NanosecondsOfCounter DEF ClockBehind, Now
<1>2. clock' = TicksToNs(counter)
  BY DEF MarkAt, MarkSet, MarkReset, FlowStart, FlowEnd, Store, SetPayload,
         ResetPayload, FlowStartPayload, FlowEndPayload
<1>  QED  BY <1>1, <1>2 DEF Mark

LEMMA StepRefines ==
  ASSUME ClockBehind, [CounterNext]_counterVars
  PROVE  ClockBehind' /\ [Next]_vars
<1>1. CASE Tick
  <2>1. counter' \in 0 .. MaxTicks /\ counter <= counter'
    BY <1>1, CounterAssumption DEF Tick, ClockBehind
  <2>2. TicksToNs(counter) <= TicksToNs(counter')
    BY <2>1, TicksToNsMonotone DEF ClockBehind
  <2>3. clock' = clock /\ TicksToNs(counter) \in Nat /\ TicksToNs(counter') \in Nat
    BY <1>1, <2>1, NanosecondsOfCounter DEF Tick, vars, ClockBehind
  <2>  QED  BY <1>1, <2>1, <2>2, <2>3 DEF Tick, ClockBehind
<1>2. CASE MarkAt(TicksToNs(counter)) /\ counter' = counter
  <2>1. Mark /\ clock' = TicksToNs(counter)
    BY <1>2, CounterMark
  <2>  QED  BY <1>2, <2>1, NanosecondsOfCounter DEF ClockBehind, Next
<1>3. CASE /\ counter' = counter
           /\ \/ ThreadInit \/ ThreadInitAgain \/ InstrumentationOn
              \/ InstrumentationOff \/ ThreadFinalize \/ ThreadFinalizeAgain \/ Exited
  <2>1. clock' = clock
    BY <1>3 DEF ThreadInit, ThreadInitAgain, InstrumentationOn, InstrumentationOff,
                ThreadFinalize, ThreadFinalizeAgain, Exited, vars
  <2>  QED  BY <1>3, <2>1 DEF ClockBehind, Next
<1>4. CASE UNCHANGED counterVars
  BY <1>4 DEF counterVars, vars, ClockBehind
<1>  QED  BY <1>1, <1>2, <1>3, <1>4 DEF CounterNext

\* A thread whose clock is the converted counter implements the thread of
\* TracrThread, so all that is proved there holds in both builds.
THEOREM CounterIsClock == CounterSpec => ClockSpec
<1>1. CounterInit => Init /\ ClockBehind
  BY NanosecondsOfCounter, CounterAssumption DEF CounterInit, Init, ClockBehind
<1>2. ClockBehind /\ [CounterNext]_counterVars => ClockBehind' /\ [Next]_vars
  BY StepRefines
<1>  QED  BY <1>1, <1>2, PTL DEF CounterSpec, ClockSpec, Spec

\* Then its files are in time order.
THEOREM CounterFilesSorted == CounterSpec => []FileInTimeOrder
  BY CounterIsClock, FilesSorted DEF ClockSpec

=============================================================================
