------------------------- MODULE TraceBufferProofs --------------------------
(***************************************************************************)
(* What the operators of TraceBuffer compute, for every capacity, policy   *)
(* and kind of element: store_trace() and flush_traces() on the array are  *)
(* Append and Tail on a sequence.                                          *)
(***************************************************************************)
EXTENDS TraceBuffer, SequenceTheorems, TLAPS

-----------------------------------------------------------------------------
(* Arithmetic of the ring index. *)

LEMMA DivMod ==
  ASSUME NEW n \in Nat, NEW C \in Nat \ {0}
  PROVE  n = (C * (n \div C)) + (n % C) /\ n \div C \in Nat /\ n % C \in 0 .. C - 1
  BY SMT

LEMMA DivModUnique ==
  ASSUME NEW C \in Nat \ {0}, NEW q \in Int, NEW r \in 0 .. C - 1,
         NEW q2 \in Int, NEW r2 \in 0 .. C - 1, C * q + r = C * q2 + r2
  PROVE  r = r2
<1>1. CASE q >= q2 + 1
  <2>1. C * q >= C * q2 + C  BY <1>1
  <2>  QED  BY <2>1
<1>2. CASE q2 >= q + 1
  <2>1. C * q2 >= C * q + C  BY <1>2
  <2>  QED  BY <2>1
<1>3. CASE q = q2
  BY <1>3
<1>  QED  BY <1>1, <1>2, <1>3

\* The index of the oldest entry runs through the slots, one per store.
LEMMA NextMod ==
  ASSUME NEW n \in Nat, NEW C \in Nat \ {0}
  PROVE  /\ (n + 1) % C = IF n % C = C - 1 THEN 0 ELSE (n % C) + 1
         /\ C % C = 0
<1> DEFINE q == n \div C         r == n % C
           q2 == (n + 1) \div C  r2 == (n + 1) % C
<1>1. n = C * q + r /\ q \in Nat /\ r \in 0 .. C - 1
  BY DivMod
<1>2. n + 1 = C * q2 + r2 /\ q2 \in Nat /\ r2 \in 0 .. C - 1
  <2>1. n + 1 \in Nat  OBVIOUS
  <2>  QED  BY <2>1, DivMod
<1>3. CASE r = C - 1
  <2>1. C * q2 + r2 = C * (q + 1) + 0 /\ q + 1 \in Int /\ 0 \in 0 .. C - 1
    BY <1>1, <1>2, <1>3
  <2>  HIDE DEF q, r, q2, r2
  <2>2. r2 = 0  BY <2>1, <1>1, <1>2, DivModUnique
  <2>  QED  BY <2>2, <1>3 DEF r, r2
<1>4. CASE r # C - 1
  <2>1. C * q2 + r2 = C * q + (r + 1) /\ r + 1 \in 0 .. C - 1
    BY <1>1, <1>2, <1>4
  <2>  HIDE DEF q, r, q2, r2
  <2>2. r2 = r + 1  BY <2>1, <1>1, <1>2, DivModUnique
  <2>  QED  BY <2>2, <1>4 DEF r, r2
<1>5. C % C = 0
  <2>1. C = C * (C \div C) + (C % C) /\ C \div C \in Nat /\ C % C \in 0 .. C - 1
    BY DivMod
  <2>2. C * (C \div C) + (C % C) = C * 1 + 0  BY <2>1
  <2>  QED  BY <2>1, <2>2, DivModUnique
<1>  QED  BY <1>3, <1>4, <1>5

-----------------------------------------------------------------------------
(* The array as a log. *)

\* A buffer the program can hold: what was written is a payload, and only the
\* periodic policy lets the index pass the capacity.
GoodBuffer(Element, b) ==
  /\ b \in Buffer(Element)
  /\ \A i \in Slot : i < b.traceIdx => b.traces[i] \in Element
  /\ Policy # "periodic" => b.traceIdx <= Capacity

\* How many payloads the buffer keeps, and the slot of the k-th of them.
Kept(b) == IF b.traceIdx > Capacity THEN Capacity ELSE b.traceIdx
SlotOf(b, k) ==
  IF b.traceIdx <= Capacity THEN k - 1
  ELSE IF k <= Capacity - Oldest(b) THEN Oldest(b) + k - 1
  ELSE Oldest(b) + k - 1 - Capacity

LEMMA BufferParameters == Capacity \in Nat \ {0}
  BY BufferAssumption

LEMMA OldestInSlot ==
  ASSUME NEW Element, NEW b, GoodBuffer(Element, b)
  PROVE  b.traceIdx \in Nat /\ Oldest(b) \in Slot /\ Kept(b) \in 0 .. Capacity
<1>1. b.traceIdx \in Nat
  BY DEF GoodBuffer, Buffer
<1>2. Oldest(b) \in Slot
  BY <1>1, BufferParameters, DivMod DEF Oldest, Slot
<1>3. Kept(b) \in 0 .. Capacity
  BY <1>1, BufferParameters DEF Kept
<1>  QED  BY <1>1, <1>2, <1>3

LEMMA FunctionIsSeq ==
  ASSUME NEW E, NEW n \in Nat, NEW f \in [1 .. n -> E]
  PROVE  f \in Seq(E) /\ Len(f) = n
<1>1. f \in Seq(E)
  BY SeqDef
<1>  QED  BY <1>1, LenProperties

\* What flush_traces() writes: the kept payloads, in the order of SlotOf.
LEMMA FlushShape ==
  ASSUME NEW Element, NEW b, GoodBuffer(Element, b)
  PROVE  /\ FlushTraces(b) \in Seq(Element)
         /\ Len(FlushTraces(b)) = Kept(b)
         /\ \A k \in 1 .. Kept(b) : /\ FlushTraces(b)[k] = b.traces[SlotOf(b, k)]
                                    /\ SlotOf(b, k) \in Slot
                                    /\ b.traces[SlotOf(b, k)] \in Element
<1>1. CASE b.traceIdx > Capacity
  <2>1. Wrapped(b)
    BY <1>1, BufferParameters DEF GoodBuffer, Buffer, Wrapped
  <2>2. \A i \in Slot : b.traces[i] \in Element
    BY <1>1, BufferParameters DEF GoodBuffer, Slot, Buffer
  <2>  DEFINE o == Oldest(b)
             s == Slots(b, o, Capacity - o)
             t == Slots(b, 0, o)
  <2>3. o \in 0 .. Capacity - 1 /\ Capacity \in Nat /\ Capacity - o \in Nat
    BY OldestInSlot, BufferParameters DEF Slot
  <2>  HIDE DEF o
  <2>4. /\ s \in Seq(Element) /\ Len(s) = Capacity - o
        /\ \A k \in 1 .. Capacity - o : s[k] = b.traces[o + k - 1]
    <3>1. \A k \in 1 .. Capacity - o : o + k - 1 \in Slot
      BY <2>3 DEF Slot
    <3>2. \A k \in 1 .. Capacity - o : b.traces[o + k - 1] \in Element
      BY <2>2, <3>1
    <3>3. o \in Nat /\ Capacity - o \in Nat
      BY <2>3
    <3>4. s \in [1 .. Capacity - o -> Element]
      BY <3>2 DEF Slots
    <3>5. \A k \in 1 .. Capacity - o : s[k] = b.traces[o + k - 1]
      BY DEF Slots
    <3>  HIDE DEF s
    <3>  QED  BY <3>3, <3>4, <3>5, FunctionIsSeq
  <2>5. /\ t \in Seq(Element) /\ Len(t) = o
        /\ \A k \in 1 .. o : t[k] = b.traces[k - 1]
    <3>1. \A k \in 1 .. o : 0 + k - 1 \in Slot /\ 0 + k - 1 = k - 1
      BY <2>3 DEF Slot
    <3>2. \A k \in 1 .. o : b.traces[0 + k - 1] \in Element
      BY <2>2, <3>1
    <3>3. o \in Nat /\ 0 \in Nat
      BY <2>3
    <3>4. t \in [1 .. o -> Element]
      BY <3>2 DEF Slots
    <3>5. \A k \in 1 .. o : t[k] = b.traces[0 + k - 1]
      BY DEF Slots
    <3>  HIDE DEF t
    <3>  QED  BY <3>1, <3>3, <3>4, <3>5, FunctionIsSeq
  <2>6. FlushTraces(b) = s \o t
    BY <2>1 DEF FlushTraces, o
  <2>7. Kept(b) = Capacity
    BY <1>1 DEF Kept
  <2>  HIDE DEF s, t
  <2>8. ASSUME NEW k \in 1 .. Capacity
        PROVE  /\ (s \o t)[k] = b.traces[SlotOf(b, k)]
               /\ SlotOf(b, k) \in Slot
    <3>1. SlotOf(b, k) = IF k <= Capacity - o THEN o + k - 1
                         ELSE o + k - 1 - Capacity
      BY <1>1, BufferParameters DEF SlotOf, o, GoodBuffer, Buffer
    <3>2. (s \o t)[k] = IF k <= Capacity - o THEN s[k] ELSE t[k - (Capacity - o)]
      <4>1. Len(s) + Len(t) = Capacity
        BY <2>3, <2>4, <2>5
      <4>2. \A i \in 1 .. Len(s) + Len(t) :
              (s \o t)[i] = IF i <= Len(s) THEN s[i] ELSE t[i - Len(s)]
        BY <2>4, <2>5, ConcatProperties
      <4>  QED  BY <2>4, <4>1, <4>2
    <3>3. CASE k <= Capacity - o
      BY <2>3, <2>4, <3>1, <3>2, <3>3 DEF Slot
    <3>4. CASE ~(k <= Capacity - o)
      <4>1. k - (Capacity - o) \in 1 .. o /\ k - (Capacity - o) - 1 = o + k - 1 - Capacity
        BY <2>3, <3>4
      <4>  QED  BY <2>3, <2>5, <3>1, <3>2, <3>4, <4>1 DEF Slot
    <3>  QED  BY <3>3, <3>4
  <2>9. s \o t \in Seq(Element) /\ Len(s \o t) = Capacity
    <3>1. s \o t \in Seq(Element) /\ Len(s \o t) = Len(s) + Len(t)
      BY <2>4, <2>5, ConcatProperties
    <3>  QED  BY <2>3, <2>4, <2>5, <3>1
  <2>  QED  BY <2>2, <2>6, <2>7, <2>8, <2>9
<1>2. CASE ~(b.traceIdx > Capacity)
  <2>1. b.traceIdx \in Nat /\ b.traceIdx <= Capacity /\ Kept(b) = b.traceIdx
        /\ ~ Wrapped(b) /\ Capacity \in Nat
    BY <1>2, BufferParameters DEF GoodBuffer, Buffer, Kept, Wrapped
  <2>2. FlushTraces(b) = Slots(b, 0, b.traceIdx)
    BY <2>1 DEF FlushTraces, NumWritten
  <2>3. \A k \in 1 .. b.traceIdx :
          0 + k - 1 = SlotOf(b, k) /\ SlotOf(b, k) \in Slot
                                  /\ SlotOf(b, k) < b.traceIdx
    BY <2>1 DEF SlotOf, Slot
  <2>4. \A k \in 1 .. b.traceIdx : b.traces[SlotOf(b, k)] \in Element
    BY <2>3 DEF GoodBuffer
  <2>5. \A k \in 1 .. b.traceIdx : b.traces[0 + k - 1] \in Element
    BY <2>3, <2>4
  <2>6. /\ FlushTraces(b) \in Seq(Element)
        /\ Len(FlushTraces(b)) = b.traceIdx
        /\ \A k \in 1 .. b.traceIdx : FlushTraces(b)[k] = b.traces[0 + k - 1]
    <3>1. 0 \in Nat /\ b.traceIdx \in Nat
      BY <2>1
    <3>  DEFINE n == b.traceIdx
    <3>  HIDE DEF n
    <3>2. n \in Nat /\ \A k \in 1 .. n : b.traces[0 + k - 1] \in Element
      BY <3>1, <2>5 DEF n
    <3>  DEFINE s == Slots(b, 0, n)
    <3>3. s \in [1 .. n -> Element]
      BY <3>2 DEF Slots
    <3>4. \A k \in 1 .. n : s[k] = b.traces[0 + k - 1]
      BY DEF Slots
    <3>  HIDE DEF s
    <3>5. s \in Seq(Element) /\ Len(s) = n
      BY <3>2, <3>3, FunctionIsSeq
    <3>  QED  BY <2>2, <3>4, <3>5 DEF n, s
  <2>  QED  BY <2>1, <2>3, <2>4, <2>6
<1>  QED  BY <1>1, <1>2

\* Storing into a buffer with room appends.
LEMMA StoreWithRoom ==
  ASSUME NEW Element, NEW b, GoodBuffer(Element, b), NEW p \in Element, b.traceIdx < Capacity
  PROVE  /\ GoodBuffer(Element, Stored(b, p))
         /\ FlushTraces(Stored(b, p)) = Append(FlushTraces(b), p)
<1> DEFINE c == Stored(b, p)
           n == b.traceIdx
<1>1. n \in Nat /\ Capacity \in Nat \ {0} /\ n \in Slot
      /\ b.traces \in [Slot -> Element \cup {Unset}]
  BY BufferParameters DEF GoodBuffer, Buffer, Slot
<1>2. NextSlot(b) = n
  <2>1. n % Capacity = n
    <3>  DEFINE q == n \div Capacity   r == n % Capacity
    <3>1. n = Capacity * q + r /\ q \in Nat /\ r \in 0 .. Capacity - 1
      BY <1>1, DivMod
    <3>  HIDE DEF q, r, n
    <3>2. Capacity * q + r = Capacity * 0 + n /\ n \in 0 .. Capacity - 1
          /\ 0 \in Int /\ q \in Int
      BY <1>1, <3>1 DEF Slot
    <3>3. r = n
      BY <1>1, <3>1, <3>2, DivModUnique
    <3>  QED  BY <3>3 DEF r
  <2>  QED  BY <2>1 DEF NextSlot
<1>3. c.traceIdx = n + 1 /\ c.traces = [b.traces EXCEPT ![n] = p]
  BY <1>2 DEF Stored
<1>4. GoodBuffer(Element, c)
  <2>1. c.traces \in [Slot -> Element \cup {Unset}] /\ n + 1 \in Nat
    BY <1>1, <1>3
  <2>2. c \in Buffer(Element)
    BY <1>3, <2>1 DEF Stored, Buffer
  <2>3. \A i \in Slot : i < n + 1 => c.traces[i] \in Element
    BY <1>1, <1>3 DEF GoodBuffer, Slot
  <2>4. n + 1 <= Capacity
    BY <1>1
  <2>  QED  BY <1>3, <2>2, <2>3, <2>4 DEF GoodBuffer
<1>5. Kept(b) = n /\ Kept(c) = n + 1
  BY <1>1, <1>3 DEF Kept
<1>6. /\ FlushTraces(b) \in Seq(Element) /\ Len(FlushTraces(b)) = n
      /\ \A k \in 1 .. n : FlushTraces(b)[k] = b.traces[k - 1]
  BY <1>1, <1>5, FlushShape DEF SlotOf
<1>7. /\ FlushTraces(c) \in Seq(Element) /\ Len(FlushTraces(c)) = n + 1
      /\ \A k \in 1 .. n + 1 : FlushTraces(c)[k] = c.traces[k - 1]
  <2>  HIDE DEF c
  <2>1. \A k \in 1 .. n + 1 : SlotOf(c, k) = k - 1
    BY <1>1, <1>3 DEF SlotOf
  <2>  QED  BY <1>4, <1>5, <2>1, FlushShape
<1>  HIDE DEF c, n
<1>8. \A k \in 1 .. n + 1 : c.traces[k - 1] = IF k = n + 1 THEN p ELSE b.traces[k - 1]
  BY <1>1, <1>3 DEF Slot
<1>  DEFINE s == FlushTraces(b)
            t == FlushTraces(c)
<1>  HIDE DEF s, t
<1>9. t = Append(s, p)
  <2>1. /\ Append(s, p) \in Seq(Element) /\ Len(Append(s, p)) = n + 1
        /\ \A k \in 1 .. n : Append(s, p)[k] = s[k]
        /\ Append(s, p)[n + 1] = p
    BY <1>6, AppendProperties DEF s
  <2>2. \A k \in 1 .. n + 1 : t[k] = Append(s, p)[k]
    BY <1>1, <1>6, <1>7, <1>8, <2>1 DEF s, t
  <2>  QED  BY <1>7, <2>1, <2>2, SeqEqual DEF t
<1>  QED  BY <1>4, <1>9 DEF c, s, t

\* Storing into a full periodic buffer replaces the oldest entry.
LEMMA StoreOverOldest ==
  ASSUME NEW Element, NEW b, GoodBuffer(Element, b), NEW p \in Element,
         Policy = "periodic", b.traceIdx >= Capacity
  PROVE  /\ GoodBuffer(Element, Stored(b, p))
         /\ FlushTraces(b) # << >>
         /\ FlushTraces(Stored(b, p)) = Append(Tail(FlushTraces(b)), p)
<1> DEFINE c == Stored(b, p)
           n == b.traceIdx
           o == Oldest(b)
           o2 == Oldest(c)
<1>1. n \in Nat /\ Capacity \in Nat \ {0} /\ o \in 0 .. Capacity - 1
      /\ b.traces \in [Slot -> Element \cup {Unset}]
  BY BufferParameters, OldestInSlot DEF GoodBuffer, Buffer, Slot
<1>2. c.traceIdx = n + 1 /\ c.traces = [b.traces EXCEPT ![o] = p]
  BY DEF Stored, NextSlot, Oldest
<1>3. o2 = IF o = Capacity - 1 THEN 0 ELSE o + 1
  <2>1. o2 = (n + 1) % Capacity /\ o = n % Capacity
    BY <1>2 DEF Oldest
  <2>  QED  BY <1>1, <2>1, NextMod
<1>4. n = Capacity => o = 0
  BY <1>1, NextMod DEF Oldest
<1>5. \A i \in Slot : b.traces[i] \in Element
  BY <1>1 DEF GoodBuffer, Slot
<1>6. GoodBuffer(Element, c)
  <2>1. c.traces \in [Slot -> Element] /\ n + 1 \in Nat
    BY <1>1, <1>2, <1>5 DEF Slot
  <2>2. c \in Buffer(Element)
    BY <1>2, <2>1 DEF Stored, Buffer
  <2>  QED  BY <1>2, <2>1, <2>2 DEF GoodBuffer
<1>  HIDE DEF c, n, o, o2
<1>7. Kept(b) = Capacity /\ Kept(c) = Capacity
  BY <1>1, <1>2 DEF Kept, n
<1>8. \A k \in 1 .. Capacity :
        SlotOf(b, k) = IF k <= Capacity - o THEN o + k - 1 ELSE o + k - 1 - Capacity
  BY <1>1, <1>4 DEF SlotOf, n, o
<1>9. \A k \in 1 .. Capacity :
        SlotOf(c, k) = IF k <= Capacity - o2 THEN o2 + k - 1 ELSE o2 + k - 1 - Capacity
  BY <1>1, <1>2 DEF SlotOf, n, o2
<1>10. /\ \A k \in 1 .. Capacity - 1 : /\ SlotOf(c, k) = SlotOf(b, k + 1)
                                        /\ SlotOf(b, k + 1) # o
                                        /\ SlotOf(b, k + 1) \in Slot
       /\ SlotOf(c, Capacity) = o
  BY <1>1, <1>3, <1>8, <1>9 DEF Slot
<1>  DEFINE s == FlushTraces(b)
            t == FlushTraces(c)
<1>11. /\ s \in Seq(Element) /\ Len(s) = Capacity
       /\ \A k \in 1 .. Capacity : s[k] = b.traces[SlotOf(b, k)]
  BY <1>7, FlushShape
<1>12. /\ t \in Seq(Element) /\ Len(t) = Capacity
       /\ \A k \in 1 .. Capacity : t[k] = c.traces[SlotOf(c, k)]
  BY <1>6, <1>7, FlushShape
<1>13. /\ \A k \in 1 .. Capacity - 1 : c.traces[SlotOf(c, k)] = b.traces[SlotOf(b, k + 1)]
       /\ c.traces[SlotOf(c, Capacity)] = p
  BY <1>1, <1>2, <1>10 DEF Slot
<1>  HIDE DEF s, t
<1>14. s # << >>
  BY <1>1, <1>11, EmptySeq
<1>15. /\ Tail(s) \in Seq(Element) /\ Len(Tail(s)) = Capacity - 1
       /\ \A k \in 1 .. Capacity - 1 : Tail(s)[k] = s[k + 1]
  BY <1>11, <1>14, HeadTailProperties
<1>  DEFINE u == Append(Tail(s), p)
<1>16. /\ u \in Seq(Element) /\ Len(u) = Capacity
       /\ \A k \in 1 .. Capacity - 1 : u[k] = s[k + 1]
       /\ u[Capacity] = p
  <2>1. /\ u \in Seq(Element) /\ Len(u) = Len(Tail(s)) + 1
        /\ \A k \in 1 .. Len(Tail(s)) : u[k] = Tail(s)[k]
        /\ u[Len(Tail(s)) + 1] = p
    BY <1>15, AppendProperties
  <2>  QED  BY <1>1, <1>15, <2>1
<1>  HIDE DEF u
<1>17. \A k \in 1 .. Capacity : t[k] = u[k]
  <2>1. ASSUME NEW k \in 1 .. Capacity PROVE t[k] = u[k]
    <3>1. CASE k = Capacity
      BY <1>12, <1>13, <1>16, <3>1
    <3>2. CASE k # Capacity
      <4>1. k \in 1 .. Capacity - 1 /\ k + 1 \in 1 .. Capacity
        BY <1>1, <3>2
      <4>2. t[k] = c.traces[SlotOf(c, k)] /\ s[k + 1] = b.traces[SlotOf(b, k + 1)]
        BY <1>11, <1>12, <4>1
      <4>  QED  BY <1>13, <1>16, <4>1, <4>2
    <3>  QED  BY <3>1, <3>2
  <2>  QED  BY <2>1
<1>18. t = u
  BY <1>12, <1>16, <1>17, SeqEqual
<1>  QED  BY <1>6, <1>14, <1>18 DEF c, s, t, u

LEMMA FreshBuffer ==
  ASSUME NEW Element
  PROVE  /\ GoodBuffer(Element, EmptyBuffer)
         /\ FlushTraces(EmptyBuffer) = << >>
<1>1. EmptyBuffer \in Buffer(Element)
  BY DEF EmptyBuffer, Buffer
<1>2. EmptyBuffer.traceIdx = 0
  BY DEF EmptyBuffer
<1>3. GoodBuffer(Element, EmptyBuffer)
  BY <1>1, <1>2, BufferParameters DEF GoodBuffer, Slot
<1>4. FlushTraces(EmptyBuffer) \in Seq(Element) /\ Len(FlushTraces(EmptyBuffer)) = 0
  BY <1>2, <1>3, FlushShape, BufferParameters DEF Kept
<1>5. FlushTraces(EmptyBuffer) = << >>
  BY <1>4, EmptySeq
<1>  QED  BY <1>3, <1>5

\* store_trace() keeps a buffer good under every policy.
LEMMA StoreTraceGood ==
  ASSUME NEW Element, NEW b, GoodBuffer(Element, b), NEW p \in Element
  PROVE  GoodBuffer(Element, StoreTrace(b, p))
<1>1. b.traceIdx \in Nat /\ Capacity \in Nat
  BY BufferParameters DEF GoodBuffer, Buffer
<1>2. CASE Policy # "periodic" /\ IsFull(b)
  BY <1>2 DEF StoreTrace
<1>3. CASE ~ IsFull(b)
  <2>1. StoreTrace(b, p) = Stored(b, p) /\ b.traceIdx < Capacity
    BY <1>1, <1>3 DEF StoreTrace, IsFull
  <2>  QED  BY <2>1, StoreWithRoom
<1>4. CASE Policy = "periodic" /\ IsFull(b)
  <2>1. StoreTrace(b, p) = Stored(b, p) /\ b.traceIdx >= Capacity
    BY <1>4 DEF StoreTrace, IsFull
  <2>  QED  BY <1>4, <2>1, StoreOverOldest
<1>  QED  BY <1>2, <1>3, <1>4

=============================================================================
