---------------------------- MODULE MergerProofs ----------------------------
(***************************************************************************)
(* Lemmas about the operators of PayloadMerger and ProcData, for every     *)
(* collection of files, every merger and every proc: what the consumers of *)
(* the traces have in common.                                              *)
(***************************************************************************)
EXTENDS ProcData, FiniteSetTheorems, FunctionTheorems, SequenceTheorems,
        WellFoundedInduction, TLAPS

\* What the loader hands over: sequences of payloads in time order.
Traces(files) ==
  \A i \in DOMAIN files :
    /\ files[i] \in Seq({files[i][k] : k \in DOMAIN files[i]})
    /\ \A k \in DOMAIN files[i] : files[i][k].timestamp \in Nat
    /\ InTimeOrder(files[i])

\* The heap holds the head of each file that is not read to the end.
Mirrors(files, m) ==
  /\ m.ptrs \in [DOMAIN files -> Nat]
  /\ \A i \in DOMAIN files : m.ptrs[i] <= Len(files[i])
  /\ m.heap = {Entry(files, m.ptrs, i) :
                 i \in {j \in DOMAIN files : m.ptrs[j] < Len(files[j])}}

\* The places of the files, and those that are read.
PlacesOf(files) == UNION {{<< i, k >> : k \in DOMAIN files[i]} : i \in DOMAIN files}
ReadOf(files, m)  == UNION {{<< i, k >> : k \in 1 .. m.ptrs[i]} : i \in DOMAIN files}

\* The payload at a place.
At0(files, x) == files[x[1]][x[2]]

-----------------------------------------------------------------------------

\* A sequence is one over its own elements, and over any set that holds them.
LEMMA SeqOwnRange ==
  ASSUME NEW S, NEW s \in Seq(S)
  PROVE  s \in Seq({s[i] : i \in DOMAIN s})
<1>1. Len(s) \in Nat /\ DOMAIN s = 1 .. Len(s) /\ s \in [1 .. Len(s) -> S]
  BY LenProperties
<1>2. s \in [1 .. Len(s) -> {s[i] : i \in DOMAIN s}]
  BY <1>1
<1>  QED  BY <1>1, <1>2, SeqDef

\* Induction over the naturals, as the provers can use it.
LEMMA LeastNatural ==
  ASSUME NEW S \in SUBSET Nat, S # {}
  PROVE  \E n \in S : \A m \in S : n <= m
<1>  DEFINE R == {x \in Nat \X Nat : x[1] < x[2]}
<1>1. IsWellFoundedOn(R, Nat)
  BY NatLessThanWellFounded DEF OpToRel
<1>  HIDE DEF R
<1>2. PICK n \in S : \A m \in S : ~ (<< m, n >> \in R)
  BY <1>1, WFMin
<1>3. ASSUME NEW m \in S, m < n PROVE FALSE
  <2>1. << m, n >> \in Nat \X Nat
    OBVIOUS
  <2>2. << m, n >> \in R
    BY <1>3, <2>1 DEF R
  <2>  QED  BY <1>2, <2>2
<1>  QED  BY <1>3

\* The least and the greatest element of a set of naturals.
LEMMA MinFacts ==
  ASSUME NEW S \in SUBSET Nat, S # {}
  PROVE  Min(S) \in S /\ \A x \in S : Min(S) <= x
  BY LeastNatural DEF Min

LEMMA MaxFacts ==
  ASSUME NEW S \in SUBSET Nat, S # {}, NEW b \in Nat, \A x \in S : x <= b
  PROVE  Max(S) \in S /\ \A x \in S : x <= Max(S)
<1>  DEFINE T == {b - x : x \in S}
<1>1. T \in SUBSET Nat /\ T # {}
  <2>1. \A x \in S : b - x \in Nat
    OBVIOUS
  <2>  QED  BY <2>1
<1>  HIDE DEF T
<1>2. PICK n \in T : \A m \in T : n <= m
  BY <1>1, LeastNatural
<1>3. PICK x \in S : n = b - x
  BY <1>2 DEF T
<1>4. \A y \in S : y <= x
  BY <1>2, <1>3 DEF T
<1>  QED  BY <1>4 DEF Max

\* A sequence that is known by its elements only, and what is appended to it.
OwnSeq(s) == s \in Seq({s[i] : i \in DOMAIN s})

LEMMA OwnAppend ==
  ASSUME NEW s, OwnSeq(s), NEW x
  PROVE  /\ OwnSeq(Append(s, x)) /\ Len(Append(s, x)) = Len(s) + 1
         /\ Len(s) \in Nat /\ DOMAIN s = 1 .. Len(s)
         /\ DOMAIN Append(s, x) = DOMAIN s \cup {Len(s) + 1}
         /\ Len(s) + 1 \notin DOMAIN s
         /\ Append(s, x)[Len(s) + 1] = x
         /\ \A i \in DOMAIN s : Append(s, x)[i] = s[i]
<1>  DEFINE S == {s[i] : i \in DOMAIN s} \cup {x}
            t == Append(s, x)
<1>1. s \in Seq({s[i] : i \in DOMAIN s})
  BY DEF OwnSeq
<1>2. Len(s) \in Nat /\ DOMAIN s = 1 .. Len(s) /\ s \in [1 .. Len(s) -> S]
  BY <1>1, LenProperties
<1>3. s \in Seq(S) /\ x \in S
  BY <1>2, SeqDef
<1>  HIDE DEF S
<1>4. /\ t \in Seq(S) /\ Len(t) = Len(s) + 1 /\ t[Len(s) + 1] = x
      /\ \A i \in 1 .. Len(s) : t[i] = s[i]
  BY <1>3, AppendProperties
<1>  HIDE DEF t
<1>5. t \in Seq({t[i] : i \in DOMAIN t}) /\ DOMAIN t = 1 .. Len(t)
  BY <1>4, SeqOwnRange, LenProperties
<1>6. DOMAIN t = DOMAIN s \cup {Len(s) + 1}
  BY <1>2, <1>4, <1>5
<1>  QED  BY <1>2, <1>4, <1>5, <1>6 DEF t, OwnSeq

LEMMA EmptyOwn == OwnSeq(<< >>) /\ DOMAIN << >> = {}
  BY EmptySeq, LenProperties DEF OwnSeq

\* How many elements of a set are before n.
Rank(S, n) == Cardinality({m \in S : m < n})

\* Two finite sets with as many elements: each element of the one has its own in the
\* other.
LEMMA OneToOne ==
  ASSUME NEW S, NEW T, IsFiniteSet(T), NEW f \in [S -> T],
         \A x, y \in S : f[x] = f[y] => x = y, \A z \in T : \E x \in S : f[x] = z
  PROVE  IsFiniteSet(S) /\ Cardinality(S) = Cardinality(T)
<1>1. f \in Injection(S, T)
  BY Fun_IsInj
<1>2. f \in Surjection(S, T)
  BY Fun_IsSurj
<1>  QED  BY <1>1, <1>2, FS_Injection

\* Two sets of places grow at their ends: their new last elements have the same
\* rank, and the others keep theirs.
LEMMA RanksGrow ==
  ASSUME NEW S \in SUBSET Nat, NEW T \in SUBSET Nat, IsFiniteSet(S), IsFiniteSet(T),
         Cardinality(S) = Cardinality(T),
         NEW s \in Nat, NEW t \in Nat, \A i \in S : i < s, \A k \in T : k < t
  PROVE  /\ Cardinality(S \cup {s}) = Cardinality(T \cup {t})
         /\ \A i \in S \cup {s}, k \in T \cup {t} :
              Rank(S \cup {s}, i) = Rank(T \cup {t}, k) =>
                \/ i = s /\ k = t
                \/ i \in S /\ k \in T /\ Rank(S, i) = Rank(T, k)
<1>1. ASSUME NEW A \in SUBSET Nat, IsFiniteSet(A), NEW a \in Nat, \A i \in A : i < a
      PROVE  /\ Cardinality(A \cup {a}) = Cardinality(A) + 1 /\ Cardinality(A) \in Nat
             /\ Rank(A \cup {a}, a) = Cardinality(A)
             /\ \A i \in A : /\ Rank(A \cup {a}, i) = Rank(A, i)
                             /\ Rank(A, i) \in Nat /\ Rank(A, i) < Cardinality(A)
  <2>1. a \notin A
    BY <1>1
  <2>2. Cardinality(A \cup {a}) = Cardinality(A) + 1 /\ Cardinality(A) \in Nat
    BY <1>1, <2>1, FS_AddElement, FS_CardinalityType
  <2>3. {m \in A \cup {a} : m < a} = A
    <3>1. ~ (a < a) /\ \A i \in A : i < a
      BY <1>1
    <3>  QED  BY <3>1, Zenon
  <2>4. ASSUME NEW i \in A
        PROVE  /\ Rank(A \cup {a}, i) = Rank(A, i)
               /\ Rank(A, i) \in Nat /\ Rank(A, i) < Cardinality(A)
    <3>  DEFINE B == {m \in A : m < i}
    <3>1. {m \in A \cup {a} : m < i} = B
      BY <1>1
    <3>2. B \in SUBSET A /\ i \notin B
      OBVIOUS
    <3>  HIDE DEF B
    <3>3. /\ IsFiniteSet(B) /\ Cardinality(B) <= Cardinality(A)
          /\ Cardinality(A) = Cardinality(B) => A = B
      BY <1>1, <3>2, FS_Subset
    <3>4. Cardinality(B) \in Nat /\ Cardinality(B) < Cardinality(A)
      BY <2>2, <3>2, <3>3, FS_CardinalityType
    <3>  QED  BY <3>1, <3>4 DEF Rank, B
  <2>  QED  BY <2>2, <2>3, <2>4 DEF Rank
<1>2. /\ Cardinality(S \cup {s}) = Cardinality(S) + 1 /\ Cardinality(S) \in Nat
      /\ Rank(S \cup {s}, s) = Cardinality(S)
      /\ \A i \in S : /\ Rank(S \cup {s}, i) = Rank(S, i)
                      /\ Rank(S, i) \in Nat /\ Rank(S, i) < Cardinality(S)
  BY <1>1
<1>3. /\ Cardinality(T \cup {t}) = Cardinality(T) + 1 /\ Cardinality(T) \in Nat
      /\ Rank(T \cup {t}, t) = Cardinality(T)
      /\ \A i \in T : /\ Rank(T \cup {t}, i) = Rank(T, i)
                      /\ Rank(T, i) \in Nat /\ Rank(T, i) < Cardinality(T)
  BY <1>1
<1>4. Cardinality(S \cup {s}) = Cardinality(T \cup {t})
  BY <1>2, <1>3
<1>5. ASSUME NEW i \in S \cup {s}, NEW k \in T \cup {t},
             Rank(S \cup {s}, i) = Rank(T \cup {t}, k)
      PROVE  \/ i = s /\ k = t
             \/ i \in S /\ k \in T /\ Rank(S, i) = Rank(T, k)
  <2>1. CASE i \in S /\ k \in T
    BY <1>2, <1>3, <1>5, <2>1
  <2>2. CASE i \in S /\ k = t
    <3>1. Rank(S \cup {s}, i) < Cardinality(S)
      BY <1>2, <2>2
    <3>2. Rank(T \cup {t}, k) = Cardinality(S)
      BY <1>3, <2>2
    <3>  QED  BY <1>2, <1>5, <3>1, <3>2
  <2>3. CASE i = s /\ k \in T
    <3>1. Rank(T \cup {t}, k) < Cardinality(S)
      BY <1>3, <2>3
    <3>2. Rank(S \cup {s}, i) = Cardinality(S)
      BY <1>2, <2>3
    <3>  QED  BY <1>2, <1>5, <3>1, <3>2
  <2>4. CASE i = s /\ k = t
    BY <2>4
  <2>  QED  BY <2>1, <2>2, <2>3, <2>4
<1>  QED  BY <1>4, <1>5

LEMMA TraceFacts ==
  ASSUME NEW files, Traces(files), NEW i \in DOMAIN files
  PROVE  /\ Len(files[i]) \in Nat
         /\ DOMAIN files[i] = 1 .. Len(files[i])
         /\ \A k \in 1 .. Len(files[i]) : files[i][k].timestamp \in Nat
         /\ \A j, k \in 1 .. Len(files[i]) :
              j <= k => files[i][j].timestamp <= files[i][k].timestamp
         /\ files[i] # << >> <=> 0 < Len(files[i])
<1>1. files[i] \in Seq({files[i][k] : k \in DOMAIN files[i]})
  BY DEF Traces
<1>2. Len(files[i]) \in Nat /\ DOMAIN files[i] = 1 .. Len(files[i])
  BY <1>1, LenProperties
<1>3. files[i] # << >> <=> 0 < Len(files[i])
  BY <1>1, <1>2, EmptySeq
<1>4. \A k \in 1 .. Len(files[i]) : files[i][k].timestamp \in Nat
  BY <1>2 DEF Traces
<1>5. \A j, k \in 1 .. Len(files[i]) :
        j < k => files[i][j].timestamp <= files[i][k].timestamp
  BY <1>2 DEF Traces, InTimeOrder
<1>  QED  BY <1>2, <1>3, <1>4, <1>5

LEMMA NewMirrors ==
  ASSUME NEW files, Traces(files)
  PROVE  /\ Mirrors(files, NewMerger(files))
         /\ ReadOf(files, NewMerger(files)) = {}
<1>  DEFINE zero == [i \in DOMAIN files |-> 0]
            m    == NewMerger(files)
<1>1. /\ m.ptrs = zero
      /\ m.heap = {Entry(files, zero, i) : i \in {j \in DOMAIN files : files[j] # << >>}}
  BY DEF NewMerger
<1>  HIDE DEF m
<1>2. \A i \in DOMAIN files : /\ Len(files[i]) \in Nat
                              /\ files[i] # << >> <=> 0 < Len(files[i])
  BY TraceFacts
<1>3. Mirrors(files, m)
  BY <1>1, <1>2 DEF Mirrors
<1>4. ReadOf(files, m) = {}
  BY <1>1 DEF ReadOf
<1>  QED  BY <1>3, <1>4 DEF m

\* What an entry of the heap stands for.
LEMMA EntryFacts ==
  ASSUME NEW files, NEW m, Traces(files), Mirrors(files, m), NEW e \in m.heap
  PROVE  LET i == e.file_idx  k == m.ptrs[e.file_idx] + 1
         IN  /\ i \in DOMAIN files
             /\ m.ptrs[i] \in Nat /\ m.ptrs[i] < Len(files[i])
             /\ k \in Nat /\ k \in 1 .. Len(files[i])
             /\ e = Entry(files, m.ptrs, i)
             /\ PayloadAt(files, m, e) = files[i][k]
             /\ e.timestamp = files[i][k].timestamp
             /\ e.timestamp \in Nat
<1>1. PICK i \in DOMAIN files : m.ptrs[i] < Len(files[i]) /\ e = Entry(files, m.ptrs, i)
  BY DEF Mirrors
<1>2. /\ e.file_idx = i
      /\ e.timestamp = files[i][m.ptrs[i] + 1].timestamp
  BY <1>1 DEF Entry
<1>3. m.ptrs[i] \in Nat
  BY DEF Mirrors
<1>4. m.ptrs[i] + 1 \in 1 .. Len(files[i])
  BY <1>1, <1>3, TraceFacts
<1>  QED  BY <1>1, <1>2, <1>3, <1>4, TraceFacts DEF PayloadAt

\* The top is no later than anything that is not read, in whichever file.
LEMMA TopIsLeast ==
  ASSUME NEW files, NEW m, Traces(files), Mirrors(files, m), NEW e \in Tops(m),
         NEW i \in DOMAIN files, NEW k \in 1 .. Len(files[i]), m.ptrs[i] < k
  PROVE  e.timestamp \in Nat /\ e.timestamp <= files[i][k].timestamp
<1>1. e \in m.heap /\ \A f \in m.heap : e.timestamp <= f.timestamp
  BY DEF Tops
<1>2. m.ptrs[i] \in Nat /\ Len(files[i]) \in Nat
  BY TraceFacts DEF Mirrors
<1>3. m.ptrs[i] < Len(files[i]) /\ m.ptrs[i] + 1 \in 1 .. Len(files[i]) /\ m.ptrs[i] + 1 <= k
  BY <1>2
<1>4. Entry(files, m.ptrs, i) \in m.heap
  BY <1>3 DEF Mirrors
<1>5. e.timestamp <= files[i][m.ptrs[i] + 1].timestamp
  BY <1>1, <1>4 DEF Entry
<1>6. /\ files[i][m.ptrs[i] + 1].timestamp <= files[i][k].timestamp
      /\ files[i][m.ptrs[i] + 1].timestamp \in Nat /\ files[i][k].timestamp \in Nat
  BY <1>3, TraceFacts
<1>7. e.timestamp \in Nat
  BY <1>1, EntryFacts
<1>  QED  BY <1>5, <1>6, <1>7

\* One pointer moves, and the heap holds the heads again.
LEMMA PoppedMirrors ==
  ASSUME NEW files, NEW m, Traces(files), Mirrors(files, m), NEW e \in m.heap
  PROVE  /\ Mirrors(files, Popped(files, m, e))
         /\ Popped(files, m, e).ptrs = [m.ptrs EXCEPT ![e.file_idx] = @ + 1]
<1>  DEFINE i == e.file_idx
            n == Popped(files, m, e)
<1>1. /\ i \in DOMAIN files /\ m.ptrs[i] \in Nat /\ m.ptrs[i] < Len(files[i])
      /\ e = Entry(files, m.ptrs, i)
      /\ Len(files[i]) \in Nat
  BY EntryFacts, TraceFacts
<1>2. n.ptrs = [m.ptrs EXCEPT ![i] = @ + 1]
  BY DEF Popped
<1>3. n.heap = IF n.ptrs[i] < Len(files[i])
               THEN (m.heap \ {e}) \cup {Entry(files, n.ptrs, i)}
               ELSE m.heap \ {e}
  BY DEF Popped
<1>4. m.ptrs \in [DOMAIN files -> Nat]
  BY DEF Mirrors
<1>  HIDE DEF i, n
<1>5. /\ n.ptrs \in [DOMAIN files -> Nat]
      /\ n.ptrs[i] = m.ptrs[i] + 1
      /\ \A j \in DOMAIN files : j # i => n.ptrs[j] = m.ptrs[j]
  BY <1>1, <1>2, <1>4
<1>6. \A j \in DOMAIN files : n.ptrs[j] <= Len(files[j])
  BY <1>1, <1>5 DEF Mirrors
<1>7. \A j, k, q, r : Entry(files, q, j) = Entry(files, r, k) => j = k
  BY DEF Entry
<1>8. \A j \in DOMAIN files : j # i => Entry(files, n.ptrs, j) = Entry(files, m.ptrs, j)
  BY <1>5 DEF Entry
<1>9. m.heap = {Entry(files, m.ptrs, j) : j \in {k \in DOMAIN files : m.ptrs[k] < Len(files[k])}}
  BY DEF Mirrors
<1>10. m.heap \ {e} = {Entry(files, n.ptrs, j) :
                         j \in {k \in DOMAIN files \ {i} : n.ptrs[k] < Len(files[k])}}
  BY <1>1, <1>5, <1>7, <1>8, <1>9
<1>11. n.heap = {Entry(files, n.ptrs, j) : j \in {k \in DOMAIN files : n.ptrs[k] < Len(files[k])}}
  BY <1>1, <1>3, <1>10
<1>  QED  BY <1>2, <1>5, <1>6, <1>11 DEF Mirrors, i, n

\* The next top is no earlier.
LEMMA HeapIsLater ==
  ASSUME NEW files, NEW m, Traces(files), Mirrors(files, m), NEW e \in Tops(m),
         NEW f \in Popped(files, m, e).heap
  PROVE  f.timestamp \in Nat /\ e.timestamp <= f.timestamp
<1>  DEFINE n == Popped(files, m, e)
            i == f.file_idx
            k == n.ptrs[i] + 1
<1>1. e \in m.heap
  BY DEF Tops
<1>2. /\ Mirrors(files, n)
      /\ n.ptrs = [m.ptrs EXCEPT ![e.file_idx] = @ + 1]
  BY <1>1, PoppedMirrors
<1>  HIDE DEF n
<1>3. f \in n.heap
  BY DEF n
<1>4. /\ i \in DOMAIN files /\ k \in 1 .. Len(files[i])
      /\ f.timestamp = files[i][k].timestamp /\ f.timestamp \in Nat
      /\ n.ptrs[i] \in Nat
  <2>1. Mirrors(files, n)
    BY <1>2
  <2>  QED  BY <1>3, <2>1, EntryFacts
<1>5. m.ptrs[i] \in Nat /\ m.ptrs[i] <= n.ptrs[i]
  BY <1>2, <1>4 DEF Mirrors
<1>6. m.ptrs[i] < k
  BY <1>4, <1>5
<1>  HIDE DEF i, k
<1>  QED  BY <1>4, <1>6, TopIsLeast

\* next() reads one place more.
LEMMA PoppedReads ==
  ASSUME NEW files, NEW m, Traces(files), Mirrors(files, m), NEW e \in m.heap
  PROVE  LET x == << e.file_idx, m.ptrs[e.file_idx] + 1 >>
         IN  /\ x \in PlacesOf(files) /\ x \notin ReadOf(files, m)
             /\ ReadOf(files, Popped(files, m, e)) = ReadOf(files, m) \cup {x}
<1>  DEFINE i == e.file_idx
            k == m.ptrs[i] + 1
            n == Popped(files, m, e)
<1>1. /\ i \in DOMAIN files /\ m.ptrs[i] \in Nat
      /\ k \in 1 .. Len(files[i]) /\ k \in Nat /\ Len(files[i]) \in Nat
      /\ DOMAIN files[i] = 1 .. Len(files[i])
  BY EntryFacts, TraceFacts
<1>2. n.ptrs = [m.ptrs EXCEPT ![i] = @ + 1]
  BY DEF Popped
<1>  HIDE DEF n, i
<1>3. << i, k >> \in PlacesOf(files)
  BY <1>1 DEF PlacesOf
<1>4. << i, k >> \notin ReadOf(files, m)
  BY <1>1 DEF ReadOf
<1>5. /\ n.ptrs[i] = m.ptrs[i] + 1
      /\ \A j \in DOMAIN files : j # i => n.ptrs[j] = m.ptrs[j]
  BY <1>1, <1>2 DEF Mirrors
<1>6. ASSUME NEW j \in DOMAIN files
      PROVE  {<< j, q >> : q \in 1 .. n.ptrs[j]} =
               IF j = i THEN {<< j, q >> : q \in 1 .. m.ptrs[j]} \cup {<< i, k >>}
               ELSE {<< j, q >> : q \in 1 .. m.ptrs[j]}
  <2>1. j = i => 1 .. n.ptrs[j] = (1 .. m.ptrs[j]) \cup {k}
    BY <1>1, <1>5
  <2>2. j # i => 1 .. n.ptrs[j] = 1 .. m.ptrs[j]
    BY <1>5
  <2>  QED  BY <2>1, <2>2
<1>7. ReadOf(files, n) = ReadOf(files, m) \cup {<< i, k >>}
  BY <1>1, <1>6 DEF ReadOf
<1>  QED  BY <1>3, <1>4, <1>7 DEF i, n

\* An empty heap means that everything is read.
LEMMA EmptyReadsAll ==
  ASSUME NEW files, NEW m, Traces(files), Mirrors(files, m), Empty(m)
  PROVE  /\ \A i \in DOMAIN files : m.ptrs[i] = Len(files[i])
         /\ ReadOf(files, m) = PlacesOf(files)
<1>1. ASSUME NEW i \in DOMAIN files
      PROVE  m.ptrs[i] = Len(files[i]) /\ DOMAIN files[i] = 1 .. Len(files[i])
  <2>1. ~ (m.ptrs[i] < Len(files[i]))
    BY DEF Empty, Mirrors
  <2>  QED  BY <2>1, TraceFacts DEF Mirrors
<1>  QED  BY <1>1 DEF ReadOf, PlacesOf

-----------------------------------------------------------------------------
(* What the loader hands over, and the time anchors of a proc. *)

\* What the loader hands over: for each proc its anchors and its files.
IsProcs(input) == OwnSeq(input) /\ \A q \in DOMAIN input : IsProc(input[q])

LEMMA InputFacts == \A input \in Inputs : IsProcs(input)
  BY ProcAssumption DEF IsProcs, OwnSeq

LEMMA ProcFacts ==
  ASSUME NEW input, IsProcs(input)
  PROVE  /\ UInt64Max \in Nat /\ Len(input) \in Nat /\ DOMAIN input = 1 .. Len(input)
         /\ \A q \in DOMAIN input : IsProc(input[q]) /\ Traces(input[q].files)
<1>1. input \in Seq({input[q] : q \in DOMAIN input})
  BY DEF IsProcs, OwnSeq
<1>2. Len(input) \in Nat /\ DOMAIN input = 1 .. Len(input)
  BY <1>1, LenProperties
<1>3. ASSUME NEW q \in DOMAIN input
      PROVE  IsProc(input[q]) /\ Traces(input[q].files)
  <2>  DEFINE files == input[q].files
  <2>1. IsProc(input[q]) /\ UInt64Max \in Nat
    BY ProcAssumption DEF IsProcs
  <2>2. \A i \in DOMAIN files : IsTrace(files[i])
    BY <2>1 DEF IsProc
  <2>  HIDE DEF files
  <2>3. Traces(files)
    <3>1. \A i \in DOMAIN files : \A k \in DOMAIN files[i] : files[i][k].timestamp \in Nat
      <4>1. ASSUME NEW i \in DOMAIN files, NEW k \in DOMAIN files[i]
            PROVE  files[i][k].timestamp \in 0 .. UInt64Max
        BY <2>2, Zenon DEF IsTrace
      <4>2. \A n \in 0 .. UInt64Max : n \in Nat
        BY <2>1
      <4>  QED  BY <4>1, <4>2
    <3>2. \A i \in DOMAIN files : /\ files[i] \in Seq({files[i][k] : k \in DOMAIN files[i]})
                                  /\ InTimeOrder(files[i])
      BY <2>2 DEF IsTrace
    <3>  QED  BY <3>1, <3>2 DEF Traces
  <2>  QED  BY <2>1, <2>3 DEF files
<1>  QED  BY <1>2, <1>3, ProcAssumption

LEMMA Subtraction ==
  ASSUME NEW a \in 0 .. UInt64Max, NEW b \in 0 .. UInt64Max
  PROVE  Sub64(a, b) \in 0 .. UInt64Max /\ (b <= a => Sub64(a, b) = a - b)
<1>1. UInt64Max \in Nat
  BY ProcAssumption
<1>2. \A n \in 0 .. UInt64Max : n % (UInt64Max + 1) = n
  BY <1>1
<1>3. (a - b) % (UInt64Max + 1) \in 0 .. UInt64Max
  BY <1>1
<1>  QED  BY <1>1, <1>2, <1>3 DEF Sub64

\* The anchors of a proc enclose its payloads, whatever metadata.json says.
LEMMA SyncBounds ==
  ASSUME NEW proc, IsProc(proc)
  PROVE  /\ SyncStart(proc) \in 0 .. UInt64Max /\ SyncEnd(proc) \in 0 .. UInt64Max
         /\ \A i \in DOMAIN proc.files : \A k \in DOMAIN proc.files[i] :
              /\ proc.files[i][k].timestamp \in 0 .. UInt64Max
              /\ SyncStart(proc) <= proc.files[i][k].timestamp
              /\ proc.files[i][k].timestamp <= SyncEnd(proc)
<1>  DEFINE files == proc.files
            A == {proc.start_time, UInt64Max} \cup FirstTimes(files)
            B == {proc.end_time} \cup LastTimes(files)
<1>1. /\ UInt64Max \in Nat
      /\ proc.start_time \in 0 .. UInt64Max /\ proc.end_time \in 0 .. UInt64Max
      /\ \A i \in DOMAIN files : IsTrace(files[i])
  BY ProcAssumption DEF IsProc
<1>2. ASSUME NEW i \in DOMAIN files
      PROVE  /\ Len(files[i]) \in Nat /\ DOMAIN files[i] = 1 .. Len(files[i])
             /\ files[i] # << >> <=> 0 < Len(files[i])
             /\ \A k \in 1 .. Len(files[i]) : files[i][k].timestamp \in 0 .. UInt64Max
             /\ \A k \in 1 .. Len(files[i]) :
                  /\ files[i][1].timestamp <= files[i][k].timestamp
                  /\ files[i][k].timestamp <= files[i][Len(files[i])].timestamp
  <2>1. Traces(files)
    BY <1>1 DEF IsTrace, Traces
  <2>2. /\ Len(files[i]) \in Nat /\ DOMAIN files[i] = 1 .. Len(files[i])
        /\ files[i] # << >> <=> 0 < Len(files[i])
        /\ \A j, k \in 1 .. Len(files[i]) :
             j <= k => files[i][j].timestamp <= files[i][k].timestamp
    BY <2>1, TraceFacts
  <2>3. \A k \in 1 .. Len(files[i]) : files[i][k].timestamp \in 0 .. UInt64Max
    BY <1>1, <2>2 DEF IsTrace
  <2>  HIDE DEF files
  <2>  QED  BY <2>2, <2>3
<1>3. FirstTimes(files) \in SUBSET (0 .. UInt64Max) /\ LastTimes(files) \in SUBSET (0 .. UInt64Max)
  <2>1. \A i \in NonEmpty(files) : /\ i \in DOMAIN files
                                   /\ 1 \in 1 .. Len(files[i])
                                   /\ Len(files[i]) \in 1 .. Len(files[i])
    BY <1>2 DEF NonEmpty
  <2>  QED  BY <1>2, <2>1 DEF FirstTimes, LastTimes
<1>4. A \in SUBSET Nat /\ A # {} /\ B \in SUBSET Nat /\ B # {} /\ \A x \in B : x <= UInt64Max
  BY <1>1, <1>3
<1>  HIDE DEF A, B
<1>5. Min(A) \in A /\ \A x \in A : Min(A) <= x
  BY <1>4, MinFacts
<1>6. Max(B) \in B /\ \A x \in B : x <= Max(B)
  BY <1>1, <1>4, MaxFacts
<1>7. Min(A) \in 0 .. UInt64Max /\ Max(B) \in 0 .. UInt64Max
  <2>1. Min(A) \in Nat /\ Max(B) \in Nat
    BY <1>4, <1>5, <1>6
  <2>2. UInt64Max \in A
    BY DEF A
  <2>3. Min(A) <= UInt64Max /\ Max(B) <= UInt64Max
    BY <1>4, <1>5, <1>6, <2>2
  <2>  QED  BY <1>1, <2>1, <2>3
<1>8. SyncStart(proc) = IF Min(A) = UInt64Max THEN 0 ELSE Min(A)
  BY DEF SyncStart, A
<1>9. SyncEnd(proc) = Max(B)
  BY DEF SyncEnd, B
<1>10. ASSUME NEW i \in DOMAIN files, NEW k \in DOMAIN files[i]
       PROVE  /\ files[i][k].timestamp \in 0 .. UInt64Max
              /\ SyncStart(proc) <= files[i][k].timestamp
              /\ files[i][k].timestamp <= SyncEnd(proc)
  <2>1. k \in 1 .. Len(files[i]) /\ i \in NonEmpty(files)
    BY <1>2 DEF NonEmpty
  <2>2. files[i][1].timestamp \in A /\ files[i][Len(files[i])].timestamp \in B
    BY <2>1 DEF FirstTimes, LastTimes, A, B
  <2>3. Min(A) <= files[i][1].timestamp /\ files[i][Len(files[i])].timestamp <= Max(B)
    BY <1>5, <1>6, <2>2
  <2>4. /\ files[i][1].timestamp <= files[i][k].timestamp
        /\ files[i][k].timestamp <= files[i][Len(files[i])].timestamp
        /\ files[i][k].timestamp \in 0 .. UInt64Max
        /\ files[i][1].timestamp \in 0 .. UInt64Max
        /\ files[i][Len(files[i])].timestamp \in 0 .. UInt64Max
    BY <1>2, <2>1
  <2>  HIDE DEF files
  <2>  QED  BY <1>1, <1>7, <1>8, <1>9, <2>3, <2>4
<1>  QED  BY <1>1, <1>7, <1>8, <1>9, <1>10

=============================================================================
