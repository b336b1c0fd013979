--------------------------- MODULE MarkersProofs ----------------------------
(***************************************************************************)
(* Proofs about the marker registry, for every width of the ids, set of    *)
(* labels and number of sessions, and about the channels that are declared *)
(* beside it.                                                              *)
(***************************************************************************)
EXTENDS Channels, SequenceTheorems, TLAPS

\* A colour that was not chosen is one of the last automatic ones: the counter
\* left it at most one step per registered marker ago.
Behind(c, k) == lazy_colorId = c + k \/ lazy_colorId = c + k - (UInt16Max + 1)

LazyInv ==
  status = "running" =>
    \A c \in DOMAIN markerTypes \ chosen : \E k \in 1 .. Len(markerLabels) : Behind(c, k)

\* The JSON object is a view the registry had earlier in the session.
JsonInv ==
  /\ Agree(json_file.markerLabels, json_file.markerColorIds, json_file.markerTypes)
  /\ DOMAIN json_file.markerTypes \subseteq DOMAIN markerTypes

IInv ==
  TypeOK /\ RegistryCoherent /\ JsonInv /\ LazyInv
         /\ MetadataCoherent /\ LazyNeverCollides

LEMMA Widths ==
  /\ UInt16Max \in Nat /\ UInt16Max >= 3
  /\ EVENTID_RESERVED_MIN = UInt16Max - 2
  /\ FirstLazyColor \in Color
  BY IdAssumption, MarkersAssumption DEF EVENTID_RESERVED_MIN, EVENTID_FLOW_END

\* The 16-bit counter.
LEMMA NextColor ==
  ASSUME NEW c \in Color
  PROVE  /\ (c + 1) % (UInt16Max + 1) = IF c = UInt16Max THEN 0 ELSE c + 1
         /\ (c + 1) % (UInt16Max + 1) \in Color
<1> DEFINE W == UInt16Max + 1
<1>1. W \in Nat \ {0} /\ c \in 0 .. W - 1 /\ W = UInt16Max + 1 /\ UInt16Max \in Nat
  BY Widths DEF Color
<1>2. c + 1 = UInt16Max + 1 => (c + 1) % (UInt16Max + 1) = 0
  BY <1>1
<1>3. c + 1 < UInt16Max + 1 => (c + 1) % (UInt16Max + 1) = c + 1
  BY <1>1
<1>4. 0 \in Color /\ (c # UInt16Max => c + 1 \in Color)
  BY <1>1 DEF Color
<1>  QED  BY <1>1, <1>2, <1>3, <1>4

\* The empty registry.
LEMMA EmptyAgrees ==
  /\ Agree(<< >>, << >>, NoTypes)
  /\ NoTypes \in UNION {[C -> Label] : C \in SUBSET Color}
  /\ DOMAIN NoTypes = {}
  /\ EmptyJson \in Json
<1>1. DOMAIN NoTypes = {} /\ NoTypes \in [{} -> Label]
  BY DEF NoTypes
<1>2. NoTypes \in UNION {[C -> Label] : C \in SUBSET Color}
  BY <1>1
<1>3. Agree(<< >>, << >>, NoTypes)
  BY <1>1 DEF Agree, IsInjective, Range
<1>4. EmptyJson \in Json
  BY <1>2 DEF EmptyJson, Json
<1>  QED  BY <1>1, <1>2, <1>3, <1>4

\* Registering a marker under a free colour keeps the three views in agreement.
LEMMA RegisterAgrees ==
  ASSUME NEW labels \in Seq(Label), NEW colors \in Seq(Color),
         NEW types \in UNION {[C -> Label] : C \in SUBSET Color},
         Agree(labels, colors, types),
         NEW l \in Label, NEW c \in Color, c \notin DOMAIN types
  PROVE  /\ Agree(Append(labels, l), Append(colors, c), WithType(types, c, l))
         /\ Append(labels, l) \in Seq(Label)
         /\ Append(colors, c) \in Seq(Color)
         /\ WithType(types, c, l) \in UNION {[C -> Label] : C \in SUBSET Color}
         /\ DOMAIN WithType(types, c, l) = DOMAIN types \cup {c}
         /\ Len(Append(labels, l)) = Len(labels) + 1
<1> DEFINE ls == Append(labels, l)  cs == Append(colors, c)
           ts == WithType(types, c, l)  n == Len(labels)
<1>1. /\ n \in Nat /\ Len(colors) = n
      /\ DOMAIN colors = 1 .. n
      /\ ls \in Seq(Label) /\ Len(ls) = n + 1 /\ ls[n + 1] = l
      /\ cs \in Seq(Color) /\ Len(cs) = n + 1 /\ cs[n + 1] = c
      /\ DOMAIN cs = 1 .. n + 1
      /\ \A i \in 1 .. n : ls[i] = labels[i] /\ cs[i] = colors[i]
  BY AppendProperties, LenProperties DEF Agree
<1>2. PICK C \in SUBSET Color : types \in [C -> Label]
  OBVIOUS
<1>3. /\ DOMAIN ts = DOMAIN types \cup {c}
      /\ ts \in [C \cup {c} -> Label]
      /\ ts[c] = l
      /\ \A d \in DOMAIN types : ts[d] = types[d]
  BY <1>2 DEF WithType
<1>4. \A i \in 1 .. n : colors[i] \in DOMAIN types /\ types[colors[i]] = labels[i]
  BY <1>1 DEF Agree, Range
<1>5. IsInjective(cs)
  <2>  SUFFICES ASSUME NEW i \in 1 .. n + 1, NEW j \in 1 .. n + 1, cs[i] = cs[j]
                PROVE  i = j
    BY <1>1 DEF IsInjective
  <2>1. CASE i \in 1 .. n /\ j \in 1 .. n
    BY <2>1, <1>1 DEF Agree, IsInjective
  <2>2. CASE i = n + 1 /\ j \in 1 .. n
    BY <2>2, <1>1, <1>4
  <2>3. CASE i \in 1 .. n /\ j = n + 1
    BY <2>3, <1>1, <1>4
  <2>4. CASE i = n + 1 /\ j = n + 1
    BY <2>4
  <2>  QED  BY <1>1, <2>1, <2>2, <2>3, <2>4
<1>6. DOMAIN ts = Range(cs)
  <2>1. Range(cs) = {cs[i] : i \in 1 .. n + 1} /\ Range(colors) = {colors[i] : i \in 1 .. n}
    BY <1>1 DEF Range
  <2>2. Range(cs) = Range(colors) \cup {c}
    <3>1. 1 .. n + 1 = 1 .. n \cup {n + 1}  BY <1>1
    <3>  QED  BY <2>1, <3>1, <1>1
  <2>  QED  BY <2>2, <1>3 DEF Agree
<1>7. \A i \in DOMAIN cs : ts[cs[i]] = ls[i]
  <2>  SUFFICES ASSUME NEW i \in 1 .. n + 1 PROVE ts[cs[i]] = ls[i]
    BY <1>1
  <2>1. CASE i \in 1 .. n
    BY <2>1, <1>1, <1>3, <1>4
  <2>2. CASE i = n + 1
    BY <2>2, <1>1, <1>3
  <2>  QED  BY <1>1, <2>1, <2>2
<1>8. ts \in UNION {[D -> Label] : D \in SUBSET Color}
  <2>1. C \cup {c} \in SUBSET Color  OBVIOUS
  <2>  QED  BY <1>3, <2>1
<1>9. Agree(ls, cs, ts)
  <2>  HIDE DEF ls, cs, ts
  <2>  QED  BY <1>1, <1>5, <1>6, <1>7 DEF Agree
<1>  QED  BY <1>1, <1>3, <1>8, <1>9

\* write_JSON() brings the object up to the registry, whatever it held before.
LEMMA WrittenAgrees ==
  ASSUME TypeOK, RegistryCoherent, JsonInv
  PROVE  /\ Written(json_file) \in Json
         /\ Written(json_file) = [markerLabels   |-> markerLabels,
                                  markerColorIds |-> markerColorIds,
                                  markerTypes    |-> markerTypes]
         /\ Agree(Written(json_file).markerLabels, Written(json_file).markerColorIds,
                  Written(json_file).markerTypes)
         /\ DOMAIN Written(json_file).markerTypes \subseteq DOMAIN markerTypes
<1>1. PICK C \in SUBSET Color : markerTypes \in [C -> Label]
  BY DEF TypeOK
<1>2. Written(json_file).markerTypes = [c \in C |-> markerTypes[c]]
  BY <1>1 DEF Written, JsonInv
<1>3. Written(json_file).markerTypes = markerTypes
  BY <1>1, <1>2
<1>4. /\ Written(json_file).markerLabels = markerLabels
      /\ Written(json_file).markerColorIds = markerColorIds
  BY DEF Written
<1>5. Written(json_file) = [markerLabels   |-> markerLabels,
                            markerColorIds |-> markerColorIds,
                            markerTypes    |-> markerTypes]
  BY <1>3 DEF Written
<1>6. Written(json_file) \in Json
  BY <1>5 DEF Json, TypeOK
<1>  QED  BY <1>3, <1>4, <1>5, <1>6 DEF RegistryCoherent

LEMMA DumpedAgrees ==
  ASSUME TypeOK, RegistryCoherent, JsonInv
  PROVE  /\ Dumped \in Json
         /\ Agree(Dumped.markerLabels, Dumped.markerColorIds, Dumped.markerTypes)
         /\ DOMAIN Dumped.markerTypes \subseteq DOMAIN markerTypes
<1>1. CASE json_is_ready
  BY <1>1 DEF Dumped, TypeOK, JsonInv
<1>2. CASE ~ json_is_ready
  BY <1>2, WrittenAgrees DEF Dumped
<1>  QED  BY <1>1, <1>2

\* One more marker, by either call: the step of the counter and the marker make up
\* for each other.
LEMMA RegisterKeepsLazy ==
  ASSUME TypeOK, RegistryCoherent, LazyInv, status = "running", ~ Full,
         NEW l \in Label, NEW c \in Color, ~ Taken(c), Register(l, c),
         \/ lazy_colorId' = lazy_colorId /\ chosen' = chosen \cup {c}
         \/ lazy_colorId' = NextLazyColor /\ chosen' = chosen /\ c = lazy_colorId
  PROVE  LazyInv'
<1>1. /\ Len(markerLabels) \in Nat /\ Len(markerLabels') = Len(markerLabels) + 1
      /\ DOMAIN markerTypes' = DOMAIN markerTypes \cup {c}
      /\ DOMAIN markerTypes \subseteq Color
      /\ lazy_colorId \in Color
  <2>1. /\ markerLabels \in Seq(Label) /\ markerColorIds \in Seq(Color)
        /\ markerTypes \in UNION {[C -> Label] : C \in SUBSET Color}
        /\ Agree(markerLabels, markerColorIds, markerTypes)
        /\ c \notin DOMAIN markerTypes /\ lazy_colorId \in Color
    BY DEF TypeOK, RegistryCoherent, Taken
  <2>2. DOMAIN WithType(markerTypes, c, l) = DOMAIN markerTypes \cup {c}
    BY DEF WithType
  <2>3. /\ Len(markerLabels) \in Nat /\ DOMAIN markerTypes \subseteq Color
        /\ Len(Append(markerLabels, l)) = Len(markerLabels) + 1
    BY <2>1, LenProperties, AppendProperties
  <2>  QED  BY <2>1, <2>2, <2>3 DEF Register
<1>2. /\ NextLazyColor = IF lazy_colorId = UInt16Max THEN 0 ELSE lazy_colorId + 1
      /\ UInt16Max \in Nat
  BY <1>1, NextColor, Widths DEF NextLazyColor
<1>  SUFFICES ASSUME NEW d \in DOMAIN markerTypes' \ chosen'
              PROVE  \E k \in 1 .. Len(markerLabels') : Behind(d, k)'
  BY DEF LazyInv
<1>3. CASE lazy_colorId' = lazy_colorId /\ chosen' = chosen \cup {c}
  <2>1. d \in DOMAIN markerTypes \ chosen
    BY <1>1, <1>3
  <2>2. PICK k \in 1 .. Len(markerLabels) : Behind(d, k)
    BY <2>1 DEF LazyInv
  <2>3. k \in 1 .. Len(markerLabels') /\ Behind(d, k)'
    BY <1>1, <1>3, <2>2 DEF Behind
  <2>  QED  BY <2>3
<1>4. CASE lazy_colorId' = NextLazyColor /\ chosen' = chosen /\ c = lazy_colorId
  <2>1. CASE d \in DOMAIN markerTypes
    <3>1. PICK k \in 1 .. Len(markerLabels) : Behind(d, k)
      BY <1>4, <2>1 DEF LazyInv
    <3>2. k + 1 \in 1 .. Len(markerLabels')
      BY <1>1
    <3>3. Behind(d, k + 1)'
      <4>1. d \in 0 .. UInt16Max /\ k \in Nat /\ lazy_colorId \in 0 .. UInt16Max
        BY <1>1, <2>1 DEF Color
      <4>2. k <= UInt16Max
        BY <1>1, Widths DEF RegistryCoherent
      <4>  QED  BY <4>1, <4>2, <3>1, <1>2, <1>4 DEF Behind
    <3>  QED  BY <3>2, <3>3
  <2>2. CASE d = c
    <3>1. 1 \in 1 .. Len(markerLabels')
      BY <1>1
    <3>2. Behind(d, 1)'
      BY <1>1, <1>2, <1>4, <2>2 DEF Behind, Color
    <3>  QED  BY <3>1, <3>2
  <2>  QED  BY <1>1, <2>1, <2>2
<1>  QED  BY <1>3, <1>4

\* An automatic colour that is taken was chosen: the counter is not that far behind.
LEMMA TakenWasChosen ==
  ASSUME TypeOK, RegistryCoherent, LazyInv, status = "running", Taken(lazy_colorId)
  PROVE  lazy_colorId \in chosen
<1>  SUFFICES ASSUME lazy_colorId \notin chosen PROVE FALSE
  OBVIOUS
<1>1. PICK k \in 1 .. Len(markerLabels) : Behind(lazy_colorId, k)
  BY DEF LazyInv, Taken
<1>2. /\ lazy_colorId \in Nat /\ k \in Nat \ {0} /\ UInt16Max \in Nat
      /\ k <= Len(markerLabels) /\ Len(markerLabels) <= UInt16Max - 2
      /\ Len(markerLabels) \in Nat
  BY Widths, LenProperties DEF TypeOK, Color, RegistryCoherent
<1>  QED  BY <1>1, <1>2 DEF Behind

-----------------------------------------------------------------------------
(* The invariant. *)

LEMMA InitInvariant == Init => IInv
<1>  SUFFICES ASSUME Init PROVE IInv
  OBVIOUS
<1>1. TypeOK
  <2>1. << >> \in Seq(Label) /\ << >> \in Seq(Color)  OBVIOUS
  <2>  QED  BY <2>1, EmptyAgrees, Widths DEF Init, TypeOK
<1>2. RegistryCoherent /\ JsonInv /\ LazyInv
  <2>1. Len(markerLabels) = 0  BY DEF Init
  <2>  QED  BY <2>1, EmptyAgrees, Widths
            DEF Init, RegistryCoherent, JsonInv, LazyInv, EmptyJson
<1>3. MetadataCoherent /\ LazyNeverCollides
  BY DEF Init, MetadataCoherent, LazyNeverCollides
<1>  QED  BY <1>1, <1>2, <1>3 DEF IInv

LEMMA RegisterInvariant ==
  ASSUME IInv, InSession, ~ Full,
         NEW l \in Label, NEW c \in Color, ~ Taken(c), Register(l, c),
         \/ lazy_colorId' = lazy_colorId /\ chosen' = chosen \cup {c}
         \/ lazy_colorId' = NextLazyColor /\ chosen' = chosen /\ c = lazy_colorId,
         UNCHANGED << procExists, json, metadata, status, session, asked >>
  PROVE  IInv'
<1>1. /\ Agree(markerLabels', markerColorIds', markerTypes')
      /\ markerLabels' \in Seq(Label) /\ markerColorIds' \in Seq(Color)
      /\ markerTypes' \in UNION {[C -> Label] : C \in SUBSET Color}
      /\ DOMAIN markerTypes' = DOMAIN markerTypes \cup {c}
      /\ Len(markerLabels') = Len(markerLabels) + 1
  <2>1. /\ markerLabels \in Seq(Label) /\ markerColorIds \in Seq(Color)
        /\ markerTypes \in UNION {[C -> Label] : C \in SUBSET Color}
        /\ Agree(markerLabels, markerColorIds, markerTypes)
        /\ c \notin DOMAIN markerTypes
    BY DEF IInv, TypeOK, RegistryCoherent, Taken
  <2>2. /\ Agree(Append(markerLabels, l), Append(markerColorIds, c),
                 WithType(markerTypes, c, l))
        /\ Append(markerLabels, l) \in Seq(Label)
        /\ Append(markerColorIds, c) \in Seq(Color)
        /\ WithType(markerTypes, c, l) \in UNION {[C -> Label] : C \in SUBSET Color}
        /\ DOMAIN WithType(markerTypes, c, l) = DOMAIN markerTypes \cup {c}
        /\ Len(Append(markerLabels, l)) = Len(markerLabels) + 1
    BY <2>1, RegisterAgrees
  <2>  QED  BY <2>2 DEF Register
<1>2. lazy_colorId' \in Color /\ chosen' \in SUBSET Color
  BY NextColor DEF IInv, TypeOK, NextLazyColor
<1>3. TypeOK'
  BY <1>1, <1>2 DEF IInv, TypeOK, json
<1>4. RegistryCoherent'
  <2>1. Len(markerLabels) \in Nat
    BY LenProperties DEF IInv, TypeOK
  <2>2. Len(markerLabels') <= EVENTID_RESERVED_MIN
    BY <1>1, <2>1, Widths DEF Full
  <2>  QED  BY <1>1, <2>2 DEF RegistryCoherent
<1>5. JsonInv'
  BY <1>1 DEF IInv, JsonInv, json
<1>6. LazyInv'
  BY RegisterKeepsLazy DEF IInv, InSession
<1>7. MetadataCoherent' /\ LazyNeverCollides'
  BY DEF IInv, MetadataCoherent, LazyNeverCollides, InSession
<1>  QED  BY <1>3, <1>4, <1>5, <1>6, <1>7 DEF IInv

LEMMA NextInvariant == IInv /\ [Next]_vars => IInv'
<1>  SUFFICES ASSUME IInv, [Next]_vars PROVE IInv'
  OBVIOUS
<1>1. CASE Start
  <2>1. TypeOK'
    <3>1. << >> \in Seq(Label) /\ << >> \in Seq(Color)  OBVIOUS
    <3>2. /\ markerTypes' \in UNION {[C -> Label] : C \in SUBSET Color}
          /\ json_file' \in Json
      BY <1>1, EmptyAgrees DEF Start
    <3>3. session' \in Nat /\ chosen' \in SUBSET Color
      BY <1>1 DEF Start, IInv, TypeOK
    <3>  QED  BY <1>1, <3>1, <3>2, <3>3 DEF Start, IInv, TypeOK
  <2>2. RegistryCoherent' /\ JsonInv' /\ LazyInv'
    <3>1. Len(markerLabels') = 0  BY <1>1 DEF Start
    <3>  QED  BY <1>1, <3>1, EmptyAgrees, Widths
              DEF Start, RegistryCoherent, JsonInv, LazyInv, EmptyJson
  <2>3. MetadataCoherent' /\ LazyNeverCollides'
    BY <1>1 DEF Start, IInv, MetadataCoherent, LazyNeverCollides
  <2>  QED  BY <2>1, <2>2, <2>3 DEF IInv
<1>2. ASSUME NEW l \in Label, NEW c \in Color, MarkWColorAdd(l, c)
      PROVE  IInv'
  BY <1>2, RegisterInvariant DEF MarkWColorAdd
<1>3. ASSUME NEW l \in Label, MarkAdd(l)
      PROVE  IInv'
  <2>1. lazy_colorId \in Color  BY DEF IInv, TypeOK
  <2>  QED  BY <1>3, <2>1, RegisterInvariant DEF MarkAdd
<1>4. ASSUME NEW c \in Color, MarkWColorAddTaken(c) \/ MarkAddFull
      PROVE  IInv'
  BY <1>4 DEF MarkWColorAddTaken, MarkAddFull, registry, json, IInv, TypeOK,
              RegistryCoherent, JsonInv, LazyInv, Behind, MetadataCoherent,
              LazyNeverCollides
<1>5. CASE MarkAddTaken
  <2>1. lazy_colorId \in chosen
    BY <1>5, TakenWasChosen DEF IInv, MarkAddTaken, InSession
  <2>2. LazyNeverCollides'
    BY <1>5, <2>1 DEF MarkAddTaken, NextLazyColor, LazyNeverCollides
  <2>3. TypeOK'
    BY <1>5, NextColor DEF MarkAddTaken, NextLazyColor, registry, json, IInv, TypeOK
  <2>4. RegistryCoherent' /\ JsonInv' /\ LazyInv' /\ MetadataCoherent'
    BY <1>5 DEF MarkAddTaken, registry, json, IInv, RegistryCoherent, JsonInv,
                LazyInv, MetadataCoherent
  <2>  QED  BY <2>2, <2>3, <2>4 DEF IInv
<1>6. CASE GetJsonStr
  <2>1. TypeOK' /\ JsonInv'
    BY <1>6, WrittenAgrees DEF GetJsonStr, registry, IInv, TypeOK, JsonInv
  <2>2. RegistryCoherent' /\ LazyInv' /\ MetadataCoherent' /\ LazyNeverCollides'
    BY <1>6 DEF GetJsonStr, registry, IInv, RegistryCoherent, LazyInv, Behind,
                MetadataCoherent, LazyNeverCollides
  <2>  QED  BY <2>1, <2>2 DEF IInv
<1>7. CASE End
  <2>1. TypeOK' /\ JsonInv' /\ MetadataCoherent'
    BY <1>7, DumpedAgrees DEF End, registry, IInv, TypeOK, JsonInv, MetadataCoherent
  <2>2. RegistryCoherent' /\ LazyInv' /\ LazyNeverCollides'
    BY <1>7 DEF End, registry, IInv, RegistryCoherent, LazyInv, Behind,
                LazyNeverCollides
  <2>  QED  BY <2>1, <2>2 DEF IInv
<1>8. CASE Finished \/ UNCHANGED vars
  BY <1>8 DEF Finished, vars, registry, json, IInv, TypeOK, RegistryCoherent,
              JsonInv, LazyInv, Behind, MetadataCoherent, LazyNeverCollides
<1>  QED  BY <1>1, <1>2, <1>3, <1>4, <1>5, <1>6, <1>7, <1>8, Widths DEF Next

\* The inductive invariant holds in every reachable state.
THEOREM Invariant == Spec => []IInv
  BY InitInvariant, NextInvariant, PTL DEF Spec

\* The types, for every value of the constants.
THEOREM TypeCorrect == Spec => []TypeOK
<1>1. IInv => TypeOK
  BY DEF IInv
<1>  QED  BY <1>1, Invariant, PTL

\* Every marker has a colour of its own and an unreserved event id, for every
\* width of the ids and every order of the two registration calls.
THEOREM RegistryIsCoherent == Spec => []RegistryCoherent
<1>1. IInv => RegistryCoherent
  BY DEF IInv
<1>  QED  BY <1>1, Invariant, PTL

\* What END dumps agrees with itself, however often the JSON was requested.
THEOREM DumpIsCoherent == Spec => []MetadataCoherent
<1>1. IInv => MetadataCoherent
  BY DEF IInv
<1>  QED  BY <1>1, Invariant, PTL

\* The wrapping colour counter never runs into its own colours: the ids of a
\* session run out first (EVENTID_RESERVED_MIN is below the number of colours).
THEOREM LazyColorsAreFresh == Spec => []LazyNeverCollides
<1>1. IInv => LazyNeverCollides
  BY DEF IInv
<1>  QED  BY <1>1, Invariant, PTL

-----------------------------------------------------------------------------
(* The dump without a request for the JSON string. *)

\* Within a session only GET_JSON_STR makes the JSON object ready.
DumpInv == DumpComplete /\ (procExists /\ json_is_ready => asked)

LEMMA NextDump == IInv /\ DumpInv /\ [Next]_vars => DumpInv'
<1>  SUFFICES ASSUME IInv, DumpInv, [Next]_vars PROVE DumpInv'
  OBVIOUS
<1>1. CASE Start
  BY <1>1 DEF Start, DumpInv, DumpComplete, HasDump
<1>2. ASSUME NEW l \in Label, MarkAdd(l) \/ \E c \in Color : MarkWColorAdd(l, c)
      PROVE  DumpInv'
  BY <1>2 DEF MarkAdd, MarkWColorAdd, InSession, json, DumpInv, DumpComplete, HasDump
<1>3. CASE MarkAddFull \/ MarkAddTaken \/ \E c \in Color : MarkWColorAddTaken(c)
  BY <1>3 DEF MarkAddFull, MarkAddTaken, MarkWColorAddTaken, InSession, json, DumpInv,
              DumpComplete, HasDump
<1>4. CASE GetJsonStr
  BY <1>4 DEF GetJsonStr, InSession, DumpInv, DumpComplete, HasDump
<1>5. CASE End
  <2>  SUFFICES ASSUME ~ asked PROVE DumpComplete'
    BY <1>5 DEF End, DumpInv, DumpComplete
  <2>1. metadata' = Written(json_file)
    BY <1>5 DEF End, InSession, Dumped, DumpInv
  <2>2. Written(json_file) = [markerLabels   |-> markerLabels,
                              markerColorIds |-> markerColorIds,
                              markerTypes    |-> markerTypes]
    BY WrittenAgrees DEF IInv
  <2>  QED  BY <1>5, <2>1, <2>2 DEF End, registry, DumpComplete
<1>6. CASE Finished \/ UNCHANGED vars
  BY <1>6 DEF Finished, vars, registry, json, DumpInv, DumpComplete, HasDump
<1>  QED  BY <1>1, <1>2, <1>3, <1>4, <1>5, <1>6 DEF Next

\* Without GET_JSON_STR, metadata.json has every marker of its session, however
\* often and in whatever order the application registered.
THEOREM DumpIsComplete == Spec => []DumpComplete
<1>1. Init => DumpInv
  BY DEF Init, DumpInv, DumpComplete, HasDump
<1>2. DumpInv => DumpComplete
  BY DEF DumpInv
<1>  QED  BY <1>1, <1>2, NextDump, Invariant, PTL DEF Spec

-----------------------------------------------------------------------------
(* The channels. *)

\* The registry does not notice the channels, so what is proved of it holds.
LEMMA ChannelsRun == ChannelsSpec => Spec
<1>1. ChannelsInit => Init
  BY DEF ChannelsInit
<1>2. [ChannelsNext]_channelVars => [Next]_vars
  BY DEF ChannelsNext, AddCustomChannelNames, AddNumberOfChannels, StartEmpty,
     EndWithChannels, MarkerCall, Next, channelVars
<1>  QED  BY <1>1, <1>2, PTL DEF ChannelsSpec, Spec

Fields == [channel_names : Nat \cup {Absent}, num_channels : Nat \cup {Absent}]

Declarations == [call : {"names", "number"}, n : Nat]

\* Call i is the last of those that count, and the fields say what it declared.
DecidedBy(i) ==
  /\ i \in Deciding /\ \A j \in Deciding : j <= i
  /\ NumChannels(json_channels) = declarations[i].n

\* The object has names once a list was declared, and a number once anything was.
FieldsAgree ==
  /\ json_channels \in Fields /\ declarations \in Seq(Declarations)
  /\ json_channels.channel_names # Absent <=> Named # {}
  /\ json_channels.num_channels # Absent <=> declarations # << >>
  /\ declarations # << >> => \E i \in DOMAIN declarations : DecidedBy(i)

\* A call is the last one, and is among those that count if it declares names or
\* there are none.
LEMMA DeclareAppends ==
  ASSUME declarations \in Seq(Declarations),
         NEW call \in {"names", "number"}, NEW n \in Nat, Declare(call, n)
  PROVE  LET K == Len(declarations) + 1
         IN  /\ declarations' \in Seq(Declarations) /\ declarations' # << >>
             /\ DOMAIN declarations' = DOMAIN declarations \cup {K} /\ K \in DOMAIN declarations'
             /\ \A i \in DOMAIN declarations : declarations'[i] = declarations[i] /\ i <= K
             /\ declarations'[K].n = n /\ K \notin DOMAIN declarations /\ K <= K
             /\ Named' = IF call = "names" THEN Named \cup {K} ELSE Named
<1>  DEFINE x == [call |-> call, n |-> n]
            K == Len(declarations) + 1
<1>1. x \in Declarations /\ x.call = call /\ x.n = n
  BY DEF Declarations
<1>2. declarations' = Append(declarations, x)
  BY DEF Declare
<1>  HIDE DEF x
<1>3. /\ declarations' \in Seq(Declarations) /\ declarations' # << >>
      /\ DOMAIN declarations = 1 .. Len(declarations) /\ Len(declarations) \in Nat
      /\ DOMAIN declarations' = 1 .. K
      /\ declarations'[K] = x
      /\ \A i \in DOMAIN declarations : declarations'[i] = declarations[i]
  BY <1>1, <1>2
<1>4. /\ DOMAIN declarations' = DOMAIN declarations \cup {K} /\ K \in DOMAIN declarations'
      /\ K \notin DOMAIN declarations /\ K <= K
      /\ \A i \in DOMAIN declarations : i <= K
  BY <1>3
<1>  HIDE DEF K
<1>5. Named' = IF call = "names" THEN Named \cup {K} ELSE Named
  BY <1>1, <1>3, <1>4 DEF Named
<1>  QED  BY <1>1, <1>3, <1>4, <1>5 DEF K

LEMMA DeclareAgrees ==
  ASSUME FieldsAgree, NEW n \in Nat, AddCustomChannelNames(n) \/ AddNumberOfChannels(n)
  PROVE  FieldsAgree'
<1>  PICK K : K = Len(declarations) + 1
  OBVIOUS
<1>1. CASE AddCustomChannelNames(n)
  <2>1. json_channels' = [channel_names |-> n, num_channels |-> n] /\ Declare("names", n)
    BY <1>1 DEF AddCustomChannelNames
  <2>2. /\ declarations' \in Seq(Declarations) /\ declarations' # << >>
        /\ DOMAIN declarations' = DOMAIN declarations \cup {K} /\ K \in DOMAIN declarations'
        /\ \A i \in DOMAIN declarations : i <= K
        /\ declarations'[K].n = n /\ Named' = Named \cup {K} /\ K <= K
    BY <2>1, DeclareAppends DEF FieldsAgree
  <2>3. /\ json_channels' \in Fields /\ json_channels'.channel_names = n
        /\ json_channels'.num_channels = n /\ n # Absent
    BY <2>1 DEF Fields, Absent
  <2>4. NumChannels(json_channels') = n
    BY <2>3 DEF NumChannels
  <2>5. Deciding' = Named \cup {K} /\ \A j \in Named \cup {K} : j <= K
    BY <2>2 DEF Deciding, Named
  <2>6. DecidedBy(K)'
    BY <2>2, <2>4, <2>5 DEF DecidedBy
  <2>  QED  BY <2>2, <2>3, <2>6 DEF FieldsAgree
<1>2. CASE AddNumberOfChannels(n)
  <2>1. json_channels' = [json_channels EXCEPT !.num_channels = n] /\ Declare("number", n)
    BY <1>2 DEF AddNumberOfChannels
  <2>2. /\ declarations' \in Seq(Declarations) /\ declarations' # << >>
        /\ DOMAIN declarations' = DOMAIN declarations \cup {K} /\ K \in DOMAIN declarations'
        /\ \A i \in DOMAIN declarations : declarations'[i] = declarations[i] /\ i <= K
        /\ declarations'[K].n = n /\ Named' = Named /\ K <= K
    BY <2>1, DeclareAppends DEF FieldsAgree
  <2>3. /\ json_channels' \in Fields
        /\ json_channels'.channel_names = json_channels.channel_names
        /\ json_channels'.num_channels = n /\ n # Absent
    BY <2>1 DEF FieldsAgree, Fields, Absent
  <2>4. \E i \in DOMAIN declarations' : DecidedBy(i)'
    <3>1. CASE Named # {}
      <4>1. declarations # << >>
        BY <3>1 DEF Named
      <4>2. PICK i \in DOMAIN declarations : DecidedBy(i)
        BY <4>1 DEF FieldsAgree
      <4>3. Deciding' = Deciding /\ declarations'[i] = declarations[i]
        BY <2>2, <3>1 DEF Deciding
      <4>4. NumChannels(json_channels') = NumChannels(json_channels)
        BY <2>3, <3>1 DEF NumChannels, FieldsAgree
      <4>5. DecidedBy(i)'
        BY <4>2, <4>3, <4>4 DEF DecidedBy
      <4>  QED  BY <2>2, <4>5
    <3>2. CASE Named = {}
      <4>1. Deciding' = DOMAIN declarations'
        BY <2>2, <3>2 DEF Deciding
      <4>2. NumChannels(json_channels') = n
        BY <2>3, <3>2 DEF NumChannels, FieldsAgree
      <4>3. DecidedBy(K)'
        BY <2>2, <4>1, <4>2 DEF DecidedBy
      <4>  QED  BY <2>2, <4>3
    <3>  QED  BY <3>1, <3>2
  <2>  QED  BY <2>2, <2>3, <2>4 DEF FieldsAgree
<1>  QED  BY <1>1, <1>2

LEMMA NextFields ==
  ASSUME FieldsAgree, LastNamesDecide, [ChannelsNext]_channelVars
  PROVE  FieldsAgree' /\ LastNamesDecide'
<1>1. ASSUME NEW n \in Nat, AddCustomChannelNames(n) \/ AddNumberOfChannels(n)
      PROVE  FieldsAgree' /\ LastNamesDecide'
  <2>1. ~ HasDump'
    BY <1>1 DEF AddCustomChannelNames, AddNumberOfChannels, InSession, HasDump, vars
  <2>  QED  BY <1>1, <2>1, DeclareAgrees DEF LastNamesDecide
<1>2. CASE StartEmpty
  <2>1. ~ HasDump'
    BY <1>2 DEF StartEmpty, Start, HasDump
  <2>2. declarations' = << >> /\ json_channels' = NoFields
    BY <1>2 DEF StartEmpty
  <2>3. Named' = {}
    BY <2>2 DEF Named
  <2>4. FieldsAgree'
    BY <2>2, <2>3 DEF FieldsAgree, Fields, NoFields
  <2>  QED  BY <2>1, <2>4 DEF LastNamesDecide
<1>3. CASE EndWithChannels
  <2>1. /\ json_channels' = json_channels /\ declarations' = declarations
        /\ metadata_channels' = json_channels
    BY <1>3 DEF EndWithChannels, DumpedChannels
  <2>2. FieldsAgree'
    BY <2>1 DEF FieldsAgree, Named, DecidedBy, Deciding
  <2>3. CASE declarations = << >>
    <3>1. NumChannels(json_channels) = 1
      BY <2>3 DEF FieldsAgree, Named, NumChannels
    <3>  QED  BY <2>1, <2>2, <2>3, <3>1 DEF LastNamesDecide
  <2>4. CASE declarations # << >>
    <3>1. PICK i \in DOMAIN declarations : DecidedBy(i)
      BY <2>4 DEF FieldsAgree
    <3>  QED  BY <2>1, <2>2, <3>1 DEF LastNamesDecide, DecidedBy, Deciding, Named
  <2>  QED  BY <2>3, <2>4
<1>4. CASE UNCHANGED channels /\ (UNCHANGED vars \/ Finished \/ MarkerCall)
  <2>1. FieldsAgree'
    BY <1>4 DEF channels, FieldsAgree, Named, DecidedBy, Deciding
  <2>2. HasDump' => HasDump
    BY <1>4 DEF Finished, vars, MarkerCall, MarkWColorAdd, MarkWColorAddTaken, MarkAdd,
       MarkAddFull, MarkAddTaken, GetJsonStr, json, InSession, HasDump
  <2>3. LastNamesDecide => (~ HasDump \/ LastNamesDecide')
    BY <1>4 DEF channels, LastNamesDecide, Named, Deciding
  <2>  QED  BY <2>1, <2>2, <2>3 DEF LastNamesDecide
<1>  QED
  BY <1>1, <1>2, <1>3, <1>4, ChannelAssumption DEF ChannelsNext, channelVars

\* The number of channels the post-processor sees is the one the application declared
\* last, unless it gave them names: then it is that of the names, whatever number was
\* declared before or after them, and whatever markers and requests for the JSON
\* string lie between the calls.
THEOREM ChannelsAreLastNamed == ChannelsSpec => []LastNamesDecide
<1>1. ChannelsInit => FieldsAgree /\ LastNamesDecide
  BY DEF ChannelsInit, Init, HasDump, NoFields, Fields, FieldsAgree, Named, LastNamesDecide
<1>  QED  BY <1>1, NextFields, PTL DEF ChannelsSpec

=============================================================================
