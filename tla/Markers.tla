------------------------------ MODULE Markers -------------------------------
(***************************************************************************)
(* The marker registry of a process and what metadata.json says about it:  *)
(* registration with a chosen or with an automatic Paraver colour, the     *)
(* JSON string on request, and the dump at INSTRUMENTATION_END.  One       *)
(* thread registers (the code says it is not thread safe), between START   *)
(* and END; the automatic colour counter outlives the session.             *)
(*                                                                         *)
(* An event id is an index of markerLabels: id i is element i + 1 here.    *)
(***************************************************************************)
EXTENDS TracrIds, Sequences, Functions

CONSTANTS
  Label,          \* marker labels
  FirstLazyColor, \* initial value of lazy_colorId
  NoFile,         \* metadata.json does not exist
  MaxSessions     \* bound: START ... END cycles

Color == 0 .. UInt16Max

\* What the JSON object holds about the markers.
Json == [markerLabels   : Seq(Label),
         markerColorIds : Seq(Color),
         markerTypes    : UNION {[C -> Label] : C \in SUBSET Color}]

ASSUME MarkersAssumption ==
  /\ FirstLazyColor \in Color
  /\ NoFile \notin Json
  /\ MaxSessions \in Nat

VARIABLES
  procExists,      \* tracrProc is not a nullptr
  markerTypes,     \* colour -> label
  markerLabels,    \* labels by event id
  markerColorIds,  \* colours by event id
  json_file,
  json_is_ready,
  lazy_colorId,
  metadata,        \* contents of metadata.json, or NoFile
  status,          \* "running", or why the process exited: "full", "taken"
                   \* (chosen colour), "lazyTaken" (automatic colour)
  session,         \* number of STARTs so far
  asked,           \* history: GET_JSON_STR was called in this session
  chosen           \* history: colours the application chose in this session

registry == << markerTypes, markerLabels, markerColorIds >>
json     == << json_file, json_is_ready >>
vars == << procExists, registry, json, lazy_colorId, metadata, status, session,
           asked, chosen >>

TypeOK ==
  /\ procExists \in BOOLEAN
  /\ markerTypes \in UNION {[C -> Label] : C \in SUBSET Color}
  /\ markerLabels \in Seq(Label)
  /\ markerColorIds \in Seq(Color)
  /\ json_file \in Json
  /\ json_is_ready \in BOOLEAN
  /\ lazy_colorId \in Color
  /\ metadata \in Json \cup {NoFile}
  /\ status \in {"running", "full", "taken", "lazyTaken"}
  /\ session \in Nat
  /\ asked \in BOOLEAN
  /\ chosen \in SUBSET Color

NoTypes == [c \in {} |-> 0]

EmptyJson == [markerLabels |-> << >>, markerColorIds |-> << >>,
              markerTypes |-> NoTypes]

Init ==
  /\ procExists = FALSE
  /\ markerTypes = NoTypes
  /\ markerLabels = << >>
  /\ markerColorIds = << >>
  /\ json_file = EmptyJson
  /\ json_is_ready = FALSE
  /\ lazy_colorId = FirstLazyColor
  /\ metadata = NoFile
  /\ status = "running"
  /\ session = 0
  /\ asked = FALSE
  /\ chosen = {}

\* A fresh TraCRProc; the colour counter is a global and goes on.
Start ==
  /\ status = "running" /\ ~ procExists
  /\ session < MaxSessions
  /\ procExists' = TRUE
  /\ markerTypes' = NoTypes
  /\ markerLabels' = << >>
  /\ markerColorIds' = << >>
  /\ json_file' = EmptyJson
  /\ json_is_ready' = FALSE
  /\ session' = session + 1
  /\ asked' = FALSE
  /\ chosen' = {}
  /\ UNCHANGED << lazy_colorId, metadata, status >>

-----------------------------------------------------------------------------
(* Registration. *)

\* Faulty variant, used to test the properties.
FullAtWidth == Len(markerLabels) >= UInt16Max

Full == Len(markerLabels) >= EVENTID_RESERVED_MIN

Taken(color) == color \in DOMAIN markerTypes

WithType(types, color, label) ==
  [c \in DOMAIN types \cup {color} |-> IF c = color THEN label ELSE types[c]]

\* The tail both registration calls share.
Register(label, color) ==
  /\ markerTypes' = WithType(markerTypes, color, label)
  /\ markerLabels' = Append(markerLabels, label)
  /\ markerColorIds' = Append(markerColorIds, color)

InSession == status = "running" /\ procExists

MarkWColorAdd(label, color) ==
  /\ InSession /\ ~ Full /\ ~ Taken(color)
  /\ Register(label, color)
  /\ chosen' = chosen \cup {color}
  /\ UNCHANGED << procExists, json, lazy_colorId, metadata, status, session, asked >>

MarkWColorAddTaken(color) ==
  /\ InSession /\ ~ Full /\ Taken(color)
  /\ status' = "taken"
  /\ UNCHANGED << procExists, registry, json, lazy_colorId, metadata, session,
                  asked, chosen >>

\* Both calls refuse once the unreserved event ids are used up.
MarkAddFull ==
  /\ InSession /\ Full
  /\ status' = "full"
  /\ UNCHANGED << procExists, registry, json, lazy_colorId, metadata, session,
                  asked, chosen >>

\* Faulty variants, used to test the properties.
UnboundedColor  == lazy_colorId + 1
SaturatingColor == IF lazy_colorId = UInt16Max THEN UInt16Max ELSE lazy_colorId + 1

\* fetch_add on a 16-bit counter.
NextLazyColor == (lazy_colorId + 1) % (UInt16Max + 1)

MarkAdd(label) ==
  /\ InSession /\ ~ Full /\ ~ Taken(lazy_colorId)
  /\ lazy_colorId' = NextLazyColor
  /\ Register(label, lazy_colorId)
  /\ UNCHANGED << procExists, json, metadata, status, session, asked, chosen >>

\* The colour is used up, and the process exits.
MarkAddTaken ==
  /\ InSession /\ ~ Full /\ Taken(lazy_colorId)
  /\ lazy_colorId' = NextLazyColor
  /\ status' = "lazyTaken"
  /\ UNCHANGED << procExists, registry, json, metadata, session, asked, chosen >>

-----------------------------------------------------------------------------
(* The JSON object. *)

\* Faulty variant, used to test the properties.
KeepsOldTypes(j) == [markerLabels   |-> markerLabels,
                     markerColorIds |-> markerColorIds,
                     markerTypes    |-> IF j.markerTypes = NoTypes THEN markerTypes
                                        ELSE j.markerTypes]

\* write_JSON() replaces both arrays and adds to the types.
Written(j) ==
  [markerLabels   |-> markerLabels,
   markerColorIds |-> markerColorIds,
   markerTypes    |-> [c \in DOMAIN markerTypes \cup DOMAIN j.markerTypes |->
                         IF c \in DOMAIN markerTypes THEN markerTypes[c]
                         ELSE j.markerTypes[c]]]

\* Faulty variant, used to test the properties.
DumpAsItIs == json_file

\* What dump_JSON() writes.
Dumped == IF json_is_ready THEN json_file ELSE Written(json_file)

GetJsonStr ==
  /\ InSession
  /\ json_file' = Written(json_file)
  /\ json_is_ready' = TRUE
  /\ asked' = TRUE
  /\ UNCHANGED << procExists, registry, lazy_colorId, metadata, status, session,
                  chosen >>

\* The registry dies with the TraCRProc; its last value stays visible here.
End ==
  /\ InSession
  /\ json_file' = Dumped
  /\ json_is_ready' = TRUE
  /\ metadata' = Dumped
  /\ procExists' = FALSE
  /\ UNCHANGED << registry, lazy_colorId, status, session, asked, chosen >>

\* The process exited, or the application starts no more sessions.
Finished ==
  /\ status # "running" \/ (~ procExists /\ session = MaxSessions)
  /\ UNCHANGED vars

Next ==
  \/ Start
  \/ \E l \in Label, c \in Color : MarkWColorAdd(l, c)
  \/ \E c \in Color : MarkWColorAddTaken(c)
  \/ \E l \in Label : MarkAdd(l)
  \/ MarkAddFull \/ MarkAddTaken
  \/ GetJsonStr \/ End \/ Finished

Spec == Init /\ [][Next]_vars

-----------------------------------------------------------------------------
(* Properties. *)

\* The three views agree: every event id has its own colour, and the colour's
\* label is the label of the id.
Agree(labels, colors, types) ==
  /\ Len(labels) = Len(colors)
  /\ IsInjective(colors)
  /\ DOMAIN types = Range(colors)
  /\ \A i \in DOMAIN colors : types[colors[i]] = labels[i]

\* The ids handed out stay below the reserved ones, and the registry's views
\* agree whatever mixture of chosen and automatic colours was registered.
RegistryCoherent ==
  /\ Len(markerLabels) <= EVENTID_RESERVED_MIN
  /\ Agree(markerLabels, markerColorIds, markerTypes)

\* The views in metadata.json agree as well, so the .pcf legend (markerTypes) names
\* the events of the .prv (markerColorIds) as Perfetto does (markerLabels), also
\* when the JSON was requested several times on the way.
MetadataCoherent ==
  metadata # NoFile =>
    Agree(metadata.markerLabels, metadata.markerColorIds, metadata.markerTypes)

\* An automatic colour is only ever taken because the application chose it
\* itself: the counter wraps and outlives sessions, but never meets its own
\* colours, as a session runs out of event ids first.
LazyNeverCollides ==
  status = "lazyTaken" => \E c \in chosen : lazy_colorId = (c + 1) % (UInt16Max + 1)

HasDump == session > 0 /\ ~ procExists

\* Without a request for the JSON string, metadata.json has every marker.
DumpComplete ==
  HasDump /\ ~ asked =>
    /\ metadata.markerLabels = markerLabels
    /\ metadata.markerColorIds = markerColorIds
    /\ metadata.markerTypes = markerTypes

\* Labels in metadata.json are "the authoritative source for postprocessor label
\* lookup" (marker_management_engine.hpp): every event id handed out has one.
LabelsAuthoritative == HasDump => metadata.markerLabels = markerLabels

=============================================================================
