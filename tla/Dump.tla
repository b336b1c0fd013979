-------------------------------- MODULE Dump --------------------------------
(***************************************************************************)
(* The terminal dump of one proc: it prints the merged payloads and keeps  *)
(* three tables of them, which it reports when the merger is empty.  The   *)
(* tables are local to the proc, so several procs are several dumps.       *)
(***************************************************************************)
EXTENDS Merge, TracrIds, FiniteSets

VARIABLES
  channelIds_check,   \* channel -> sets minus resets
  extraIds_check,     \* channel -> extra ids seen an odd number of times
  event_counts        \* event id -> payloads

checks   == << channelIds_check, extraIds_check, event_counts >>
dumpVars == << vars, checks >>

NoEntries == [k \in {} |-> 0]

DumpInit ==
  /\ Init
  /\ channelIds_check = NoEntries
  /\ extraIds_check = NoEntries
  /\ event_counts = NoEntries

\* operator[] of a map: a new entry has the value that is the default.
At(map, k, default) == IF k \in DOMAIN map THEN map[k] ELSE default

\* The map after an assignment to the entry of k.
Put(map, k, v) == [j \in DOMAIN map \cup {k} |-> IF j = k THEN v ELSE map[j]]

\* The payload next() has just returned.
Returned == output'[Len(output')][1]

CountEvent(payload) ==
  event_counts' = Put(event_counts, payload.eventId,
                      At(event_counts, payload.eventId, 0) + 1)

\* The counter of the channel after the payload.
Balance(payload) ==
  At(channelIds_check, payload.channelId, 0)
    + IF payload.eventId = EVENTID_RESET THEN -1 ELSE 1

\* The extra ids of the channel after the payload: in if it was out, else out.
Toggled(payload) ==
  LET ids == At(extraIds_check, payload.channelId, {})
      id  == {payload.extraId}
  IN  (ids \ id) \cup (id \ ids)

\* Faulty variant, used to test the properties.
SkipsFlowStarts(payload) == payload.eventId = EVENTID_FLOW_START

\* Flow payloads are not part of the checks.
SkipsChecks(payload) == IsFlow(payload)

DumpFlow(payload) ==
  /\ SkipsChecks(payload)
  /\ CountEvent(payload)
  /\ UNCHANGED << channelIds_check, extraIds_check >>

DumpSetOrReset(payload) ==
  /\ ~ SkipsChecks(payload)
  /\ CountEvent(payload)
  /\ channelIds_check' = Put(channelIds_check, payload.channelId, Balance(payload))
  /\ extraIds_check' = Put(extraIds_check, payload.channelId, Toggled(payload))

DumpPayload == MergeNext /\ (DumpFlow(Returned) \/ DumpSetOrReset(Returned))

DumpDone == Done /\ UNCHANGED checks

DumpNext == DumpPayload \/ DumpDone

DumpSpec == DumpInit /\ [][DumpNext]_dumpVars /\ WF_dumpVars(DumpPayload)

\* The two reports.
ChannelReport == {c \in DOMAIN channelIds_check : channelIds_check[c] # 0}
ExtraIdReport == {c \in DOMAIN extraIds_check : extraIds_check[c] # {}}

-----------------------------------------------------------------------------
(* Properties. *)

\* The places of the payloads of channel c that Kind selects.
Places(Kind(_), c) ==
  UNION {{<< i, k >> : k \in {n \in DOMAIN files[i] : /\ files[i][n].channelId = c
                                                     /\ Kind(files[i][n])}} :
           i \in DOMAIN files}

ChannelsUsed == UNION {{files[i][k].channelId : k \in DOMAIN files[i]} : i \in DOMAIN files}
EventsUsed   == UNION {{files[i][k].eventId : k \in DOMAIN files[i]} : i \in DOMAIN files}

MismatchReported ==
  LET IsReset(x) == x.eventId = EVENTID_RESET
      IsSet(x)   == ~ IsFlow(x) /\ ~ IsReset(x)
  IN  ChannelReport = {c \in ChannelsUsed :
                         Cardinality(Places(IsSet, c)) # Cardinality(Places(IsReset, c))}

HistogramExact ==
  /\ DOMAIN event_counts = EventsUsed
  /\ \A id \in EventsUsed :
       LET IsEvent(x) == x.eventId = id
       IN  event_counts[id] = Cardinality(UNION {Places(IsEvent, c) : c \in ChannelsUsed})

\* The dump "reports any channels with mismatched SET/RESET counts" (README.md),
\* and no others, whichever threads the sets and resets of a channel are from and
\* in whichever order equal timestamps come off the heap; and the counts of the
\* event ids ("Downstream scripts parse this block") are those of the files.
ReportExact == Empty(merger) => MismatchReported /\ HistogramExact

\* The sets and resets of the channel alternate in the order of the dump, and the
\* last one is a reset: every event that is opened is closed.
PushPop(c) ==
  LET OnChannel(pair) == pair[1].channelId = c /\ ~ IsFlow(pair[1])
      seq == SelectSeq(output, OnChannel)
  IN  /\ Len(seq) % 2 = 0
      /\ \A k \in DOMAIN seq : (seq[k][1].eventId = EVENTID_RESET) <=> (k % 2 = 0)

\* "Channels which do not follow Push/Pop methology for the extraIds": a channel
\* that does is not in the list.
PushPopNotReported ==
  Empty(merger) => \A c \in ExtraIdReport : ~ PushPop(c)

=============================================================================
