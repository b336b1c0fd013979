------------------------------ MODULE Channels ------------------------------
(***************************************************************************)
(* The channels of a process: how many there are, or their names, is       *)
(* stored in the JSON object beside the markers of Markers, from where     *)
(* END writes it to metadata.json and the post-processor reads it.  A list *)
(* of names is reduced to its length.                                      *)
(***************************************************************************)
EXTENDS Markers

CONSTANTS
  ListLength,     \* lengths of the lists of names
  ChannelCount,   \* numbers the application declares
  MaxDeclarations \* bound: calls of either kind in one session

ASSUME ChannelAssumption ==
  ListLength \subseteq Nat /\ ChannelCount \subseteq Nat /\ MaxDeclarations \in Nat

VARIABLES
  json_channels,       \* the two fields of json_file
  metadata_channels,   \* the two fields of metadata.json
  declarations         \* history: the calls of this session, in their order

channels    == << json_channels, metadata_channels, declarations >>
channelVars == << vars, channels >>

\* A field that nobody wrote is not in the object.
Absent   == -1
NoFields == [channel_names |-> Absent, num_channels |-> Absent]

ChannelsInit ==
  /\ Init
  /\ json_channels = NoFields /\ metadata_channels = NoFields /\ declarations = << >>

Declare(call, n) ==
  /\ Len(declarations) < MaxDeclarations
  /\ declarations' = Append(declarations, [call |-> call, n |-> n])

AddCustomChannelNames(n) ==
  /\ InSession
  /\ json_channels' = [channel_names |-> n, num_channels |-> n]
  /\ Declare("names", n)
  /\ UNCHANGED << vars, metadata_channels >>

\* Faulty variant, used to test the properties.
ForgetsNames(n) ==
  /\ InSession
  /\ json_channels' = [NoFields EXCEPT !.num_channels = n]
  /\ Declare("number", n)
  /\ UNCHANGED << vars, metadata_channels >>

AddNumberOfChannels(n) ==
  /\ InSession
  /\ json_channels' = [json_channels EXCEPT !.num_channels = n]
  /\ Declare("number", n)
  /\ UNCHANGED << vars, metadata_channels >>

\* The object is a member of the TraCRProc that START makes.
StartEmpty ==
  /\ Start
  /\ json_channels' = NoFields /\ declarations' = << >>
  /\ UNCHANGED metadata_channels

\* The fields are dumped as they are, whether or not write_JSON() ran before.
DumpedChannels == json_channels

EndWithChannels ==
  /\ End
  /\ metadata_channels' = DumpedChannels
  /\ UNCHANGED << json_channels, declarations >>

MarkerCall ==
  \/ \E l \in Label, c \in Color : MarkWColorAdd(l, c)
  \/ \E c \in Color : MarkWColorAddTaken(c)
  \/ \E l \in Label : MarkAdd(l)
  \/ MarkAddFull \/ MarkAddTaken
  \/ GetJsonStr

ChannelsNext ==
  \/ \E n \in ListLength : AddCustomChannelNames(n)
  \/ \E n \in ChannelCount : AddNumberOfChannels(n)
  \/ StartEmpty \/ EndWithChannels
  \/ (MarkerCall \/ Finished) /\ UNCHANGED channels

ChannelsSpec == ChannelsInit /\ [][ChannelsNext]_channelVars

\* extract_channel_info(): how many channels the writers see.
NumChannels(fields) ==
  IF fields.channel_names # Absent THEN fields.channel_names
  ELSE IF fields.num_channels # Absent THEN fields.num_channels
  ELSE 1

-----------------------------------------------------------------------------
(* Properties. *)

\* The calls that count: the lists of names, and the numbers only if there is no
\* such list in the session.
Named    == {i \in DOMAIN declarations : declarations[i].call = "names"}
Deciding == IF Named # {} THEN Named ELSE DOMAIN declarations

\* The number of channels the writers see is decided by the last call that counts,
\* in whatever order names and numbers are declared, and also when they are declared
\* after the application asked for the JSON string, which is too late for a marker.
\* Once there are names a number declared later has no effect, be it larger, and no
\* declaration reaches into the next session.
LastNamesDecide ==
  HasDump =>
    \/ declarations = << >> /\ NumChannels(metadata_channels) = 1
    \/ \E i \in Deciding : /\ \A j \in Deciding : j <= i
                           /\ NumChannels(metadata_channels) = declarations[i].n

=============================================================================
