------------------------------ MODULE ProcData ------------------------------
(***************************************************************************)
(* What the loader hands to the writers of the post-processor: for each    *)
(* proc the payloads of its threads, the numbers of channels and markers,  *)
(* and the anchors of metadata.json (struct ProcData), with the anchors    *)
(* the writers use instead.                                                *)
(***************************************************************************)
EXTENDS PayloadMerger, TracrIds, FiniteSetsExt

CONSTANTS
  UInt64Max,    \* largest timestamp; also the start_time of a proc without one
  Inputs        \* the sequences of procs the loader may hand over

\* A payload vector: its fields have the width of the C++ types, and it is in the
\* order in which it was recorded.
IsTrace(file) ==
  /\ file \in Seq({file[k] : k \in DOMAIN file})
  /\ \A k \in DOMAIN file : /\ file[k].channelId \in Nat
                            /\ file[k].timestamp \in 0 .. UInt64Max
  /\ InTimeOrder(file)

IsProc(proc) ==
  /\ proc.num_channels \in Nat
  /\ proc.num_labels \in Nat          \* 0: no marker tables in metadata.json
  /\ proc.start_time \in 0 .. UInt64Max
  /\ proc.end_time \in 0 .. UInt64Max
  /\ \A i \in DOMAIN proc.files : IsTrace(proc.files[i])

ASSUME ProcAssumption ==
  /\ UInt64Max \in Nat
  /\ \A procs \in Inputs : /\ procs \in Seq({procs[q] : q \in DOMAIN procs})
                           /\ \A q \in DOMAIN procs : IsProc(procs[q])

\* Subtraction of 64-bit timestamps.
Sub64(a, b) == (a - b) % (UInt64Max + 1)

\* The marker tables of the metadata have an entry for the event id, or there are
\* no tables and the id itself is written.
HasLabel(proc, payload) ==
  proc.num_labels = 0 \/ payload.eventId < proc.num_labels

-----------------------------------------------------------------------------
(* extract_sync_anchors(). *)

NonEmpty(files) == {i \in DOMAIN files : files[i] # << >>}

FirstTimes(files) == {files[i][1].timestamp : i \in NonEmpty(files)}
LastTimes(files)  == {files[i][Len(files[i])].timestamp : i \in NonEmpty(files)}

\* Faulty variants, used to test the properties.
IgnoresStartTime(proc) == Min({UInt64Max - 1} \cup FirstTimes(proc.files))
TrustsStartTime(proc) == IF proc.start_time = UInt64Max THEN 0 ELSE proc.start_time

\* The earlier of start_time and the first payload; UInt64Max stands for neither.
SyncStart(proc) ==
  LET first == Min({proc.start_time, UInt64Max} \cup FirstTimes(proc.files))
  IN  IF first = UInt64Max THEN 0 ELSE first

SyncEnd(proc) == Max({proc.end_time} \cup LastTimes(proc.files))

=============================================================================
