------------------------------- MODULE Loader -------------------------------
(***************************************************************************)
(* The first half of tracr_process: it walks over the proc folders of      *)
(* tracr/, reads metadata.json and then every traces.bts of a proc, and    *)
(* gives up on the first thing that is missing or cannot be parsed.  What  *)
(* it reads is a variable it does not write, so that the programs that     *)
(* write it may run beside it (Pipeline).                                  *)
(*                                                                         *)
(* A directory is listed in no particular order.  An entry that is there   *)
(* when the iteration begins is visited; one that is made later may be.    *)
(***************************************************************************)
EXTENDS Integers, Sequences

CONSTANTS
  Pid, Tid,
  NoFolder,     \* proc.<pid>/ or thread.<tid>/ does not exist
  NoFile,       \* traces.bts (in an existing folder) or metadata.json is absent
  Truncated     \* metadata.json is incomplete

VARIABLES
  tracr,      \* per pid: NoFolder, or what is in proc.<pid>/: metadata, and bts
              \* by tid
  at,         \* "base" (before the first folder), "procs" and "threads" (between
              \* two entries of a directory), "metadata", "read", "over"
  listed,     \* pids that were in the directory when its iteration began
  seen,       \* pids visited
  proc,       \* the ProcData being filled: its files by tid
  listedTids, \* tids that were in proc.<pid>/ when its iteration began
  count,      \* payloads in the file, from its size
  tid,        \* whose file it is
  procs,
  result      \* "running", "ok" or "failed"

walk   == << listed, seen >>
inProc == << proc, listedTids, count, tid >>
vars == << tracr, at, walk, inProc, procs, result >>

NoFiles == [t \in {} |-> << >>]

EmptyProc(q) == [pid |-> q, metadata |-> NoFile, files |-> NoFiles]

Init ==
  /\ at = "base" /\ result = "running"
  /\ listed = {} /\ seen = {}
  /\ proc = EmptyProc(0) /\ listedTids = {} /\ count = 0 /\ tid = NoFolder
  /\ procs = << >>

TypeOK ==
  /\ at \in {"base", "procs", "metadata", "threads", "read", "over"}
  /\ listed \cup seen \subseteq Pid
  /\ proc.pid \in IF at \in {"metadata", "threads", "read"} THEN seen ELSE {0}
  /\ listedTids \cup DOMAIN proc.files \subseteq Tid
  /\ tid \in IF at = "read" THEN Tid \ DOMAIN proc.files ELSE {NoFolder}
  /\ count \in Nat
  /\ \A i \in DOMAIN procs : procs[i].pid \in seen
  /\ result \in IF at = "over" THEN {"ok", "failed"} ELSE {"running"}

Goto(place) == at' = place /\ UNCHANGED << tracr, result >>

\* main() returns, and what was loaded is gone.
Fail ==
  /\ at' = "over" /\ result' = "failed"
  /\ listed' = {} /\ seen' = {}
  /\ proc' = EmptyProc(0) /\ listedTids' = {} /\ count' = 0 /\ tid' = NoFolder
  /\ procs' = << >>
  /\ UNCHANGED tracr

Exists(q) == tracr[q] # NoFolder

ThreadFolders(q) == {t \in Tid : tracr[q].bts[t] # NoFolder}

-----------------------------------------------------------------------------
(* extract_bts_metadata(), load_metadata_json() *)

ListProcs ==
  /\ at = "base"
  /\ listed' = {q \in Pid : Exists(q)}
  /\ Goto("procs")
  /\ UNCHANGED << seen, inProc, procs >>

NextProc ==
  /\ at = "procs"
  /\ \E q \in Pid \ seen :
       /\ Exists(q)
       /\ seen' = seen \cup {q}
       /\ proc' = EmptyProc(q)
  /\ Goto("metadata")
  /\ UNCHANGED << listed, listedTids, count, tid, procs >>

Unreadable(json) == json \in {NoFile, Truncated}

MetadataFails ==
  /\ at = "metadata"
  /\ Unreadable(tracr[proc.pid].metadata)
  /\ Fail

LoadMetadata ==
  /\ at = "metadata"
  /\ ~ Unreadable(tracr[proc.pid].metadata)
  /\ proc' = [proc EXCEPT !.metadata = tracr[proc.pid].metadata]
  /\ listedTids' = ThreadFolders(proc.pid)
  /\ Goto("threads")
  /\ UNCHANGED << walk, count, tid, procs >>

-----------------------------------------------------------------------------
(* load_thread_traces(), load_bts_file() *)

\* The folders of the proc that are still to be visited.
UnreadFolders == ThreadFolders(proc.pid) \ DOMAIN proc.files

NoTraces ==
  /\ at = "threads"
  /\ \E t \in UnreadFolders : tracr[proc.pid].bts[t] = NoFile
  /\ Fail

\* Faulty variant, used to test the properties.
OpenKnownFolder ==
  /\ at = "threads"
  /\ \E t \in ThreadFolders(proc.pid) :
       /\ tracr[proc.pid].bts[t] # NoFile
       /\ tid' = t
       /\ count' = Len(tracr[proc.pid].bts[t])
  /\ Goto("read")
  /\ UNCHANGED << walk, proc, listedTids, procs >>

\* The number of whole payloads; a rest is dropped.
OpenTraces ==
  /\ at = "threads"
  /\ \E t \in UnreadFolders :
       /\ tracr[proc.pid].bts[t] # NoFile
       /\ tid' = t
       /\ count' = Len(tracr[proc.pid].bts[t])
  /\ Goto("read")
  /\ UNCHANGED << walk, proc, listedTids, procs >>

\* The file has become shorter since its size was read.
ReadFails ==
  /\ at = "read"
  /\ Len(tracr[proc.pid].bts[tid]) < count
  /\ Fail

ReadTraces ==
  /\ at = "read"
  /\ Len(tracr[proc.pid].bts[tid]) >= count
  /\ LET traces == SubSeq(tracr[proc.pid].bts[tid], 1, count)
     IN  proc' = [proc EXCEPT !.files = [t \in DOMAIN @ \cup {tid} |->
                                           IF t = tid THEN traces ELSE @[t]]]
  /\ count' = 0 /\ tid' = NoFolder
  /\ Goto("threads")
  /\ UNCHANGED << walk, listedTids, procs >>

EndThreads ==
  /\ at = "threads"
  /\ listedTids \subseteq DOMAIN proc.files
  /\ procs' = Append(procs, proc)
  /\ proc' = EmptyProc(0) /\ listedTids' = {}
  /\ Goto("procs")
  /\ UNCHANGED << walk, count, tid >>

-----------------------------------------------------------------------------

NoProcs ==
  /\ at = "procs"
  /\ listed \subseteq seen /\ procs = << >>
  /\ Fail

\* Faulty variant, used to test the properties.
InFoundOrder == procs

\* std::sort by pid; no two folders have the same.
SortedByPid ==
  CHOOSE sorted \in [DOMAIN procs -> {procs[i] : i \in DOMAIN procs}] :
    \A i, j \in DOMAIN procs : i < j => sorted[i].pid < sorted[j].pid

EndProcs ==
  /\ at = "procs"
  /\ listed \subseteq seen /\ procs # << >>
  /\ procs' = SortedByPid
  /\ at' = "over" /\ result' = "ok"
  /\ UNCHANGED << tracr, walk, inProc >>

Next ==
  \/ ListProcs \/ NextProc \/ MetadataFails \/ LoadMetadata
  \/ NoTraces \/ OpenTraces \/ ReadFails \/ ReadTraces \/ EndThreads
  \/ NoProcs \/ EndProcs

-----------------------------------------------------------------------------
(* Properties. *)

\* Tasks are numbered by pid whatever the order of the directory is
\* ("deterministic proc/task numbering", extract_bts_metadata), and no proc that
\* was in the folder is left out: a folder that cannot be loaded as a whole is not
\* loaded at all.
ProcsComplete ==
  result = "ok" =>
    /\ listed \subseteq {procs[i].pid : i \in DOMAIN procs}
    /\ \A i, j \in DOMAIN procs : i < j => procs[i].pid < procs[j].pid

=============================================================================
