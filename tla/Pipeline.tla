------------------------------ MODULE Pipeline ------------------------------
(***************************************************************************)
(* An instrumented process and tracr_process on the same folder: somebody  *)
(* calls the post-processor once, at any moment, while the process runs,   *)
(* after it ended, or after it was killed.  Beside the process there may   *)
(* be the folder of another one, whole or broken.                          *)
(***************************************************************************)
EXTENDS TracrCore

CONSTANTS
  Self,         \* pid of the process
  Neighbour     \* pid of the other one

ASSUME PipelineAssumption ==
  /\ {Self, Neighbour} \subseteq Nat \ {0}     \* 0 is no pid, see Loader
  /\ Self # Neighbour
  /\ NoFolder \notin [metadata : Metadata \cup {NoFile, Truncated},
                     bts      : [Thread -> Seq(Nat) \cup Absent]]

VARIABLES
  other,                     \* what the other process left in tracr/
  at, listed, seen, proc, listedTids, count, tid, procs, result, \* see Loader
  begun                      \* history: the session that was complete when the
                             \* post-processor began, or 0

loader == << at, listed, seen, proc, listedTids, count, tid, procs, result >>

NothingLeft == [t \in Thread |-> NoFolder]

\* A process that was killed before its END, and one that was not.
OtherKilled == [metadata |-> NoFile, bts |-> [NothingLeft EXCEPT ![Main] = << >>]]

OtherEnded == [metadata |-> [start_time |-> 0, end_time |-> 0, session |-> 0],
               bts      |-> [NothingLeft EXCEPT ![Main] = << 0 >>]]

\* START makes the folder.
HasFolder == session > 1 \/ (session = 1 /\ pc[Main] # "folders")

Tracr == [q \in {Self, Neighbour} |->
            IF q = Neighbour THEN other
            ELSE IF HasFolder THEN [metadata |-> metadata, bts |-> bts]
            ELSE NoFolder]

PostProcess == INSTANCE Loader WITH tracr <- Tracr, Pid <- {Self, Neighbour},
                                    Tid <- Thread

PipelineInit ==
  /\ Init
  /\ other \in {NoFolder, OtherKilled, OtherEnded}
  /\ PostProcess!Init
  /\ begun = 0

pipelineVars == << vars, other, loader, begun >>

ProcessStep == Next /\ UNCHANGED << other, loader, begun >>

LoaderStep ==
  /\ UNCHANGED << vars, other >>
  /\ begun' = IF at = "base" /\ Committed THEN session ELSE begun
  /\ PostProcess!Next

PipelineNext == ProcessStep \/ LoaderStep

PipelineSpec == PipelineInit /\ [][PipelineNext]_pipelineVars

-----------------------------------------------------------------------------
(* Properties. *)

\* The variables of both programs have their types, and the post-processor reads
\* the file of a folder that it visits for the first time.
PipelineTypeOK == TypeOK /\ PostProcess!TypeOK

\* Tasks are numbered by pid whatever the order of the directory is, and no proc is
\* left out silently (Loader).
ProcsComplete == PostProcess!ProcsComplete

\* What the post-processor loads of a session is what the threads flushed in it,
\* all of it, whenever it runs: it reads metadata.json first and the traces
\* after it, and the process writes them in the opposite order.  Only a new
\* session in the same folder comes in between.
LoadedIsFlushed ==
  \A i \in DOMAIN procs :
    procs[i].pid = Self /\ procs[i].metadata.session = session =>
      \A t \in Thread : flushed[t] # << >> =>
        t \in DOMAIN procs[i].files /\ procs[i].files[t] = flushed[t]

\* A session that ended before the post-processor began is not refused: no thread
\* has left a folder without a file or a file that is being written.
CompleteSessionLoads ==
  result = "failed" /\ begun > 0 /\ begun = session => other = OtherKilled

=============================================================================
