----------------------------- MODULE TracrCore ------------------------------
(***************************************************************************)
(* One instrumented process: INSTRUMENTATION_START / _END on the main      *)
(* thread, THREAD_INIT / marks / THREAD_FINALIZE on the others, and what   *)
(* they leave on disk.  Every access to a global or to the disk is a step  *)
(* of its own, so the threads interleave as they may in the program; a     *)
(* step of the buffer (TraceBuffer) is local to its thread.  A payload is  *)
(* reduced to its timestamp; a mark while tracing is off changes nothing   *)
(* (the switch is in TracrThread).                                         *)
(*                                                                         *)
(* What the application does around the calls is the constant Client:      *)
(*   "joined"    main calls END after every worker has finalized (the      *)
(*               examples: pthread_join before INSTRUMENTATION_END);       *)
(*   "started"   main knows only that no THREAD_INIT is under way any more *)
(*               or will follow;                                           *)
(*   "detached"  main does not wait.                                       *)
(* Workers are spawned by main between START and END in all three.         *)
(*                                                                         *)
(* Where the library gives up, the thread calls std::exit: the static      *)
(* objects are destroyed, tracrProc among them, and only then the process  *)
(* is over; the other threads run on in between.                           *)
(***************************************************************************)
EXTENDS TraceBuffer, FiniteSets

CONSTANTS
  Thread,        \* kernel threads, by thread id
  Main,          \* the one that calls START and END
  NoThread,      \* tracrThread is a nullptr
  NoProc,        \* tracrProc is a nullptr
  Destroyed,     \* tracrProc itself is gone, by the static destructors of std::exit
  NoFolder,      \* thread.<tid>/ does not exist
  NoFile,        \* traces.bts (in an existing folder) or metadata.json is absent
  Truncated,     \* metadata.json is incomplete
  Client,
  Faults,        \* what may go wrong: a subset of {"io", "kill", "misuse"}
  MaxClock,      \* bound: readings of the clock
  MaxSessions,   \* bound: START ... END cycles
  MaxLives       \* bound: THREAD_INIT ... THREAD_FINALIZE cycles of a thread
                 \* in one session

Absent == {NoFolder, NoFile}

\* A complete metadata.json; the session is not in the file, it says which START
\* the file belongs to.
Metadata == [start_time : Nat, end_time : Nat, session : Nat]

ASSUME CoreAssumption ==
  /\ Unset \notin Nat
  /\ IsFiniteSet(Thread) /\ Main \in Thread
  /\ NoThread \notin Buffer(Nat)
  /\ NoProc # Destroyed /\ {NoProc, Destroyed} \cap Nat = {}
  /\ NoFolder # NoFile /\ Absent \cap Seq(Nat) = {}
  /\ {NoFile, Truncated} \cap Metadata = {}
  /\ Client \in {"joined", "started", "detached"}
  /\ Faults \subseteq {"io", "kill", "misuse"}
  /\ MaxClock \in Nat /\ MaxSessions \in Nat /\ MaxLives \in Nat

VARIABLES
  pc,                 \* where each thread is; "out" and "run": between calls,
                      \* without and with a tracrThread
  tracrProc,          \* the start time of the TraCRProc, NoProc or Destroyed
  tracrThread,        \* per thread: its buffer, or NoThread
  num_tracr_threads,
  tracr_proc_init,
  clock,              \* last reading of NanoTimer::now()
  bts,                \* per thread: contents of thread.<tid>/traces.bts
  metadata,           \* metadata.json
  exit,               \* per thread: "no", or why it is in std::exit for good:
                      \* "failed" (an I/O error or a full buffer), "refused" or
                      \* "misused" (a call, in the order the application shall
                      \* call or out of it)
  status,             \* of the process: "running", "ended" (by std::exit),
                      \* "killed", or "undefined" (a thread used a tracrProc that
                      \* is not there)
  session,            \* number of STARTs so far
  lives,              \* THREAD_INITs of each thread in this session
  flushed             \* history: what each thread flushed in this session

globals == << tracrProc, num_tracr_threads, tracr_proc_init >>
disk    == << bts, metadata >>
history == << session, lives, flushed >>
process == << exit, status >>
vars == << pc, tracrThread, clock, process, globals, disk, history >>

\* The places of a thread inside a call, in the order the code passes them.
InStart    == {"folders", "make", "count", "ready"}
InFlush    == {"mkdir", "open", "write"}
InDump     == {"openJson", "writeJson"}
InTearDown == {"reset", "uncount", "resetProc", "notReady"}
Place == {"out", "run"} \cup InStart \cup InFlush \cup InDump \cup InTearDown

TypeOK ==
  /\ pc \in [Thread -> Place]
  /\ tracrProc \in Nat \cup {NoProc, Destroyed}
  /\ tracrThread \in [Thread -> Buffer(Nat) \cup {NoThread}]
  /\ num_tracr_threads \in Int
  /\ tracr_proc_init \in BOOLEAN
  /\ clock \in Nat
  /\ bts \in [Thread -> Seq(Nat) \cup Absent]
  /\ metadata \in Metadata \cup {NoFile, Truncated}
  /\ exit \in [Thread -> {"no", "failed", "refused", "misused"}]
  /\ status \in {"running", "ended", "killed", "undefined"}
  /\ session \in Nat
  /\ lives \in [Thread -> Nat]
  /\ flushed \in [Thread -> Seq(Nat)]

Init ==
  /\ pc = [t \in Thread |-> "out"]
  /\ tracrProc = NoProc
  /\ tracrThread = [t \in Thread |-> NoThread]
  /\ num_tracr_threads = 0
  /\ tracr_proc_init = FALSE
  /\ clock = 0
  /\ bts = [t \in Thread |-> NoFolder]
  /\ metadata = NoFile
  /\ exit = [t \in Thread |-> "no"]
  /\ status = "running"
  /\ session = 0
  /\ lives = [t \in Thread |-> 0]
  /\ flushed = [t \in Thread |-> << >>]

-----------------------------------------------------------------------------
(* Which calls the application makes, and which ones the library refuses. *)

Worker == Thread \ {Main}

Call == {"START", "THREAD_INIT", "THREAD_FINALIZE", "END"}

MainMayEnd ==
  CASE Client = "joined"   -> \A t \in Worker : pc[t] = "out" /\ exit[t] = "no"
    [] Client = "started"  -> \A t \in Worker : pc[t] \notin InStart
    [] Client = "detached" -> TRUE

MayCall(call, t) ==
  \/ call = "START" /\ t = Main /\ pc[t] = "out"
     /\ session < MaxSessions
     /\ \A u \in Worker : Client = "detached" \/ pc[u] = "out"
  \/ call = "THREAD_INIT" /\ t # Main /\ pc[t] = "out"
     /\ pc[Main] = "run" /\ lives[t] < MaxLives
  \/ call = "THREAD_FINALIZE" /\ t # Main /\ pc[t] = "run"
  \/ call = "END" /\ t = Main /\ pc[t] = "run" /\ MainMayEnd

\* Faulty variant, used to test the properties.
CountsNoThreads == FALSE

\* END refuses to run while another TraCR thread is registered.
OtherThreadsLeft == num_tracr_threads # 1

\* The call reads a tracrProc that is not there: START and END look whether it is
\* a nullptr, THREAD_FINALIZE does not.
Undefined(call, t) ==
  \/ call \in {"START", "END"} /\ tracrProc = Destroyed
  \/ call = "THREAD_FINALIZE" /\ tracrThread[t] # NoThread /\ tracrProc \notin Nat

Refused(call, t) ==
  \/ call = "START" /\ tracrProc \in Nat
  \/ call = "THREAD_INIT" /\ tracrThread[t] # NoThread
  \/ call = "THREAD_FINALIZE" /\ tracrThread[t] = NoThread
  \/ call = "END" /\ tracrProc # Destroyed
     /\ (tracrProc = NoProc \/ tracrThread[t] = NoThread \/ OtherThreadsLeft)

\* A thread moves until it enters std::exit or the process is over.
Moves(t) == status = "running" /\ exit[t] = "no"

Accepted(call, t) ==
  Moves(t) /\ MayCall(call, t) /\ ~ Refused(call, t) /\ ~ Undefined(call, t)

\* The thread calls std::exit and does not come back from it.
Exit(t, why) ==
  /\ exit' = [exit EXCEPT ![t] = why]
  /\ UNCHANGED << pc, tracrThread, clock, status, globals, disk, history >>

\* The library refuses a call that is in order for the application or, as a fault,
\* one that it shall not make here.
Refuse(call, t) ==
  /\ Moves(t) /\ Refused(call, t)
  /\ \/ MayCall(call, t)
     \/ "misuse" \in Faults /\ pc[t] \in {"out", "run"}
  /\ Exit(t, IF MayCall(call, t) THEN "refused" ELSE "misused")

\* The application makes a call it may make here, and the library refuses it.
RefuseInOrder(call, t) == MayCall(call, t) /\ Refuse(call, t)

Goto(t, place) == pc' = [pc EXCEPT ![t] = place]

At(t, place) == Moves(t) /\ pc[t] = place

\* The places where the TraCRProc is read (its folder, its metadata), and the one
\* where the pointer is reset.
ReadsProc == {"folders", "mkdir"} \cup InDump

\* A thread uses a tracrProc that is not there.
UseUndefined(t) ==
  /\ Moves(t)
  /\ \/ pc[t] \in ReadsProc /\ tracrProc \notin Nat
     \/ pc[t] = "resetProc" /\ tracrProc = Destroyed
     \/ \E call \in Call : MayCall(call, t) /\ Undefined(call, t)
  /\ status' = "undefined"
  /\ UNCHANGED << pc, tracrThread, clock, exit, globals, disk, history >>

-----------------------------------------------------------------------------
(* INSTRUMENTATION_START and INSTRUMENTATION_THREAD_INIT. *)

Start(t) ==
  /\ Accepted("START", t)
  /\ clock < MaxClock
  /\ clock' = clock + 1
  /\ tracrProc' = clock + 1
  /\ session' = session + 1
  /\ lives' = [u \in Thread |-> 0]
  /\ flushed' = [u \in Thread |-> << >>]
  /\ Goto(t, "folders")
  /\ UNCHANGED << tracrThread, num_tracr_threads, tracr_proc_init, disk, process >>

CreateFolders(t) ==
  /\ At(t, "folders") /\ tracrProc \in Nat
  /\ Goto(t, "make")
  /\ UNCHANGED << tracrThread, clock, globals, disk, process, history >>

ThreadInit(t) ==
  /\ Accepted("THREAD_INIT", t)
  /\ lives' = [lives EXCEPT ![t] = @ + 1]
  /\ Goto(t, "make")
  /\ UNCHANGED << tracrThread, clock, globals, disk, process, session, flushed >>

MakeThread(t) ==
  /\ At(t, "make")
  /\ tracrThread' = [tracrThread EXCEPT ![t] = EmptyBuffer]
  /\ Goto(t, "count")
  /\ UNCHANGED << clock, globals, disk, process, history >>

\* Faulty variant, used to test the properties.
NotCounted(t) ==
  /\ At(t, "count")
  /\ Goto(t, IF t = Main THEN "ready" ELSE "run")
  /\ UNCHANGED << num_tracr_threads, tracrProc, tracr_proc_init, tracrThread,
                  clock, disk, process, history >>

CountThread(t) ==
  /\ At(t, "count")
  /\ num_tracr_threads' = num_tracr_threads + 1
  /\ Goto(t, IF t = Main THEN "ready" ELSE "run")
  /\ UNCHANGED << tracrProc, tracr_proc_init, tracrThread, clock, disk, process,
                  history >>

ProcReady(t) ==
  /\ At(t, "ready")
  /\ tracr_proc_init' = TRUE
  /\ Goto(t, "run")
  /\ UNCHANGED << tracrProc, num_tracr_threads, tracrThread, clock, disk, process,
                  history >>

-----------------------------------------------------------------------------

\* Any of the four marker calls while tracing is on.
Mark(t) ==
  /\ At(t, "run")
  /\ clock < MaxClock
  /\ clock' = clock + 1
  /\ tracrThread' = [tracrThread EXCEPT ![t] = StoreTrace(@, clock + 1)]
  /\ exit' = IF Aborts(tracrThread[t]) THEN [exit EXCEPT ![t] = "failed"] ELSE exit
  /\ UNCHANGED << pc, status, globals, disk, history >>

-----------------------------------------------------------------------------
(* flush_traces(), shared by THREAD_FINALIZE and END. *)

IsEmpty(t) == tracrThread[t].traceIdx = 0

\* Faulty variant, used to test the properties.
EveryoneDumps(t) == "openJson"

AfterFlush(t) == IF t = Main THEN "openJson" ELSE "reset"

BeginFlush(t) ==
  /\ flushed' = [flushed EXCEPT ![t] = @ \o FlushTraces(tracrThread[t])]
  /\ Goto(t, IF IsEmpty(t) THEN AfterFlush(t) ELSE "mkdir")
  /\ UNCHANGED << tracrThread, clock, globals, disk, process, session, lives >>

ThreadFinalize(t) == Accepted("THREAD_FINALIZE", t) /\ BeginFlush(t)

End(t) == Accepted("END", t) /\ BeginFlush(t)

MakeThreadFolder(t) ==
  /\ At(t, "mkdir") /\ tracrProc \in Nat
  /\ bts' = [bts EXCEPT ![t] = IF @ = NoFolder THEN NoFile ELSE @]
  /\ Goto(t, "open")
  /\ UNCHANGED << tracrThread, clock, globals, metadata, process, history >>

\* Opening for output truncates what an earlier flush wrote.
OpenTraces(t) ==
  /\ At(t, "open")
  /\ bts' = [bts EXCEPT ![t] = << >>]
  /\ Goto(t, "write")
  /\ UNCHANGED << tracrThread, clock, globals, metadata, process, history >>

\* Faulty variant, used to test the properties.
AllButOne(t) == SubSeq(FlushTraces(tracrThread[t]), 2, Len(FlushTraces(tracrThread[t])))

\* What the file shall hold.
Contents(t) == FlushTraces(tracrThread[t])

\* The file grows while it is written: a crash may leave any prefix.
WriteTraces(t) ==
  /\ At(t, "write")
  /\ Len(bts[t]) < Len(Contents(t))
  /\ bts' = [bts EXCEPT ![t] = SubSeq(Contents(t), 1, Len(@) + 1)]
  /\ UNCHANGED << pc, tracrThread, clock, globals, metadata, process, history >>

CloseTraces(t) ==
  /\ At(t, "write")
  /\ Len(bts[t]) >= Len(Contents(t))
  /\ Goto(t, AfterFlush(t))
  /\ UNCHANGED << tracrThread, clock, globals, disk, process, history >>

-----------------------------------------------------------------------------
(* dump_JSON() and the end of the two calls. *)

OpenMetadata(t) ==
  /\ At(t, "openJson") /\ tracrProc \in Nat
  /\ metadata' = Truncated
  /\ Goto(t, "writeJson")
  /\ UNCHANGED << tracrThread, clock, globals, bts, process, history >>

\* Faulty variant, used to test the properties.
StartAsEndTime == tracrProc

EndTime == clock

\* Nobody looks whether the write succeeded.
WriteMetadata(t) ==
  /\ At(t, "writeJson") /\ tracrProc \in Nat
  /\ \/ metadata' = [start_time |-> tracrProc, end_time |-> EndTime,
                     session |-> session]
     \/ "io" \in Faults /\ metadata' = Truncated
  /\ Goto(t, "reset")
  /\ UNCHANGED << tracrThread, clock, globals, bts, process, history >>

ResetThread(t) ==
  /\ At(t, "reset")
  /\ tracrThread' = [tracrThread EXCEPT ![t] = NoThread]
  /\ Goto(t, "uncount")
  /\ UNCHANGED << clock, globals, disk, process, history >>

UncountThread(t) ==
  /\ At(t, "uncount")
  /\ num_tracr_threads' = num_tracr_threads - 1
  /\ Goto(t, IF t = Main THEN "resetProc" ELSE "out")
  /\ UNCHANGED << tracrProc, tracr_proc_init, tracrThread, clock, disk, process,
                  history >>

ResetProc(t) ==
  /\ At(t, "resetProc") /\ tracrProc # Destroyed
  /\ tracrProc' = NoProc
  /\ Goto(t, "notReady")
  /\ UNCHANGED << num_tracr_threads, tracr_proc_init, tracrThread, clock, disk,
                  process, history >>

ProcNotReady(t) ==
  /\ At(t, "notReady")
  /\ tracr_proc_init' = FALSE
  /\ Goto(t, "out")
  /\ UNCHANGED << tracrProc, num_tracr_threads, tracrThread, clock, disk, process,
                  history >>

-----------------------------------------------------------------------------
(* What may go wrong. *)

\* A mkdir, an open or a write that fails leads to std::exit; the write has left
\* some prefix (WriteTraces).
FailIO(t) ==
  /\ "io" \in Faults
  /\ Moves(t) /\ pc[t] \in {"folders", "openJson"} \cup InFlush
  /\ pc[t] \in ReadsProc => tracrProc \in Nat
  /\ Exit(t, "failed")

\* std::exit destroys tracrProc, whatever it holds, and then ends the process.
InExit == status = "running" /\ \E t \in Thread : exit[t] # "no"

DestroyProc ==
  /\ InExit /\ tracrProc # Destroyed
  /\ tracrProc' = Destroyed
  /\ UNCHANGED << num_tracr_threads, tracr_proc_init, pc, tracrThread, clock, disk,
                  process, history >>

ExitProcess ==
  /\ InExit /\ tracrProc = Destroyed
  /\ status' = "ended"
  /\ UNCHANGED << pc, tracrThread, clock, exit, globals, disk, history >>

Kill ==
  /\ "kill" \in Faults
  /\ status = "running"
  /\ status' = "killed"
  /\ UNCHANGED << pc, tracrThread, clock, exit, globals, disk, history >>

\* The process is over, or the application makes no more calls.
Finished ==
  /\ \/ status # "running"
     \/ \A t \in Thread : pc[t] = "out"
  /\ UNCHANGED vars

\* The code between two calls of the application.
Inside(t) ==
  \/ CreateFolders(t) \/ MakeThread(t) \/ CountThread(t) \/ ProcReady(t)
  \/ MakeThreadFolder(t) \/ OpenTraces(t) \/ WriteTraces(t) \/ CloseTraces(t)
  \/ OpenMetadata(t) \/ WriteMetadata(t)
  \/ ResetThread(t) \/ UncountThread(t) \/ ResetProc(t) \/ ProcNotReady(t)

Step(t) ==
  \/ Start(t) \/ ThreadInit(t) \/ Mark(t) \/ ThreadFinalize(t) \/ End(t)
  \/ (\E call \in Call : Refuse(call, t)) \/ Inside(t)
  \/ UseUndefined(t) \/ FailIO(t)

Next == (\E t \in Thread : Step(t)) \/ DestroyProc \/ ExitProcess \/ Kill \/ Finished

Spec == Init /\ [][Next]_vars

\* A thread inside a call is scheduled again; the application finalizes every
\* worker and ends the session once it may, and std::exit comes to its end.
\* Nothing obliges the application to mark, to start or to spawn, and nothing
\* obliges anything to go wrong: no call out of order, I/O error or kill is fair.
Fairness ==
  /\ \A t \in Thread :
       /\ WF_vars(Inside(t))
       /\ WF_vars(ThreadFinalize(t) \/ RefuseInOrder("THREAD_FINALIZE", t))
       /\ WF_vars(End(t) \/ RefuseInOrder("END", t))
  /\ WF_vars(DestroyProc \/ ExitProcess)

FairSpec == Spec /\ Fairness

-----------------------------------------------------------------------------
(* Properties. *)

\* The threads num_tracr_threads stands for.
Registered ==
  {t \in Thread : pc[t] \in {"ready", "run", "reset", "uncount"} \cup InFlush
                                                               \cup InDump}

\* The counter is exact between its two atomic updates, however the
\* registrations and finalizations of the threads interleave.  END's check
\* rests on it.
CountExact == num_tracr_threads = Cardinality(Registered)

\* END has passed its checks and is not over.
Ending == pc[Main] \in InFlush \cup InDump \cup InTearDown

\* Once END has found num_tracr_threads = 1, no other thread has a TraCR thread
\* and none gets one until END is over: "Only one(this) TraCR Threads allowed"
\* (tracr_core.hpp, instrumentation_end).
OnlyThisThread == Ending => \A t \in Worker : tracrThread[t] = NoThread

\* No thread uses a tracrProc that END has reset: what a thread may find gone is
\* only what std::exit destroyed under it.
NoUseAfterReset == status = "undefined" => tracrProc = Destroyed

Committed == metadata \in Metadata /\ metadata.session = session

\* A complete metadata.json is the commit record of its session: every thread
\* has finalized, and all that it flushed is in its file, also when the process
\* is killed or exits on an error at any later moment.
MetadataCommits ==
  Committed =>
    \A t \in Thread : /\ t # Main => tracrThread[t] = NoThread
                      /\ flushed[t] # << >> => bts[t] = flushed[t]

\* The anchors of metadata.json enclose every payload flushed in the session,
\* which the post-processor relies on when it subtracts start_time.
AnchorsCoverTraces ==
  Committed =>
    \A t \in Thread : flushed[t] # << >> =>
      \A i \in DOMAIN bts[t] :
        metadata.start_time <= bts[t][i] /\ bts[t][i] <= metadata.end_time

\* After metadata.json is complete nothing in the folder changes any more until
\* a new session starts.
Sealed == [][Committed /\ session' = session => UNCHANGED disk]_vars

\* A session that was started is ended: its metadata.json is complete, or was not
\* written for an I/O error that nobody noticed, and the globals are back where
\* START expects them.  Only a fault prevents it, never the library's own check of
\* a call that is in order.
SessionEnds ==
  tracrProc # NoProc ~>
    \/ /\ pc[Main] = "out"
       /\ Committed \/ ("io" \in Faults /\ metadata = Truncated)
       /\ tracrProc = NoProc /\ ~ tracr_proc_init /\ num_tracr_threads = 0
    \/ \E t \in Thread : exit[t] \in {"failed", "misused"}
    \/ status = "killed"

\* Each thread's payloads are in its file when it is done, those of every
\* THREAD_INIT ... THREAD_FINALIZE cycle (README.md, "each thread flushes its
\* buffer").
TracesKept ==
  \A t \in Worker : pc[t] = "out" /\ flushed[t] # << >> => bts[t] = flushed[t]

=============================================================================
