--------------------------- MODULE PipelineProofs ---------------------------
(***************************************************************************)
(* Proofs about the process, for every finite set of threads, every        *)
(* capacity and policy, any number of sessions, and every combination of   *)
(* faults; and about a post-processor that runs beside it: it reads what   *)
(* is there and leaves no proc out, what it loads is what was flushed, and *)
(* a complete session is not refused.                                      *)
(***************************************************************************)
EXTENDS Pipeline, TraceBufferProofs, FiniteSetTheorems

-----------------------------------------------------------------------------
(* The control invariant: what each place of a thread says about the       *)
(* globals.  It holds for every Client.                                    *)

WorkerPlace == {"out", "make", "count", "run", "reset", "uncount"} \cup InFlush

RegisteredPlace == {"ready", "run", "reset", "uncount"} \cup InFlush \cup InDump

\* A thread is here exactly while its tracrThread exists.
ThreadPlace == {"count", "ready", "run", "reset"} \cup InFlush \cup InDump

WorkersStayOut == \A t \in Worker : pc[t] \in WorkerPlace

ThreadExists == \A t \in Thread : tracrThread[t] # NoThread <=> pc[t] \in ThreadPlace

BuffersGood ==
  \A t \in Thread : tracrThread[t] # NoThread => GoodBuffer(Nat, tracrThread[t])

FileOpen == \A t \in Thread : pc[t] = "write" => bts[t] \in Seq(Nat)

ProcExists ==
  tracrProc # Destroyed => (tracrProc # NoProc <=> pc[Main] \notin {"out", "notReady"})

Control ==
  /\ TypeOK
  /\ WorkersStayOut
  /\ ThreadExists
  /\ BuffersGood
  /\ FileOpen
  /\ ProcExists
  /\ CountExact

\* A thread enters std::exit, or uses a tracrProc that is not there.
Leaves(t) == (\E call \in Call : Refuse(call, t)) \/ UseUndefined(t)
             \/ FailIO(t)

\* The process comes to its end.
Ends == DestroyProc \/ ExitProcess \/ Kill

Ended == {"running", "ended", "killed", "undefined"}

LEMMA LeavesOnly ==
  ASSUME NEW t \in Thread, Leaves(t)
  PROVE  UNCHANGED << pc, tracrThread, clock, globals, disk, history >>
BY DEF Leaves, Refuse, UseUndefined, FailIO, Exit

LEMMA LeavesTyped ==
  ASSUME TypeOK, NEW t \in Thread, Leaves(t)
  PROVE  /\ exit' \in [Thread -> {"no", "failed", "refused", "misused"}]
         /\ status' \in Ended
BY DEF TypeOK, Leaves, Refuse, UseUndefined, FailIO, Exit, Ended

LEMMA EndsOnly ==
  ASSUME Ends
  PROVE  /\ UNCHANGED << pc, tracrThread, clock, num_tracr_threads, tracr_proc_init,
                         disk, exit, history >>
         /\ tracrProc' \in {tracrProc, Destroyed}
         /\ status = "running" /\ status' \in {"running", "ended", "killed"}
BY DEF Ends, DestroyProc, ExitProcess, Kill, InExit, globals, process

\* What a thread does beside entering its end.
LEMMA StepKinds ==
  ASSUME NEW t \in Thread, Step(t)
  PROVE  \/ Start(t) \/ ThreadInit(t) \/ Mark(t) \/ ThreadFinalize(t) \/ End(t)
         \/ Inside(t) \/ Leaves(t)
BY DEF Step, Leaves

LEMMA NextKinds ==
  ASSUME [Next]_vars
  PROVE  (\E t \in Thread : Step(t)) \/ Ends \/ UNCHANGED vars
BY DEF Next, Finished, Ends

LEMMA MainIsThread == Main \in Thread /\ Worker \subseteq Thread /\ Main \notin Worker
                      /\ IsFiniteSet(Thread)
  BY CoreAssumption DEF Worker

LEMMA RegisteredFinite ==
  IsFiniteSet(Registered) /\ Cardinality(Registered) \in Nat
<1>1. Registered \in SUBSET Thread
  BY DEF Registered
<1>2. IsFiniteSet(Registered)
  BY <1>1, MainIsThread, FS_Subset
<1>  QED  BY <1>2, FS_CardinalityType

\* What one thread's move does to the number of registered threads.
LEMMA MoveCounts ==
  ASSUME pc \in [Thread -> Place], NEW t \in Thread, NEW p, Goto(t, p)
  PROVE  Cardinality(Registered') =
           Cardinality(Registered)
           + (IF p \in RegisteredPlace THEN 1 ELSE 0)
           - (IF pc[t] \in RegisteredPlace THEN 1 ELSE 0)
<1>  DEFINE S == Registered
            T == Registered'
<1>1. /\ S = {u \in Thread : pc[u] \in RegisteredPlace}
      /\ T = {u \in Thread : pc'[u] \in RegisteredPlace}
  BY DEF Registered, RegisteredPlace
<1>2. pc' = [pc EXCEPT ![t] = p]
  BY DEF Goto
<1>3. Cardinality(S) \in Nat /\ IsFiniteSet(S)
  BY RegisteredFinite
<1>  HIDE DEF S, T
<1>4. CASE p \in RegisteredPlace /\ pc[t] \notin RegisteredPlace
  <2>1. T = S \cup {t} /\ t \notin S
    BY <1>1, <1>2, <1>4
  <2>2. Cardinality(T) = Cardinality(S) + 1
    BY <1>3, <2>1, FS_AddElement
  <2>  QED  BY <1>3, <1>4, <2>2 DEF S, T
<1>5. CASE p \notin RegisteredPlace /\ pc[t] \in RegisteredPlace
  <2>1. T = S \ {t} /\ t \in S
    BY <1>1, <1>2, <1>5
  <2>2. Cardinality(T) = Cardinality(S) - 1
    BY <1>3, <2>1, FS_RemoveElement
  <2>  QED  BY <1>3, <1>5, <2>2 DEF S, T
<1>6. CASE p \in RegisteredPlace <=> pc[t] \in RegisteredPlace
  <2>1. T = S
    BY <1>1, <1>2, <1>6
  <2>2. Cardinality(T) = Cardinality(S)
    BY <2>1
  <2>  QED  BY <1>3, <1>6, <2>2 DEF S, T
<1>  QED  BY <1>4, <1>5, <1>6

LEMMA InitControl == Init => Control
<1>  SUFFICES ASSUME Init PROVE Control
  OBVIOUS
<1>1. TypeOK
  <2>1. << >> \in Seq(Nat)
    BY EmptySeq
  <2>2. "out" \in Place
    BY DEF Place
  <2>3. /\ pc \in [Thread -> Place]
        /\ tracrThread \in [Thread -> Buffer(Nat) \cup {NoThread}]
        /\ lives \in [Thread -> Nat]
    BY <2>2 DEF Init
  <2>4. bts \in [Thread -> Seq(Nat) \cup Absent]
    BY DEF Init, Absent
  <2>5. flushed \in [Thread -> Seq(Nat)]
    BY <2>1 DEF Init
  <2>6. /\ tracrProc \in Nat \cup {NoProc, Destroyed}
        /\ num_tracr_threads \in Int
        /\ clock \in Nat /\ session \in Nat
    BY DEF Init
  <2>8. tracr_proc_init \in BOOLEAN
    BY Zenon DEF Init
  <2>7. /\ metadata \in Metadata \cup {NoFile, Truncated}
        /\ exit \in [Thread -> {"no", "failed", "refused", "misused"}]
        /\ status \in {"running", "ended", "killed", "undefined"}
    BY DEF Init
  <2>  QED  BY <2>3, <2>4, <2>5, <2>6, <2>7, <2>8 DEF TypeOK
<1>2. WorkersStayOut /\ ThreadExists /\ BuffersGood /\ FileOpen /\ ProcExists
  BY MainIsThread DEF Init, WorkersStayOut, ThreadExists, BuffersGood, FileOpen,
    ProcExists, WorkerPlace, ThreadPlace, InFlush, InDump, Worker
<1>3. CountExact
  <2>1. Registered = {}
    BY DEF Init, Registered, InFlush, InDump
  <2>  QED  BY <2>1, FS_EmptySet DEF Init, CountExact
<1>  QED  BY <1>1, <1>2, <1>3 DEF Control

LEMMA MoveKeepsCount ==
  ASSUME TypeOK, CountExact, NEW t \in Thread, NEW p, Goto(t, p),
         \/ /\ num_tracr_threads' = num_tracr_threads
            /\ p \in RegisteredPlace <=> pc[t] \in RegisteredPlace
         \/ /\ num_tracr_threads' = num_tracr_threads + 1
            /\ p \in RegisteredPlace /\ pc[t] \notin RegisteredPlace
         \/ /\ num_tracr_threads' = num_tracr_threads - 1
            /\ p \notin RegisteredPlace /\ pc[t] \in RegisteredPlace
  PROVE  CountExact'
<1>1. Cardinality(Registered') =
           Cardinality(Registered)
           + (IF p \in RegisteredPlace THEN 1 ELSE 0)
           - (IF pc[t] \in RegisteredPlace THEN 1 ELSE 0)
  BY MoveCounts DEF TypeOK
<1>2. num_tracr_threads = Cardinality(Registered) /\ num_tracr_threads \in Int
  BY DEF CountExact, TypeOK
<1>  DEFINE n == Cardinality(Registered)
            m == Cardinality(Registered')
<1>3. num_tracr_threads' = m
  <2>1. m = n + (IF p \in RegisteredPlace THEN 1 ELSE 0)
              - (IF pc[t] \in RegisteredPlace THEN 1 ELSE 0)
    BY <1>1
  <2>2. num_tracr_threads = n /\ n \in Int
    BY <1>2
  <2>  HIDE DEF n, m
  <2>  QED  BY <2>1, <2>2
<1>  QED  BY <1>3 DEF CountExact

LEMMA StepControl ==
  ASSUME Control, NEW t \in Thread, Step(t)
  PROVE  Control'
<1>1. /\ TypeOK /\ WorkersStayOut /\ ThreadExists /\ BuffersGood
      /\ FileOpen /\ ProcExists /\ CountExact
  BY DEF Control
<1>2. CASE Start(t)
  <2>  USE DEF Accepted, MayCall
  <2>4. t = Main /\ pc[t] = "out"
    BY <1>2 DEF Start
  <2>5. Goto(t, "folders") /\ num_tracr_threads' = num_tracr_threads
    BY <1>2 DEF Start
  <2>6. clock + 1 \in Nat
    BY <1>1 DEF TypeOK
  <2>1. TypeOK'
    BY <1>1, <1>2, <2>4, <2>5, <2>6, MainIsThread DEF Start, Goto, At, globals, process, disk,
       history, TypeOK, Place, InStart, InFlush, InDump, InTearDown
  <2>2. WorkersStayOut' /\ ThreadExists' /\ BuffersGood' /\ FileOpen' /\ ProcExists'
    <3>1. tracrProc' = clock + 1 /\ tracrProc' # NoProc
      BY <1>2, <2>6, CoreAssumption DEF Start
    <3>  QED
      BY <1>1, <1>2, <2>4, <3>1, MainIsThread DEF Start, Goto, disk, TypeOK,
         WorkersStayOut, ThreadExists, BuffersGood, FileOpen, ProcExists,
         WorkerPlace, ThreadPlace, Worker, Place, InStart, InFlush, InDump
  <2>3. CountExact'
    BY <1>1, <1>2, <2>4, <2>5, <2>6, MoveKeepsCount DEF Start, At, globals, RegisteredPlace,
       Place, InStart, InFlush, InDump, InTearDown
  <2>  QED  BY <2>1, <2>2, <2>3 DEF Control
<1>3. CASE ThreadInit(t)
  <2>  USE DEF Accepted, MayCall
  <2>4. t # Main /\ pc[t] = "out"
    BY <1>3 DEF ThreadInit
  <2>5. Goto(t, "make") /\ num_tracr_threads' = num_tracr_threads
    BY <1>3 DEF ThreadInit, globals
  <2>1. TypeOK'
    BY <1>1, <1>3, <2>4, <2>5, MainIsThread DEF ThreadInit, Goto, At, globals, process, disk,
       history, TypeOK, Place, InStart, InFlush, InDump, InTearDown
  <2>2. WorkersStayOut' /\ ThreadExists' /\ BuffersGood' /\ FileOpen' /\ ProcExists'
    BY <1>1, <1>3, <2>4, <2>5, MainIsThread DEF ThreadInit, Goto, At, globals, process, disk,
       history, TypeOK, WorkersStayOut, ThreadExists, BuffersGood, FileOpen,
       ProcExists, WorkerPlace, ThreadPlace, Worker, Place, InStart, InFlush, InDump, InTearDown
  <2>3. CountExact'
    BY <1>1, <1>3, <2>4, <2>5, MoveKeepsCount DEF ThreadInit, At, globals, RegisteredPlace,
       Place, InStart, InFlush, InDump, InTearDown
  <2>  QED  BY <2>1, <2>2, <2>3 DEF Control
<1>4. CASE CreateFolders(t)
  <2>1. TypeOK'
    BY <1>1, <1>4, MainIsThread DEF CreateFolders, Goto, At, globals, process, disk,
       history, TypeOK, Place, InStart, InFlush, InDump, InTearDown
  <2>2. WorkersStayOut' /\ ThreadExists' /\ BuffersGood' /\ FileOpen' /\ ProcExists'
    BY <1>1, <1>4, MainIsThread DEF CreateFolders, Goto, At, globals, process, disk,
       history, TypeOK, WorkersStayOut, ThreadExists, BuffersGood, FileOpen,
       ProcExists, WorkerPlace, ThreadPlace, Worker, Place, InStart, InFlush, InDump, InTearDown
  <2>3. CountExact'
    BY <1>1, <1>4, MoveKeepsCount DEF CreateFolders, At, globals, RegisteredPlace,
       Place, InStart, InFlush, InDump, InTearDown
  <2>  QED  BY <2>1, <2>2, <2>3 DEF Control
<1>5. CASE MakeThread(t)
  <2>4. EmptyBuffer \in Buffer(Nat) /\ GoodBuffer(Nat, EmptyBuffer)
        /\ EmptyBuffer # NoThread
    BY FreshBuffer, CoreAssumption DEF GoodBuffer
  <2>1. TypeOK'
    BY <1>1, <1>5, <2>4, MainIsThread DEF MakeThread, Goto, At, globals, process, disk,
       history, TypeOK, Place, InStart, InFlush, InDump, InTearDown
  <2>2. WorkersStayOut' /\ ThreadExists' /\ BuffersGood' /\ FileOpen' /\ ProcExists'
    BY <1>1, <1>5, <2>4, MainIsThread DEF MakeThread, Goto, At, globals, process, disk,
       history, TypeOK, WorkersStayOut, ThreadExists, BuffersGood, FileOpen,
       ProcExists, WorkerPlace, ThreadPlace, Worker, Place, InStart, InFlush, InDump, InTearDown
  <2>3. CountExact'
    BY <1>1, <1>5, <2>4, MoveKeepsCount DEF MakeThread, At, globals, RegisteredPlace,
       Place, InStart, InFlush, InDump, InTearDown
  <2>  QED  BY <2>1, <2>2, <2>3 DEF Control
<1>6. CASE CountThread(t)
  <2>1. TypeOK'
    BY <1>1, <1>6, MainIsThread DEF CountThread, Goto, At, globals, process, disk,
       history, TypeOK, Place, InStart, InFlush, InDump, InTearDown
  <2>2. WorkersStayOut' /\ ThreadExists' /\ BuffersGood' /\ FileOpen' /\ ProcExists'
    BY <1>1, <1>6, MainIsThread DEF CountThread, Goto, At, globals, process, disk,
       history, TypeOK, WorkersStayOut, ThreadExists, BuffersGood, FileOpen,
       ProcExists, WorkerPlace, ThreadPlace, Worker, Place, InStart, InFlush, InDump, InTearDown
  <2>3. CountExact'
    BY <1>1, <1>6, MoveKeepsCount DEF CountThread, At, globals, RegisteredPlace,
       Place, InStart, InFlush, InDump, InTearDown
  <2>  QED  BY <2>1, <2>2, <2>3 DEF Control
<1>7. CASE ProcReady(t)
  <2>1. TypeOK'
    BY <1>1, <1>7, MainIsThread DEF ProcReady, Goto, At, globals, process, disk,
       history, TypeOK, Place, InStart, InFlush, InDump, InTearDown
  <2>2. WorkersStayOut' /\ ThreadExists' /\ BuffersGood' /\ FileOpen' /\ ProcExists'
    BY <1>1, <1>7, MainIsThread DEF ProcReady, Goto, At, globals, process, disk,
       history, TypeOK, WorkersStayOut, ThreadExists, BuffersGood, FileOpen,
       ProcExists, WorkerPlace, ThreadPlace, Worker, Place, InStart, InFlush, InDump, InTearDown
  <2>3. CountExact'
    BY <1>1, <1>7, MoveKeepsCount DEF ProcReady, At, globals, RegisteredPlace,
       Place, InStart, InFlush, InDump, InTearDown
  <2>  QED  BY <2>1, <2>2, <2>3 DEF Control
<1>8. CASE MakeThreadFolder(t)
  <2>4. NoFile \in Absent
    BY DEF Absent
  <2>1. TypeOK'
    BY <1>1, <1>8, <2>4, MainIsThread DEF MakeThreadFolder, Goto, At, globals, process, disk,
       history, TypeOK, Place, InStart, InFlush, InDump, InTearDown
  <2>2. WorkersStayOut' /\ ThreadExists' /\ BuffersGood' /\ FileOpen' /\ ProcExists'
    BY <1>1, <1>8, <2>4, MainIsThread DEF MakeThreadFolder, Goto, At, globals, process, disk,
       history, TypeOK, WorkersStayOut, ThreadExists, BuffersGood, FileOpen,
       ProcExists, WorkerPlace, ThreadPlace, Worker, Place, InStart, InFlush, InDump, InTearDown
  <2>3. CountExact'
    BY <1>1, <1>8, <2>4, MoveKeepsCount DEF MakeThreadFolder, At, globals, RegisteredPlace,
       Place, InStart, InFlush, InDump, InTearDown
  <2>  QED  BY <2>1, <2>2, <2>3 DEF Control
<1>9. CASE OpenTraces(t)
  <2>1. TypeOK'
    BY <1>1, <1>9, MainIsThread DEF OpenTraces, Goto, At, globals, process, disk,
       history, TypeOK, Place, InStart, InFlush, InDump, InTearDown
  <2>2. WorkersStayOut' /\ ThreadExists' /\ BuffersGood' /\ FileOpen' /\ ProcExists'
    BY <1>1, <1>9, MainIsThread DEF OpenTraces, Goto, At, globals, process, disk,
       history, TypeOK, WorkersStayOut, ThreadExists, BuffersGood, FileOpen,
       ProcExists, WorkerPlace, ThreadPlace, Worker, Place, InStart, InFlush, InDump, InTearDown
  <2>3. CountExact'
    BY <1>1, <1>9, MoveKeepsCount DEF OpenTraces, At, globals, RegisteredPlace,
       Place, InStart, InFlush, InDump, InTearDown
  <2>  QED  BY <2>1, <2>2, <2>3 DEF Control
<1>10. CASE WriteTraces(t)
  <2>4. pc[t] = "write" /\ tracrThread[t] # NoThread /\ bts[t] \in Seq(Nat)
    BY <1>1, <1>10 DEF WriteTraces, At, ThreadExists, ThreadPlace, InFlush, FileOpen
  <2>  DEFINE s == SubSeq(Contents(t), 1, Len(bts[t]) + 1)
  <2>5. s \in Seq(Nat)
    <3>1. Contents(t) \in Seq(Nat) /\ Len(Contents(t)) \in Nat
      BY <1>1, <2>4, FlushShape, LenProperties DEF BuffersGood, Contents
    <3>2. Len(bts[t]) + 1 \in 1 .. Len(Contents(t))
      BY <1>10, <2>4, <3>1, LenProperties DEF WriteTraces
    <3>3. \A i \in 1 .. Len(bts[t]) + 1 : Contents(t)[i] \in Nat
      BY <3>1, <3>2, ElementOfSeq
    <3>  QED  BY <3>2, <3>3, SubSeqProperties
  <2>6. bts' = [bts EXCEPT ![t] = s] /\ UNCHANGED << pc, tracrThread, globals >>
    BY <1>10 DEF WriteTraces
  <2>  HIDE DEF s
  <2>1. TypeOK'
    BY <1>1, <1>10, <2>5, <2>6 DEF WriteTraces, globals, process, history, TypeOK
  <2>2. WorkersStayOut' /\ ThreadExists' /\ BuffersGood' /\ FileOpen' /\ ProcExists'
    BY <1>1, <2>5, <2>6 DEF globals, TypeOK, WorkersStayOut, ThreadExists,
       BuffersGood, FileOpen, ProcExists
  <2>3. CountExact'
    BY <1>1, <2>6 DEF globals, CountExact, Registered
  <2>  QED  BY <2>1, <2>2, <2>3 DEF Control
<1>11. CASE CloseTraces(t)
  <2>4. pc[t] = "write" /\ Goto(t, AfterFlush(t)) /\ num_tracr_threads' = num_tracr_threads
    BY <1>11 DEF CloseTraces, At, globals
  <2>1. TypeOK'
    BY <1>1, <1>11, <2>4, MainIsThread DEF CloseTraces, AfterFlush, Goto, At, globals, process, disk,
       history, TypeOK, Place, InStart, InFlush, InDump, InTearDown
  <2>2. WorkersStayOut' /\ ThreadExists' /\ BuffersGood' /\ FileOpen' /\ ProcExists'
    BY <1>1, <1>11, <2>4, MainIsThread DEF CloseTraces, AfterFlush, Goto, At, globals, process, disk,
       history, TypeOK, WorkersStayOut, ThreadExists, BuffersGood, FileOpen,
       ProcExists, WorkerPlace, ThreadPlace, Worker, Place, InStart, InFlush, InDump, InTearDown
  <2>3. CountExact'
    BY <1>1, <1>11, <2>4, MoveKeepsCount DEF CloseTraces, AfterFlush, At, globals, RegisteredPlace,
       Place, InStart, InFlush, InDump, InTearDown
  <2>  QED  BY <2>1, <2>2, <2>3 DEF Control
<1>12. CASE OpenMetadata(t)
  <2>1. TypeOK'
    BY <1>1, <1>12, MainIsThread DEF OpenMetadata, Goto, At, globals, process, disk,
       history, TypeOK, Place, InStart, InFlush, InDump, InTearDown
  <2>2. WorkersStayOut' /\ ThreadExists' /\ BuffersGood' /\ FileOpen' /\ ProcExists'
    BY <1>1, <1>12, MainIsThread DEF OpenMetadata, Goto, At, globals, process, disk,
       history, TypeOK, WorkersStayOut, ThreadExists, BuffersGood, FileOpen,
       ProcExists, WorkerPlace, ThreadPlace, Worker, Place, InStart, InFlush, InDump, InTearDown
  <2>3. CountExact'
    BY <1>1, <1>12, MoveKeepsCount DEF OpenMetadata, At, globals, RegisteredPlace,
       Place, InStart, InFlush, InDump, InTearDown
  <2>  QED  BY <2>1, <2>2, <2>3 DEF Control
<1>13. CASE WriteMetadata(t)
  <2>4. t = Main /\ pc[t] = "writeJson"
    BY <1>1, <1>13 DEF WriteMetadata, At, WorkersStayOut, WorkerPlace, Worker, InFlush
  <2>5. tracrProc \in Nat /\ clock \in Nat /\ session \in Nat
    BY <1>1, <1>13 DEF WriteMetadata, TypeOK
  <2>6. metadata' \in Metadata \cup {NoFile, Truncated}
    BY <1>13, <2>5 DEF WriteMetadata, Metadata, EndTime
  <2>1. TypeOK'
    BY <1>1, <1>13, <2>4, <2>6, MainIsThread DEF WriteMetadata, Goto, At, globals, process, disk,
       history, TypeOK, Place, InStart, InFlush, InDump, InTearDown
  <2>2. WorkersStayOut' /\ ThreadExists' /\ BuffersGood' /\ FileOpen' /\ ProcExists'
    BY <1>1, <1>13, <2>4, <2>6, MainIsThread DEF WriteMetadata, Goto, At, globals, process, disk,
       history, TypeOK, WorkersStayOut, ThreadExists, BuffersGood, FileOpen,
       ProcExists, WorkerPlace, ThreadPlace, Worker, Place, InStart, InFlush, InDump, InTearDown
  <2>3. CountExact'
    BY <1>1, <1>13, <2>4, <2>6, MoveKeepsCount DEF WriteMetadata, At, globals, RegisteredPlace,
       Place, InStart, InFlush, InDump, InTearDown
  <2>  QED  BY <2>1, <2>2, <2>3 DEF Control
<1>14. CASE ResetThread(t)
  <2>1. TypeOK'
    BY <1>1, <1>14, MainIsThread DEF ResetThread, Goto, At, globals, process, disk,
       history, TypeOK, Place, InStart, InFlush, InDump, InTearDown
  <2>2. WorkersStayOut' /\ ThreadExists' /\ BuffersGood' /\ FileOpen' /\ ProcExists'
    BY <1>1, <1>14, MainIsThread DEF ResetThread, Goto, At, globals, process, disk,
       history, TypeOK, WorkersStayOut, ThreadExists, BuffersGood, FileOpen,
       ProcExists, WorkerPlace, ThreadPlace, Worker, Place, InStart, InFlush, InDump, InTearDown
  <2>3. CountExact'
    BY <1>1, <1>14, MoveKeepsCount DEF ResetThread, At, globals, RegisteredPlace,
       Place, InStart, InFlush, InDump, InTearDown
  <2>  QED  BY <2>1, <2>2, <2>3 DEF Control
<1>15. CASE UncountThread(t)
  <2>1. TypeOK'
    BY <1>1, <1>15, MainIsThread DEF UncountThread, Goto, At, globals, process, disk,
       history, TypeOK, Place, InStart, InFlush, InDump, InTearDown
  <2>2. WorkersStayOut' /\ ThreadExists' /\ BuffersGood' /\ FileOpen' /\ ProcExists'
    BY <1>1, <1>15, MainIsThread DEF UncountThread, Goto, At, globals, process, disk,
       history, TypeOK, WorkersStayOut, ThreadExists, BuffersGood, FileOpen,
       ProcExists, WorkerPlace, ThreadPlace, Worker, Place, InStart, InFlush, InDump, InTearDown
  <2>3. CountExact'
    BY <1>1, <1>15, MoveKeepsCount DEF UncountThread, At, globals, RegisteredPlace,
       Place, InStart, InFlush, InDump, InTearDown
  <2>  QED  BY <2>1, <2>2, <2>3 DEF Control
<1>16. CASE ResetProc(t)
  <2>1. TypeOK'
    BY <1>1, <1>16, MainIsThread DEF ResetProc, Goto, At, globals, process, disk,
       history, TypeOK, Place, InStart, InFlush, InDump, InTearDown
  <2>2. WorkersStayOut' /\ ThreadExists' /\ BuffersGood' /\ FileOpen' /\ ProcExists'
    BY <1>1, <1>16, MainIsThread DEF ResetProc, Goto, At, globals, process, disk,
       history, TypeOK, WorkersStayOut, ThreadExists, BuffersGood, FileOpen,
       ProcExists, WorkerPlace, ThreadPlace, Worker, Place, InStart, InFlush, InDump, InTearDown
  <2>3. CountExact'
    BY <1>1, <1>16, MoveKeepsCount DEF ResetProc, At, globals, RegisteredPlace,
       Place, InStart, InFlush, InDump, InTearDown
  <2>  QED  BY <2>1, <2>2, <2>3 DEF Control
<1>17. CASE ProcNotReady(t)
  <2>1. TypeOK'
    BY <1>1, <1>17, MainIsThread DEF ProcNotReady, Goto, At, globals, process, disk,
       history, TypeOK, Place, InStart, InFlush, InDump, InTearDown
  <2>2. WorkersStayOut' /\ ThreadExists' /\ BuffersGood' /\ FileOpen' /\ ProcExists'
    BY <1>1, <1>17, MainIsThread DEF ProcNotReady, Goto, At, globals, process, disk,
       history, TypeOK, WorkersStayOut, ThreadExists, BuffersGood, FileOpen,
       ProcExists, WorkerPlace, ThreadPlace, Worker, Place, InStart, InFlush, InDump, InTearDown
  <2>3. CountExact'
    BY <1>1, <1>17, MoveKeepsCount DEF ProcNotReady, At, globals, RegisteredPlace,
       Place, InStart, InFlush, InDump, InTearDown
  <2>  QED  BY <2>1, <2>2, <2>3 DEF Control
<1>18. CASE Mark(t)
  <2>1. tracrThread[t] \in Buffer(Nat) /\ tracrThread[t] # NoThread
        /\ GoodBuffer(Nat, tracrThread[t])
    BY <1>1, <1>18 DEF Mark, At, ThreadExists, ThreadPlace, BuffersGood, GoodBuffer
  <2>  DEFINE b == StoreTrace(tracrThread[t], clock + 1)
  <2>2. clock + 1 \in Nat
    BY <1>1 DEF TypeOK
  <2>3. GoodBuffer(Nat, b) /\ b \in Buffer(Nat) /\ b # NoThread
    BY <2>1, <2>2, StoreTraceGood, CoreAssumption DEF GoodBuffer
  <2>  HIDE DEF b
  <2>4. /\ tracrThread' = [tracrThread EXCEPT ![t] = b]
        /\ clock' = clock + 1
        /\ exit' \in [Thread -> {"no", "failed", "refused", "misused"}]
        /\ UNCHANGED << pc, status, globals, disk, history >>
    BY <1>1, <1>18 DEF Mark, TypeOK, b
  <2>5. TypeOK'
    BY <1>1, <2>2, <2>3, <2>4 DEF TypeOK, globals, disk, history
  <2>6. WorkersStayOut' /\ ThreadExists' /\ BuffersGood' /\ FileOpen' /\ ProcExists'
    BY <1>1, <2>1, <2>3, <2>4 DEF globals, disk, TypeOK, WorkersStayOut,
       ThreadExists, BuffersGood, FileOpen, ProcExists
  <2>7. CountExact'
    BY <1>1, <2>4 DEF globals, CountExact, Registered
  <2>  QED  BY <2>5, <2>6, <2>7 DEF Control
<1>19. CASE ThreadFinalize(t) \/ End(t)
  <2>1. BeginFlush(t) /\ pc[t] = "run"
    BY <1>19 DEF ThreadFinalize, End, Accepted, MayCall
  <2>2. tracrThread[t] # NoThread /\ FlushTraces(tracrThread[t]) \in Seq(Nat)
    BY <1>1, <2>1, FlushShape DEF ThreadExists, ThreadPlace, BuffersGood
  <2>  DEFINE p == IF IsEmpty(t) THEN AfterFlush(t) ELSE "mkdir"
  <2>3. Goto(t, p) /\ num_tracr_threads' = num_tracr_threads
    BY <2>1 DEF BeginFlush, globals
  <2>4. p \in {"openJson", "reset", "mkdir"} /\ (t # Main => p \in {"reset", "mkdir"})
    BY DEF AfterFlush
  <2>  HIDE DEF p
  <2>5. flushed' \in [Thread -> Seq(Nat)]
    <3>1. flushed[t] \o FlushTraces(tracrThread[t]) \in Seq(Nat)
      BY <1>1, <2>2, ConcatProperties DEF TypeOK
    <3>  QED  BY <1>1, <2>1, <3>1 DEF BeginFlush, TypeOK
  <2>6. UNCHANGED << tracrThread, clock, globals, disk, process, session, lives >>
    BY <2>1 DEF BeginFlush
  <2>7. TypeOK'
    BY <1>1, <2>3, <2>4, <2>5, <2>6
       DEF TypeOK, Goto, globals, disk, process, Place, InFlush, InDump, InTearDown
  <2>8. WorkersStayOut' /\ ThreadExists' /\ BuffersGood' /\ FileOpen' /\ ProcExists'
    BY <1>1, <2>1, <2>3, <2>4, <2>6, MainIsThread DEF Goto, globals, disk, TypeOK,
       WorkersStayOut, ThreadExists, BuffersGood, FileOpen, ProcExists,
       WorkerPlace, ThreadPlace, Worker, InFlush, InDump
  <2>9. CountExact'
    BY <1>1, <2>1, <2>3, <2>4, MoveKeepsCount DEF RegisteredPlace, InFlush, InDump
  <2>  QED  BY <2>7, <2>8, <2>9 DEF Control
<1>20. CASE Leaves(t)
  <2>1. /\ exit' \in [Thread -> {"no", "failed", "refused", "misused"}]
        /\ status' \in Ended
        /\ UNCHANGED << pc, tracrThread, clock, globals, disk, history >>
    BY <1>1, <1>20, LeavesOnly, LeavesTyped
  <2>2. TypeOK'
    BY <1>1, <2>1 DEF TypeOK, Ended, globals, disk, history
  <2>  QED
    BY <1>1, <2>1, <2>2 DEF Control, WorkersStayOut, ThreadExists, BuffersGood,
       FileOpen, ProcExists, CountExact, Registered, globals, disk, history
<1>  QED
  BY StepKinds, <1>2, <1>3, <1>4, <1>5, <1>6, <1>7, <1>8, <1>9, <1>10, <1>11, <1>12, <1>13,
     <1>14, <1>15, <1>16, <1>17, <1>18, <1>19, <1>20 DEF Inside

LEMMA NextControl == Control /\ [Next]_vars => Control'
<1>  SUFFICES ASSUME Control, [Next]_vars PROVE Control'
  OBVIOUS
<1>1. CASE \E t \in Thread : Step(t)
  BY <1>1, StepControl
<1>2. CASE Ends
  <2>1. /\ UNCHANGED << pc, tracrThread, clock, num_tracr_threads, tracr_proc_init,
                        disk, exit, history >>
        /\ tracrProc' \in {tracrProc, Destroyed}
        /\ status' \in {"running", "ended", "killed"}
    BY <1>2, EndsOnly
  <2>2. TypeOK'
    BY <2>1 DEF Control, TypeOK, disk, history
  <2>  QED
    BY <2>1, <2>2 DEF Control, WorkersStayOut, ThreadExists, BuffersGood,
       FileOpen, ProcExists, CountExact, Registered, disk
<1>3. CASE UNCHANGED vars
  BY <1>3 DEF Control, TypeOK, WorkersStayOut, ThreadExists, BuffersGood,
     FileOpen, ProcExists, CountExact, Registered, vars, globals, process, disk, history
<1>  QED  BY <1>1, <1>2, <1>3, NextKinds

LEMMA ControlInvariant == Spec => []Control
  BY InitControl, NextControl, PTL DEF Spec

\* The variables keep their types; in particular nothing but complete readings
\* of the clock reaches a traces.bts.
THEOREM TypeCorrect == Spec => []TypeOK
<1>1. Control => TypeOK
  BY DEF Control
<1>  QED  BY <1>1, ControlInvariant, PTL

\* num_tracr_threads counts the registered threads, for any number of threads
\* and whatever the application does.
THEOREM CountIsExact == Spec => []CountExact
<1>1. Control => CountExact
  BY DEF Control
<1>  QED  BY <1>1, ControlInvariant, PTL

-----------------------------------------------------------------------------
(* Applications that wait: nobody but main is inside TraCR when main is not *)
(* at rest between START and END.                                           *)

WorkersOut == pc[Main] # "run" => \A t \in Worker : pc[t] = "out"

Waiting == WorkersOut /\ NoUseAfterReset

\* The check in END: with the count exact, "one thread" means "only main".
LEMMA EndMeansAlone ==
  ASSUME Control, Client # "detached", End(Main)
  PROVE  \A t \in Worker : pc[t] = "out"
<1>1. num_tracr_threads = 1 /\ pc[Main] = "run" /\ MainMayEnd
  BY DEF End, Accepted, Refused, Undefined, MayCall, OtherThreadsLeft
<1>2. CASE Client = "joined"
  BY <1>1, <1>2 DEF MainMayEnd
<1>3. CASE Client # "joined"
  <2>1. \A t \in Worker : pc[t] \notin InStart
    BY <1>1, <1>3, CoreAssumption DEF MainMayEnd
  <2>2. PICK x : Registered = {x}
    <3>1. Cardinality(Registered) = 1
      BY <1>1 DEF Control, CountExact
    <3>  QED  BY <3>1, RegisteredFinite, FS_Singleton
  <2>3. Main \in Registered
    BY <1>1, MainIsThread DEF Registered
  <2>4. \A t \in Worker : t \notin Registered
    BY <2>2, <2>3, MainIsThread
  <2>  QED
    BY <2>1, <2>4, MainIsThread DEF Control, WorkersStayOut, WorkerPlace,
       Registered, InStart, InFlush
<1>  QED  BY <1>2, <1>3

\* While the application waits, a tracrProc that is not there where it is needed
\* was destroyed by std::exit.
LEMMA UsesDestroyed ==
  ASSUME Control, WorkersOut, NEW t \in Thread, UseUndefined(t)
  PROVE  tracrProc = Destroyed
<1>1. pc[t] \in ReadsProc \/ (t # Main /\ pc[t] = "run") => tracrProc # NoProc
  <2>  SUFFICES ASSUME pc[t] \in ReadsProc \/ (t # Main /\ pc[t] = "run")
                PROVE  tracrProc # NoProc
    OBVIOUS
  <2>1. pc[t] \notin {"out", "notReady"}
    BY DEF ReadsProc, InDump
  <2>2. pc[Main] \notin {"out", "notReady"}
    BY <2>1 DEF WorkersOut, Worker
  <2>  QED  BY <2>2, CoreAssumption DEF Control, ProcExists
<1>2. tracrProc \in Nat \cup {NoProc, Destroyed}
  BY DEF Control, TypeOK
<1>  QED  BY <1>1, <1>2 DEF UseUndefined, Undefined, MayCall

LEMMA NextWaiting ==
  ASSUME Control, Waiting, Client # "detached", [Next]_vars
  PROVE  Waiting'
<1>1. CASE Ends
  BY <1>1, EndsOnly DEF Waiting, WorkersOut, NoUseAfterReset
<1>2. CASE UNCHANGED vars
  BY <1>2 DEF Waiting, WorkersOut, NoUseAfterReset, vars, globals, process
<1>3. ASSUME NEW t \in Thread, Step(t)
      PROVE  Waiting'
  <2>1. pc \in [Thread -> Place] /\ WorkersStayOut
    BY DEF Control, TypeOK
  <2>2. CASE Start(t)
    <3>1. /\ \A u \in Worker : pc[u] = "out"
          /\ t = Main /\ status' = "running"
      BY <2>2 DEF Start, Accepted, MayCall, Moves, process
    <3>  QED
      BY <2>1, <2>2, <3>1, MainIsThread DEF Start, Goto, Waiting, WorkersOut,
         NoUseAfterReset, Worker
  <2>3. CASE ThreadInit(t)
    <3>1. t # Main /\ pc[Main] = "run" /\ status' = "running"
      BY <2>3 DEF ThreadInit, Accepted, MayCall, Moves, process
    <3>  QED
      BY <2>1, <2>3, <3>1, MainIsThread DEF ThreadInit, Goto, Waiting, WorkersOut,
         NoUseAfterReset
  <2>4. CASE Inside(t)
    <3>1. status' = "running"
      BY <2>4 DEF Inside, CreateFolders, MakeThread, CountThread, ProcReady,
         MakeThreadFolder, OpenTraces, WriteTraces, CloseTraces, OpenMetadata,
         WriteMetadata, ResetThread, UncountThread, ResetProc, ProcNotReady, At,
         Moves, process
    <3>2. pc[t] \notin {"out", "run"}
      BY <2>4 DEF Inside, CreateFolders, MakeThread, CountThread, ProcReady,
         MakeThreadFolder, OpenTraces, WriteTraces, CloseTraces, OpenMetadata,
         WriteMetadata, ResetThread, UncountThread, ResetProc, ProcNotReady, At
    <3>3. pc' = pc \/ \E p : pc' = [pc EXCEPT ![t] = p]
      BY <2>4 DEF Inside, CreateFolders, MakeThread, CountThread, ProcReady,
         MakeThreadFolder, OpenTraces, WriteTraces, CloseTraces, OpenMetadata,
         WriteMetadata, ResetThread, UncountThread, ResetProc, ProcNotReady, Goto
    <3>  QED
      BY <2>1, <3>1, <3>2, <3>3, MainIsThread DEF Waiting, WorkersOut, NoUseAfterReset,
         Worker
  <2>5. CASE Mark(t)
    BY <2>5 DEF Mark, At, Moves, Waiting, WorkersOut, NoUseAfterReset
  <2>6. CASE ThreadFinalize(t)
    <3>1. t # Main /\ pc[t] = "run" /\ BeginFlush(t) /\ status = "running"
      BY <2>6 DEF ThreadFinalize, Accepted, MayCall, Moves
    <3>2. pc[Main] = "run" /\ status' = "running"
      BY <3>1 DEF Waiting, WorkersOut, Worker, BeginFlush, process
    <3>  QED
      BY <2>1, <3>1, <3>2, MainIsThread DEF BeginFlush, Goto, Waiting,
         WorkersOut, NoUseAfterReset
  <2>7. CASE End(t)
    <3>1. t = Main /\ BeginFlush(t) /\ pc[t] = "run" /\ status = "running"
      BY <2>7 DEF End, Accepted, MayCall, Moves
    <3>2. (\A u \in Worker : pc[u] = "out") /\ status' = "running"
      BY <2>7, <3>1, EndMeansAlone DEF BeginFlush, process
    <3>  QED
      BY <2>1, <3>1, <3>2, MainIsThread DEF BeginFlush, Goto, Waiting,
         WorkersOut, NoUseAfterReset, Worker
  <2>8. CASE Leaves(t)
    <3>1. UNCHANGED << pc, tracrProc >>
      BY <2>8, LeavesOnly DEF globals
    <3>2. status' = "undefined" => status = "undefined" \/ UseUndefined(t)
      BY <2>8 DEF Leaves, Refuse, FailIO, Exit
    <3>  QED
      BY <3>1, <3>2, UsesDestroyed DEF Waiting, WorkersOut, NoUseAfterReset
  <2>  QED
    BY <1>3, StepKinds, <2>2, <2>3, <2>4, <2>5, <2>6, <2>7, <2>8
<1>  QED  BY <1>1, <1>2, <1>3, NextKinds

LEMMA WaitingInvariant ==
  ASSUME Client # "detached"
  PROVE  Spec => [](Control /\ Waiting)
<1>1. Init => Waiting
  BY DEF Init, Waiting, WorkersOut, NoUseAfterReset, Worker
<1>2. Control /\ Waiting /\ [Next]_vars => Waiting'
  BY NextWaiting
<1>  QED  BY <1>1, <1>2, InitControl, NextControl, PTL DEF Spec

\* When the application waits, END runs alone: its check of num_tracr_threads
\* is enough even if some workers have not been joined.
THEOREM EndRunsAlone ==
  ASSUME Client # "detached"
  PROVE  Spec => []OnlyThisThread
<1>1. Control /\ Waiting => OnlyThisThread
  BY MainIsThread DEF Control, Waiting, WorkersOut, OnlyThisThread, Ending,
     ThreadExists, ThreadPlace, InFlush, InDump, InTearDown, Worker
<1>  QED  BY <1>1, WaitingInvariant, PTL

\* ... and END never takes tracrProc from under a thread: one that finds it gone has
\* lost it to a std::exit of another thread, which destroys it while the others run.
THEOREM ProcOutlivesThreads ==
  ASSUME Client # "detached"
  PROVE  Spec => []NoUseAfterReset
<1>1. Waiting => NoUseAfterReset
  BY DEF Waiting
<1>  QED  BY <1>1, WaitingInvariant, PTL

-----------------------------------------------------------------------------
(* metadata.json as a commit record.  Every thread is initialised at most once *)
(* in a session: a second life truncates the file of the first.             *)

FlushOnce == \A t \in Thread : pc[t] \in InStart \cup {"run"} => flushed[t] = << >>

FirstLife ==
  \A t \in Worker : lives[t] = 0 => pc[t] = "out" /\ flushed[t] = << >>

BeingFlushed ==
  \A t \in Thread : pc[t] \in InFlush => flushed[t] = FlushTraces(tracrThread[t])

PrefixWritten ==
  \A t \in Thread : pc[t] = "write" =>
    /\ Len(bts[t]) <= Len(flushed[t])
    /\ bts[t] = SubSeq(flushed[t], 1, Len(bts[t]))

AllWritten ==
  \A t \in Thread : pc[t] \notin InFlush => flushed[t] = << >> \/ bts[t] = flushed[t]

BeforeCommit == InStart \cup {"run"} \cup InFlush \cup InDump

NotCommitted ==
  metadata \in Metadata => /\ metadata.session <= session
                           /\ pc[Main] \in BeforeCommit => metadata.session < session

Flushing == FlushOnce /\ FirstLife /\ BeingFlushed /\ PrefixWritten /\ AllWritten

Commits == Flushing /\ NotCommitted

LEMMA StepFlushing ==
  ASSUME Control, Waiting, Flushing, MaxLives <= 1, NEW t \in Thread, Step(t)
  PROVE  Flushing'
<1>1. /\ TypeOK /\ WorkersStayOut /\ ThreadExists /\ BuffersGood /\ FileOpen
  BY DEF Control
<1>2. FlushOnce /\ FirstLife /\ BeingFlushed /\ PrefixWritten /\ AllWritten
  BY DEF Flushing
<1>3. pc \in [Thread -> Place] /\ bts \in [Thread -> Seq(Nat) \cup Absent]
      /\ flushed \in [Thread -> Seq(Nat)] /\ lives \in [Thread -> Nat]
      /\ tracrThread \in [Thread -> Buffer(Nat) \cup {NoThread}]
  BY <1>1 DEF TypeOK
<1>4. CASE Start(t)
  <2>1. t = Main /\ \A u \in Worker : pc[u] = "out"
    BY <1>4, MainIsThread DEF Start, Accepted, MayCall, Waiting, WorkersOut
  <2>2. /\ pc' = [pc EXCEPT ![t] = "folders"]
        /\ lives' = [u \in Thread |-> 0] /\ flushed' = [u \in Thread |-> << >>]
    BY <1>4 DEF Start, Goto
  <2>3. \A u \in Worker : pc'[u] = "out"
    BY <1>3, <2>1, <2>2, MainIsThread
  <2>4. \A u \in Thread : pc'[u] \in {"out", "folders"}
    BY <1>3, <2>1, <2>2, <2>3, MainIsThread DEF Worker
  <2>  QED
    BY <2>2, <2>3, <2>4, MainIsThread DEF Flushing, FlushOnce, FirstLife,
       BeingFlushed, PrefixWritten, AllWritten, InFlush
<1>5. CASE ThreadInit(t)
  <2>1. t \in Worker /\ pc[t] = "out" /\ lives[t] < MaxLives
    BY <1>5 DEF ThreadInit, Accepted, MayCall, Worker
  <2>2. lives[t] = 0 /\ flushed[t] = << >>
    BY <1>2, <1>3, <2>1, MainIsThread, CoreAssumption DEF FirstLife
  <2>3. /\ pc' = [pc EXCEPT ![t] = "make"] /\ lives' = [lives EXCEPT ![t] = @ + 1]
        /\ UNCHANGED << tracrThread, bts, flushed >>
    BY <1>5 DEF ThreadInit, Goto, disk
  <2>  QED
    BY <1>2, <1>3, <2>1, <2>2, <2>3, MainIsThread DEF Flushing, FlushOnce, FirstLife,
       BeingFlushed, PrefixWritten, AllWritten, InFlush
<1>6. CASE CreateFolders(t) \/ MakeThread(t) \/ CountThread(t) \/ ProcReady(t)
  <2>1. pc[t] \in InStart
    BY <1>6 DEF CreateFolders, MakeThread, CountThread, ProcReady, At, InStart
  <2>2. PICK p \in InStart \cup {"run"} : pc' = [pc EXCEPT ![t] = p]
    BY <1>6 DEF CreateFolders, MakeThread, CountThread, ProcReady, Goto, InStart
  <2>3. PICK b : tracrThread' = [tracrThread EXCEPT ![t] = b]
    <3>1. tracrThread = [tracrThread EXCEPT ![t] = tracrThread[t]]
      BY <1>3
    <3>  QED  BY <1>6, <3>1 DEF CreateFolders, MakeThread, CountThread, ProcReady
  <2>4. UNCHANGED << bts, flushed, lives >>
    BY <1>6 DEF CreateFolders, MakeThread, CountThread, ProcReady, disk, history
  <2>  QED
    BY <1>2, <1>3, <2>1, <2>2, <2>3, <2>4, MainIsThread DEF Flushing, FlushOnce,
       FirstLife, BeingFlushed, PrefixWritten, AllWritten, InFlush, InStart
<1>7. CASE Mark(t)
  <2>1. /\ pc[t] = "run"
        /\ tracrThread' = [tracrThread EXCEPT ![t] = StoreTrace(@, clock + 1)]
        /\ UNCHANGED << pc, bts, flushed, lives >>
    BY <1>7 DEF Mark, At, disk, history
  <2>  QED
    BY <1>2, <1>3, <2>1 DEF Flushing, FlushOnce, FirstLife, BeingFlushed,
       PrefixWritten, AllWritten, InFlush
<1>8. CASE ThreadFinalize(t) \/ End(t)
  <2>1. BeginFlush(t) /\ pc[t] = "run"
    BY <1>8 DEF ThreadFinalize, End, Accepted, MayCall
  <2>  DEFINE F == FlushTraces(tracrThread[t])
  <2>2. GoodBuffer(Nat, tracrThread[t]) /\ F \in Seq(Nat)
    BY <1>1, <2>1, FlushShape DEF ThreadExists, ThreadPlace, BuffersGood
  <2>3. IsEmpty(t) => F = << >>
    <3>1. tracrThread[t].traceIdx = 0 => Len(F) = 0
      BY <2>2, FlushShape, BufferParameters DEF Kept
    <3>  QED  BY <2>2, <3>1, EmptySeq DEF IsEmpty
  <2>4. flushed[t] \o F = F
    BY <1>2, <2>1, <2>2, ConcatEmptySeq DEF FlushOnce
  <2>  DEFINE p == IF IsEmpty(t) THEN AfterFlush(t) ELSE "mkdir"
  <2>5. /\ pc' = [pc EXCEPT ![t] = p]
        /\ flushed' = [flushed EXCEPT ![t] = F]
        /\ UNCHANGED << tracrThread, bts, lives >>
    BY <2>1, <2>4 DEF BeginFlush, Goto, disk
  <2>6. p = "mkdir" \/ (p \in {"openJson", "reset"} /\ F = << >>)
    BY <2>3 DEF AfterFlush
  <2>7. t \in Worker => lives[t] # 0
    BY <1>2, <2>1 DEF FirstLife
  <2>  HIDE DEF F, p
  <2>8. F = FlushTraces(tracrThread[t])
    BY DEF F
  <2>  QED
    BY <1>2, <1>3, <2>5, <2>6, <2>7, <2>8, MainIsThread DEF Flushing, FlushOnce,
       FirstLife, BeingFlushed, PrefixWritten, AllWritten, InFlush, InStart
<1>9. CASE MakeThreadFolder(t)
  <2>1. PICK f : bts' = [bts EXCEPT ![t] = f]
    BY <1>9 DEF MakeThreadFolder
  <2>2. /\ pc[t] = "mkdir" /\ pc' = [pc EXCEPT ![t] = "open"]
        /\ UNCHANGED << tracrThread, flushed, lives >>
    BY <1>9 DEF MakeThreadFolder, At, Goto, history
  <2>  QED
    BY <1>2, <1>3, <2>1, <2>2, MainIsThread DEF Flushing, FlushOnce, FirstLife,
       BeingFlushed, PrefixWritten, AllWritten, InFlush, InStart
<1>10. CASE OpenTraces(t)
  <2>1. /\ pc[t] = "open" /\ pc' = [pc EXCEPT ![t] = "write"]
        /\ bts' = [bts EXCEPT ![t] = << >>]
        /\ UNCHANGED << tracrThread, flushed, lives >>
    BY <1>10 DEF OpenTraces, At, Goto, history
  <2>2. /\ Len(<< >>) = 0 /\ Len(flushed[t]) \in Nat
        /\ SubSeq(flushed[t], 1, 0) = << >>
    BY <1>3, SubSeqEmpty, EmptySeq, LenProperties
  <2>3. Len(bts'[t]) <= Len(flushed[t]) /\ bts'[t] = SubSeq(flushed[t], 1, Len(bts'[t]))
    BY <1>3, <2>1, <2>2
  <2>  QED
    BY <1>2, <1>3, <2>1, <2>3, MainIsThread DEF Flushing, FlushOnce, FirstLife,
       BeingFlushed, PrefixWritten, AllWritten, InFlush, InStart
<1>11. CASE WriteTraces(t)
  <2>  DEFINE s == SubSeq(flushed[t], 1, Len(bts[t]) + 1)
  <2>1. pc[t] = "write" /\ Contents(t) = flushed[t] /\ bts[t] \in Seq(Nat)
    BY <1>1, <1>2, <1>11 DEF WriteTraces, At, BeingFlushed, Contents, InFlush, FileOpen
  <2>2. /\ bts' = [bts EXCEPT ![t] = s]
        /\ Len(bts[t]) < Len(flushed[t])
        /\ UNCHANGED << pc, tracrThread, flushed, lives >>
    BY <1>11, <2>1 DEF WriteTraces, history
  <2>3. Len(s) = Len(bts[t]) + 1 /\ Len(bts[t]) + 1 <= Len(flushed[t])
    <3>1. Len(bts[t]) \in Nat /\ Len(flushed[t]) \in Nat /\ flushed[t] \in Seq(Nat)
      BY <1>3, <2>1, LenProperties
    <3>2. \A i \in 1 .. Len(bts[t]) + 1 : flushed[t][i] \in Nat
      BY <2>2, <3>1, ElementOfSeq
    <3>3. Len(s) = IF 1 <= Len(bts[t]) + 1 THEN Len(bts[t]) + 1 - 1 + 1 ELSE 0
      BY <3>1, <3>2, SubSeqProperties
    <3>  QED  BY <2>2, <3>1, <3>3
  <2>4. Len(s) <= Len(flushed[t]) /\ s = SubSeq(flushed[t], 1, Len(s))
    BY <2>3
  <2>  HIDE DEF s
  <2>  QED
    BY <1>2, <1>3, <2>1, <2>2, <2>4, MainIsThread DEF Flushing, FlushOnce, FirstLife,
       BeingFlushed, PrefixWritten, AllWritten, InFlush, InStart
<1>12. CASE CloseTraces(t)
  <2>1. pc[t] = "write" /\ Contents(t) = flushed[t] /\ bts[t] \in Seq(Nat)
    BY <1>1, <1>2, <1>12 DEF CloseTraces, At, BeingFlushed, Contents, InFlush, FileOpen
  <2>2. /\ pc' = [pc EXCEPT ![t] = AfterFlush(t)]
        /\ Len(bts[t]) >= Len(flushed[t])
        /\ UNCHANGED << tracrThread, bts, flushed, lives >>
    BY <1>12, <2>1 DEF CloseTraces, Goto, disk, history
  <2>3. bts[t] = flushed[t]
    <3>1. Len(bts[t]) = Len(flushed[t]) /\ flushed[t] \in Seq(Nat)
      BY <1>2, <1>3, <2>1, <2>2, LenProperties DEF PrefixWritten
    <3>2. bts[t] = SubSeq(flushed[t], 1, Len(flushed[t]))
      BY <1>2, <2>1, <3>1 DEF PrefixWritten
    <3>  QED  BY <3>1, <3>2, SubSeqFull
  <2>4. AfterFlush(t) \in {"openJson", "reset"}
    BY DEF AfterFlush
  <2>5. t \in Worker => lives[t] # 0
    BY <1>2, <2>1 DEF FirstLife
  <2>  QED
    BY <1>2, <1>3, <2>2, <2>3, <2>4, <2>5, MainIsThread DEF Flushing, FlushOnce,
       FirstLife, BeingFlushed, PrefixWritten, AllWritten, InFlush, InStart
<1>13. CASE \/ OpenMetadata(t) \/ WriteMetadata(t) \/ ResetThread(t)
            \/ UncountThread(t) \/ ResetProc(t) \/ ProcNotReady(t)
  <2>1. pc[t] \in InDump \cup InTearDown
    BY <1>13 DEF OpenMetadata, WriteMetadata, ResetThread, UncountThread, ResetProc,
       ProcNotReady, At, InDump, InTearDown
  <2>2. PICK p \in InDump \cup InTearDown \cup {"out"} : pc' = [pc EXCEPT ![t] = p]
    BY <1>13 DEF OpenMetadata, WriteMetadata, ResetThread, UncountThread, ResetProc,
       ProcNotReady, Goto, InDump, InTearDown
  <2>3. PICK b : tracrThread' = [tracrThread EXCEPT ![t] = b]
    <3>1. tracrThread = [tracrThread EXCEPT ![t] = tracrThread[t]]
      BY <1>3
    <3>  QED
      BY <1>13, <3>1 DEF OpenMetadata, WriteMetadata, ResetThread, UncountThread,
         ResetProc, ProcNotReady
  <2>4. UNCHANGED << bts, flushed, lives >>
    BY <1>13 DEF OpenMetadata, WriteMetadata, ResetThread, UncountThread, ResetProc,
       ProcNotReady, disk, history
  <2>5. t \in Worker => lives[t] # 0
    BY <1>2, <2>1 DEF FirstLife, InDump, InTearDown
  <2>  QED
    BY <1>2, <1>3, <2>1, <2>2, <2>3, <2>4, <2>5, MainIsThread DEF Flushing, FlushOnce,
       FirstLife, BeingFlushed, PrefixWritten, AllWritten, InFlush, InStart, InDump,
       InTearDown
<1>14. CASE Leaves(t)
  BY <1>2, <1>14, LeavesOnly DEF disk, history, Flushing, FlushOnce, FirstLife,
     BeingFlushed, PrefixWritten, AllWritten
<1>  QED
  BY StepKinds, <1>4, <1>5, <1>6, <1>7, <1>8, <1>9, <1>10, <1>11, <1>12, <1>13, <1>14
     DEF Inside

LEMMA StepNotCommitted ==
  ASSUME Control, NotCommitted, NEW t \in Thread, Step(t)
  PROVE  NotCommitted'
<1>1. pc \in [Thread -> Place] /\ session \in Nat /\ WorkersStayOut
  BY DEF Control, TypeOK
<1>2. metadata \in Metadata => metadata.session \in Nat
  BY DEF Metadata
<1>3. CASE Start(t)
  <2>1. UNCHANGED metadata /\ session' = session + 1
    BY <1>3 DEF Start, disk
  <2>  QED  BY <1>1, <1>2, <2>1 DEF NotCommitted
<1>4. CASE WriteMetadata(t)
  <2>1. t = Main
    BY <1>1, <1>4 DEF WriteMetadata, At, WorkersStayOut, WorkerPlace, Worker, InFlush
  <2>2. pc' = [pc EXCEPT ![Main] = "reset"] /\ session' = session
    BY <1>4, <2>1 DEF WriteMetadata, Goto, history
  <2>3. pc'[Main] \notin BeforeCommit
    BY <1>1, <2>2, MainIsThread DEF BeforeCommit, InStart, InFlush, InDump
  <2>4. metadata' \in Metadata => metadata'.session <= session'
    <3>1. CASE metadata' = [start_time |-> tracrProc, end_time |-> EndTime,
                            session |-> session]
      BY <1>1, <2>2, <3>1
    <3>2. CASE metadata' = Truncated
      BY <3>2, CoreAssumption
    <3>  QED  BY <1>4, <3>1, <3>2 DEF WriteMetadata
  <2>  QED  BY <2>3, <2>4 DEF NotCommitted
<1>5. CASE OpenMetadata(t)
  <2>1. metadata' = Truncated
    BY <1>5 DEF OpenMetadata
  <2>  QED  BY <2>1, CoreAssumption DEF NotCommitted
<1>6. ASSUME UNCHANGED << metadata, session >>,
             \/ pc' = pc
             \/ \E p : /\ pc' = [pc EXCEPT ![t] = p]
                       /\ t = Main => (pc[t] \in BeforeCommit \/ p \notin BeforeCommit)
      PROVE  NotCommitted'
  BY <1>1, <1>6, MainIsThread DEF NotCommitted
<1>7. CASE CreateFolders(t) \/ MakeThread(t) \/ CountThread(t) \/ ProcReady(t)
  <2>1. pc[t] \in BeforeCommit
    BY <1>7 DEF CreateFolders, MakeThread, CountThread, ProcReady, At, BeforeCommit,
       InStart
  <2>2. \E p : pc' = [pc EXCEPT ![t] = p]
    BY <1>7 DEF CreateFolders, MakeThread, CountThread, ProcReady, Goto
  <2>  QED
    BY <1>6, <1>7, <2>1, <2>2 DEF CreateFolders, MakeThread, CountThread, ProcReady,
       disk, history
<1>8. CASE ThreadInit(t)
  BY <1>6, <1>8 DEF ThreadInit, Accepted, MayCall, Goto, disk
<1>9. CASE ThreadFinalize(t) \/ End(t)
  BY <1>6, <1>9 DEF ThreadFinalize, End, BeginFlush, Accepted, MayCall, Goto, disk,
     BeforeCommit
<1>10. CASE MakeThreadFolder(t) \/ OpenTraces(t) \/ CloseTraces(t)
  <2>1. pc[t] \in BeforeCommit
    BY <1>10 DEF MakeThreadFolder, OpenTraces, CloseTraces, At, BeforeCommit, InFlush
  <2>2. \E p : pc' = [pc EXCEPT ![t] = p]
    BY <1>10 DEF MakeThreadFolder, OpenTraces, CloseTraces, Goto
  <2>  QED
    BY <1>6, <1>10, <2>1, <2>2 DEF MakeThreadFolder, OpenTraces, CloseTraces, disk,
       history
<1>11. CASE Mark(t) \/ WriteTraces(t) \/ Leaves(t)
  BY <1>6, <1>11, LeavesOnly DEF Mark, WriteTraces, disk, history
<1>12. CASE ResetThread(t) \/ UncountThread(t) \/ ResetProc(t) \/ ProcNotReady(t)
  <2>1. PICK p \in {"uncount", "resetProc", "out", "notReady"} :
          pc' = [pc EXCEPT ![t] = p]
    BY <1>12 DEF ResetThread, UncountThread, ResetProc, ProcNotReady, Goto
  <2>2. p \notin BeforeCommit
    BY <2>1 DEF BeforeCommit, InStart, InFlush, InDump
  <2>  QED
    BY <1>6, <1>12, <2>1, <2>2 DEF ResetThread, UncountThread, ResetProc,
       ProcNotReady, disk, history
<1>  QED
  BY StepKinds, <1>3, <1>4, <1>5, <1>7, <1>8, <1>9, <1>10, <1>11, <1>12 DEF Inside

LEMMA CommitInvariant ==
  ASSUME Client # "detached", MaxLives <= 1
  PROVE  Spec => [](Control /\ Waiting /\ Commits)
<1>1. Init => Waiting
  BY DEF Init, Waiting, WorkersOut, NoUseAfterReset, Worker
<1>2. Init => Commits
  <2>1. Init => NotCommitted
    BY CoreAssumption DEF Init, NotCommitted
  <2>  QED
    BY <2>1, MainIsThread DEF Init, Commits, Flushing, FlushOnce, FirstLife,
       BeingFlushed, PrefixWritten, AllWritten, InStart, InFlush, Worker
<1>3. Control /\ Waiting /\ [Next]_vars => Waiting'
  BY NextWaiting
<1>4. Control /\ Waiting /\ Commits /\ [Next]_vars => Commits'
  <2>  SUFFICES ASSUME Control, Waiting, Commits, [Next]_vars PROVE Commits'
    OBVIOUS
  <2>1. CASE \E t \in Thread : Step(t)
    BY <2>1, StepFlushing, StepNotCommitted DEF Commits
  <2>2. CASE Ends \/ UNCHANGED vars
    BY <2>2, EndsOnly DEF vars, globals, disk, history, Commits, Flushing, FlushOnce,
       FirstLife, BeingFlushed, PrefixWritten, AllWritten, NotCommitted
  <2>  QED  BY <2>1, <2>2, NextKinds
<1>  QED  BY <1>1, <1>2, <1>3, <1>4, InitControl, NextControl, PTL DEF Spec

\* Main has left the part of END that comes before the commit.
LEMMA CommittedPlaces ==
  ASSUME Control, Waiting, Commits, Committed
  PROVE  /\ pc[Main] \in InTearDown \cup {"out"}
         /\ \A t \in Worker : pc[t] = "out"
<1>1. session \in Nat /\ pc[Main] \in Place
  BY MainIsThread DEF Control, TypeOK
<1>2. pc[Main] \notin BeforeCommit
  BY <1>1 DEF Commits, NotCommitted, Committed
<1>3. pc[Main] \in InTearDown \cup {"out"}
  BY <1>1, <1>2 DEF Place, BeforeCommit
<1>4. pc[Main] # "run"
  BY <1>3 DEF InTearDown
<1>  QED  BY <1>3, <1>4 DEF Waiting, WorkersOut

\* metadata.json is the commit record of its session, for any number of
\* threads, whatever fails and whenever the process is killed.
THEOREM MetadataIsCommit ==
  ASSUME Client # "detached", MaxLives <= 1
  PROVE  Spec => []MetadataCommits
<1>1. Control /\ Waiting /\ Commits => MetadataCommits
  <2>  SUFFICES ASSUME Control, Waiting, Commits, Committed, NEW t \in Thread
                PROVE  /\ t # Main => tracrThread[t] = NoThread
                       /\ flushed[t] # << >> => bts[t] = flushed[t]
    BY DEF MetadataCommits
  <2>1. /\ pc[Main] \in InTearDown \cup {"out"}
        /\ \A u \in Worker : pc[u] = "out"
    BY CommittedPlaces
  <2>2. pc[t] \in InTearDown \cup {"out"} /\ (t # Main => pc[t] = "out")
    BY <2>1 DEF Worker
  <2>3. pc[t] \notin InFlush
    BY <2>2 DEF InFlush, InTearDown
  <2>  QED
    BY <2>2, <2>3 DEF Control, ThreadExists, ThreadPlace, InFlush, InDump, Commits,
       Flushing, AllWritten
<1>  QED  BY <1>1, CommitInvariant, PTL

\* After the commit nothing but START is left that could touch the folder.
LEMMA StepSeals ==
  ASSUME Control, Waiting, Commits, [Next]_vars, Committed, session' = session
  PROVE  UNCHANGED disk
<1>1. \A t \in Thread : pc[t] \in InTearDown \cup {"out"}
  BY CommittedPlaces DEF Worker
<1>2. ASSUME NEW t \in Thread, Step(t)
      PROVE  UNCHANGED disk
  <2>1. pc[t] \notin InFlush \cup InDump
    BY <1>1 DEF InFlush, InDump, InTearDown
  <2>2. /\ ~ MakeThreadFolder(t) /\ ~ OpenTraces(t) /\ ~ WriteTraces(t)
        /\ ~ OpenMetadata(t) /\ ~ WriteMetadata(t)
    BY <2>1 DEF MakeThreadFolder, OpenTraces, WriteTraces, OpenMetadata,
       WriteMetadata, At, InFlush, InDump
  <2>  QED
    BY <1>2, <2>2, StepKinds, LeavesOnly DEF Inside, Start, ThreadInit, Mark,
       ThreadFinalize, End, BeginFlush, CreateFolders, MakeThread, CountThread, ProcReady,
       CloseTraces, ResetThread, UncountThread, ResetProc, ProcNotReady, disk
<1>3. CASE Ends \/ UNCHANGED vars
  BY <1>3, EndsOnly DEF vars, disk
<1>  QED  BY <1>2, <1>3, NextKinds

\* Once committed the folder does not change until the next START.
THEOREM FolderIsSealed ==
  ASSUME Client # "detached", MaxLives <= 1
  PROVE  Spec => Sealed
<1>1. Control /\ Waiting /\ Commits /\ [Next]_vars
        => [Committed /\ session' = session => UNCHANGED disk]_vars
  BY StepSeals
<1>  QED  BY <1>1, CommitInvariant, PTL DEF Spec, Sealed

-----------------------------------------------------------------------------
(* The anchors.  While there is a TraCRProc, whatever is in a buffer or was *)
(* flushed is not older than it and not younger than the clock.             *)

Since == {n \in Nat : n <= clock /\ (tracrProc \in Nat => tracrProc <= n)}

StartedBefore == tracrProc \in Nat => tracrProc <= clock

BuffersTimed ==
  \A t \in Thread : tracrThread[t] # NoThread => GoodBuffer(Since, tracrThread[t])

FlushedTimed == tracrProc \in Nat => \A t \in Thread : flushed[t] \in Seq(Since)

Timed == StartedBefore /\ BuffersTimed /\ FlushedTimed

Between(first, last) == {n \in Nat : first <= n /\ n <= last}

Enclosed ==
  Committed =>
    \A t \in Thread :
      flushed[t] \in Seq(Between(metadata.start_time, metadata.end_time))

LEMMA SeqOfMore ==
  ASSUME NEW S, NEW T, S \subseteq T, NEW seq \in Seq(S)
  PROVE  seq \in Seq(T)
<1>1. seq \in [1 .. Len(seq) -> S] /\ Len(seq) \in Nat
  BY LenProperties
<1>2. seq \in [1 .. Len(seq) -> T]
  BY <1>1
<1>  QED  BY <1>1, <1>2, SeqDef

LEMMA GoodForMore ==
  ASSUME NEW S, NEW T, S \subseteq T, NEW b, GoodBuffer(S, b)
  PROVE  GoodBuffer(T, b)
<1>1. b \in Buffer(T)
  BY DEF GoodBuffer, Buffer
<1>  QED  BY <1>1 DEF GoodBuffer

LEMMA InitTimed == Init => Timed /\ Enclosed
<1>1. Init => Timed
  BY CoreAssumption DEF Init, Timed, StartedBefore, BuffersTimed, FlushedTimed
<1>2. Init => ~ Committed
  BY CoreAssumption DEF Init, Committed
<1>  QED  BY <1>1, <1>2 DEF Enclosed

LEMMA StepTimed ==
  ASSUME Control, Waiting, Timed, NEW t \in Thread, Step(t)
  PROVE  Timed'
<1>1. /\ pc \in [Thread -> Place] /\ clock \in Nat
      /\ tracrThread \in [Thread -> Buffer(Nat) \cup {NoThread}]
      /\ flushed \in [Thread -> Seq(Nat)]
      /\ ThreadExists /\ ProcExists
  BY DEF Control, TypeOK
<1>2. StartedBefore /\ BuffersTimed /\ FlushedTimed
  BY DEF Timed
<1>3. CASE Start(t)
  <2>1. /\ t = Main /\ pc[Main] = "out"
        /\ clock' = clock + 1 /\ tracrProc' = clock + 1
        /\ flushed' = [u \in Thread |-> << >>] /\ UNCHANGED tracrThread
    BY <1>3 DEF Start, Accepted, MayCall
  <2>2. \A u \in Thread : tracrThread[u] = NoThread
    BY <1>1, <2>1, MainIsThread DEF Waiting, WorkersOut, ThreadExists, ThreadPlace,
       InFlush, InDump, Worker
  <2>3. FlushedTimed'
    BY <2>1, EmptySeq DEF FlushedTimed
  <2>  QED
    BY <1>1, <2>1, <2>2, <2>3 DEF Timed, StartedBefore, BuffersTimed
<1>4. CASE Mark(t)
  <2>1. /\ pc[t] = "run" /\ clock' = clock + 1
        /\ tracrThread' = [tracrThread EXCEPT ![t] = StoreTrace(@, clock + 1)]
        /\ UNCHANGED << tracrProc, flushed >>
    BY <1>4 DEF Mark, At, globals, history
  <2>2. Since \subseteq Since' /\ clock + 1 \in Since'
    BY <1>1, <1>2, <2>1 DEF Since, StartedBefore
  <2>3. tracrThread[t] # NoThread
    BY <1>1, <2>1 DEF ThreadExists, ThreadPlace
  <2>4. \A u \in Thread : tracrThread[u] # NoThread => GoodBuffer(Since', tracrThread[u])
    BY <1>2, <2>2, GoodForMore DEF BuffersTimed
  <2>5. GoodBuffer(Since', StoreTrace(tracrThread[t], clock + 1))
    BY <2>2, <2>3, <2>4, StoreTraceGood
  <2>6. BuffersTimed'
    BY <1>1, <2>1, <2>4, <2>5 DEF BuffersTimed
  <2>7. FlushedTimed'
    BY <1>2, <2>1, <2>2, SeqOfMore DEF FlushedTimed
  <2>  QED  BY <1>1, <1>2, <2>1, <2>6, <2>7 DEF Timed, StartedBefore
<1>5. CASE MakeThread(t)
  <2>1. /\ tracrThread' = [tracrThread EXCEPT ![t] = EmptyBuffer]
        /\ UNCHANGED << clock, tracrProc, flushed >>
    BY <1>5 DEF MakeThread, globals, history
  <2>2. GoodBuffer(Since, EmptyBuffer)
    BY FreshBuffer
  <2>  QED
    BY <1>1, <1>2, <2>1, <2>2 DEF Timed, StartedBefore, BuffersTimed, FlushedTimed, Since
<1>6. CASE ThreadFinalize(t) \/ End(t)
  <2>  DEFINE F == FlushTraces(tracrThread[t])
  <2>1. /\ pc[t] = "run"
        /\ flushed' = [flushed EXCEPT ![t] = @ \o F]
        /\ UNCHANGED << clock, tracrProc, tracrThread >>
    BY <1>6 DEF ThreadFinalize, End, Accepted, MayCall, BeginFlush, globals
  <2>2. F \in Seq(Since)
    BY <1>1, <1>2, <2>1, FlushShape DEF ThreadExists, ThreadPlace, BuffersTimed
  <2>  HIDE DEF F
  <2>3. tracrProc \in Nat => flushed[t] \o F \in Seq(Since)
    BY <1>2, <2>2, ConcatProperties DEF FlushedTimed
  <2>4. FlushedTimed'
    BY <1>1, <1>2, <2>1, <2>3 DEF FlushedTimed, Since
  <2>  QED  BY <1>2, <2>1, <2>4 DEF Timed, StartedBefore, BuffersTimed, Since
<1>7. CASE ResetThread(t)
  <2>1. /\ tracrThread' = [tracrThread EXCEPT ![t] = NoThread]
        /\ UNCHANGED << clock, tracrProc, flushed >>
    BY <1>7 DEF ResetThread, globals, history
  <2>  QED
    BY <1>1, <1>2, <2>1 DEF Timed, StartedBefore, BuffersTimed, FlushedTimed, Since
<1>8. CASE ResetProc(t)
  <2>1. tracrProc' \notin Nat /\ UNCHANGED << clock, tracrThread >>
    BY <1>8, CoreAssumption DEF ResetProc
  <2>2. Since \subseteq Since'
    BY <2>1 DEF Since
  <2>3. BuffersTimed'
    BY <1>2, <2>1, <2>2, GoodForMore DEF BuffersTimed
  <2>  QED  BY <2>1, <2>3 DEF Timed, StartedBefore, FlushedTimed
<1>9. ASSUME UNCHANGED << clock, tracrProc, tracrThread, flushed >>
      PROVE  Timed'
  BY <1>2, <1>9 DEF Timed, StartedBefore, BuffersTimed, FlushedTimed, Since
<1>10. CASE \/ CreateFolders(t) \/ ThreadInit(t) \/ CountThread(t) \/ ProcReady(t)
            \/ MakeThreadFolder(t) \/ OpenTraces(t) \/ WriteTraces(t) \/ CloseTraces(t)
            \/ OpenMetadata(t) \/ WriteMetadata(t) \/ UncountThread(t)
            \/ ProcNotReady(t) \/ Leaves(t)
  BY <1>9, <1>10, LeavesOnly DEF CreateFolders, ThreadInit, CountThread, ProcReady,
     MakeThreadFolder, OpenTraces, WriteTraces, CloseTraces, OpenMetadata,
     WriteMetadata, UncountThread, ProcNotReady, globals, history
<1>  QED
  BY StepKinds, <1>3, <1>4, <1>5, <1>6, <1>7, <1>8, <1>10 DEF Inside

LEMMA EndsTimed ==
  ASSUME Timed, Ends
  PROVE  Timed'
<1>1. /\ UNCHANGED << clock, tracrThread, flushed >>
      /\ tracrProc' \in {tracrProc, Destroyed} /\ Destroyed \notin Nat
  BY EndsOnly, CoreAssumption DEF history
<1>2. Since \subseteq Since'
  BY <1>1 DEF Since
<1>3. BuffersTimed'
  BY <1>1, <1>2, GoodForMore DEF Timed, BuffersTimed
<1>4. FlushedTimed'
  BY <1>1, <1>2, SeqOfMore DEF Timed, FlushedTimed
<1>  QED  BY <1>1, <1>3, <1>4 DEF Timed, StartedBefore

LEMMA StepEnclosed ==
  ASSUME Control, Waiting, Commits, Timed, Enclosed, NEW t \in Thread, Step(t)
  PROVE  Enclosed'
<1>1. /\ session \in Nat /\ clock \in Nat
      /\ WorkersStayOut /\ ProcExists
  BY DEF Control, TypeOK
<1>2. metadata \in Metadata => metadata.session <= session /\ metadata.session \in Nat
  BY DEF Commits, NotCommitted, Metadata
<1>3. CASE WriteMetadata(t)
  <2>1. /\ pc[t] = "writeJson" /\ UNCHANGED << flushed, session >>
        /\ \/ metadata' = [start_time |-> tracrProc, end_time |-> EndTime,
                           session |-> session]
           \/ metadata' = Truncated
    BY <1>3 DEF WriteMetadata, At, history
  <2>2. tracrProc \in Nat
    BY <1>3 DEF WriteMetadata
  <2>3. Since = Between(tracrProc, clock)
    BY <1>1, <2>2 DEF Since, Between
  <2>4. \A u \in Thread : flushed'[u] \in Seq(Between(tracrProc, clock))
    BY <2>1, <2>2, <2>3 DEF Timed, FlushedTimed
  <2>5. CASE metadata' = Truncated
    BY <2>5, CoreAssumption DEF Enclosed, Committed
  <2>6. CASE metadata' = [start_time |-> tracrProc, end_time |-> EndTime,
                          session |-> session]
    <3>1. metadata'.start_time = tracrProc /\ metadata'.end_time = clock
      BY <2>6 DEF EndTime
    <3>  QED  BY <2>4, <3>1 DEF Enclosed
  <2>  QED  BY <2>1, <2>5, <2>6
<1>4. CASE OpenMetadata(t)
  BY <1>4, CoreAssumption DEF OpenMetadata, Enclosed, Committed
<1>5. CASE Start(t)
  <2>1. UNCHANGED metadata /\ session' = session + 1
    BY <1>5 DEF Start, disk
  <2>2. ~ Committed'
    BY <1>1, <1>2, <2>1 DEF Committed
  <2>  QED  BY <2>2 DEF Enclosed
<1>6. CASE ThreadFinalize(t) \/ End(t)
  <2>1. pc[t] = "run" /\ UNCHANGED << metadata, session >>
    BY <1>6 DEF ThreadFinalize, End, Accepted, MayCall, BeginFlush, disk
  <2>2. ~ Committed
    BY <2>1, CommittedPlaces DEF Worker, InTearDown
  <2>  QED  BY <2>1, <2>2 DEF Enclosed, Committed
<1>7. ASSUME UNCHANGED << metadata, session, flushed >>
      PROVE  Enclosed'
  BY <1>7 DEF Enclosed, Committed
<1>8. CASE \/ CreateFolders(t) \/ ThreadInit(t) \/ MakeThread(t) \/ CountThread(t)
           \/ ProcReady(t) \/ Mark(t) \/ MakeThreadFolder(t) \/ OpenTraces(t)
           \/ WriteTraces(t) \/ CloseTraces(t) \/ ResetThread(t) \/ UncountThread(t)
           \/ ResetProc(t) \/ ProcNotReady(t) \/ Leaves(t)
  BY <1>7, <1>8, LeavesOnly DEF CreateFolders, ThreadInit, MakeThread, CountThread, ProcReady,
     Mark, MakeThreadFolder, OpenTraces, WriteTraces, CloseTraces, ResetThread,
     UncountThread, ResetProc, ProcNotReady, disk, history
<1>  QED
  BY StepKinds, <1>3, <1>4, <1>5, <1>6, <1>8 DEF Inside

\* start_time and end_time enclose every payload of their session, for any number
\* of threads and of payloads, and with every fault.
THEOREM AnchorsEnclose ==
  ASSUME Client # "detached", MaxLives <= 1
  PROVE  Spec => []AnchorsCoverTraces
<1>1. Control /\ Waiting /\ Commits /\ Timed /\ Enclosed /\ [Next]_vars
        => Timed' /\ Enclosed'
  <2>  SUFFICES ASSUME Control, Waiting, Commits, Timed, Enclosed, [Next]_vars
                PROVE  Timed' /\ Enclosed'
    OBVIOUS
  <2>1. CASE \E t \in Thread : Step(t)
    BY <2>1, StepTimed, StepEnclosed
  <2>2. CASE Ends
    BY <2>2, EndsOnly, EndsTimed DEF disk, history, Enclosed, Committed
  <2>3. CASE UNCHANGED vars
    BY <2>3 DEF vars, globals, disk, history, Timed, StartedBefore, BuffersTimed,
       FlushedTimed, Since, Enclosed, Committed
  <2>  QED  BY <2>1, <2>2, <2>3, NextKinds
<1>2. Control /\ Waiting /\ Commits /\ Enclosed => AnchorsCoverTraces
  <2>  SUFFICES ASSUME Control, Waiting, Commits, Enclosed, Committed,
                       NEW t \in Thread, flushed[t] # << >>, NEW i \in DOMAIN bts[t]
                PROVE  metadata.start_time <= bts[t][i] /\ bts[t][i] <= metadata.end_time
    BY DEF AnchorsCoverTraces
  <2>1. pc[t] \notin InFlush
    BY CommittedPlaces DEF Worker, InFlush, InTearDown
  <2>2. bts[t] = flushed[t]
    BY <2>1 DEF Commits, Flushing, AllWritten
  <2>3. bts[t] \in Seq(Between(metadata.start_time, metadata.end_time))
    BY <2>2 DEF Enclosed
  <2>4. bts[t][i] \in Between(metadata.start_time, metadata.end_time)
    BY <2>3, ElementOfSeq, LenProperties
  <2>  QED  BY <2>4 DEF Between
<1>  QED  BY <1>1, <1>2, CommitInvariant, InitTimed, PTL DEF Spec

-----------------------------------------------------------------------------
(* The post-processor beside the process. *)

\* The process does not notice the post-processor.
LEMMA ProcessRuns == PipelineSpec => Spec
<1>1. PipelineInit => Init
  BY DEF PipelineInit
<1>2. [PipelineNext]_pipelineVars => [Next]_vars
  BY DEF PipelineNext, ProcessStep, LoaderStep, pipelineVars, vars
<1>  QED  BY <1>1, <1>2, PTL DEF PipelineSpec, Spec

\* ... which keeps its folder, and comes back to the place where it makes it only in
\* a new session.
LEMMA FolderStays ==
  ASSUME TypeOK, [Next]_vars
  PROVE  session' \in Nat /\ session' >= session /\ (HasFolder => HasFolder')
<1>1. session \in Nat /\ pc \in [Thread -> Place]
  BY DEF TypeOK
<1>2. CASE \E t \in Thread : Start(t)
  <2>1. session' = session + 1 /\ (HasFolder => session >= 1)
    BY <1>1, <1>2 DEF Start, HasFolder
  <2>  QED  BY <1>1, <2>1 DEF HasFolder
<1>3. CASE session' = session /\ (pc'[Main] = "folders" => pc[Main] = "folders")
  BY <1>1, <1>3 DEF HasFolder
<1>4. ASSUME NEW t \in Thread, Step(t), ~ Start(t)
      PROVE  session' = session /\ (pc'[Main] = "folders" => pc[Main] = "folders")
  <2>1. session' = session
    BY <1>4, StepKinds, LeavesOnly DEF Inside, ThreadInit, Mark, ThreadFinalize, End,
       BeginFlush, CreateFolders, MakeThread, CountThread, ProcReady,
       MakeThreadFolder, OpenTraces, WriteTraces, CloseTraces, OpenMetadata,
       WriteMetadata, ResetThread, UncountThread, ResetProc, ProcNotReady, history
  <2>2. pc' = pc \/ \E p : p # "folders" /\ pc' = [pc EXCEPT ![t] = p]
    BY <1>4, StepKinds, LeavesOnly DEF Inside, ThreadInit, Mark, ThreadFinalize, End,
       BeginFlush, CreateFolders, MakeThread, CountThread, ProcReady,
       MakeThreadFolder, OpenTraces, WriteTraces, CloseTraces, OpenMetadata,
       WriteMetadata, ResetThread, UncountThread, ResetProc, ProcNotReady, Goto,
       AfterFlush
  <2>  QED  BY <1>1, <2>1, <2>2, MainIsThread
<1>5. CASE Ends \/ UNCHANGED vars
  BY <1>3, <1>5, EndsOnly DEF vars, history
<1>  QED  BY <1>2, <1>3, <1>4, <1>5, NextKinds

\* The complete folder of a session stands still as long as the session lasts.
LEMMA StepKeepsFolder ==
  ASSUME Control, Waiting, Commits, [Next]_vars
  PROVE  /\ session' \in Nat /\ session' >= session
         /\ Committed /\ session' = session => Committed' /\ UNCHANGED << bts, metadata >>
<1>1. session \in Nat /\ session' \in Nat /\ session' >= session
  BY FolderStays DEF Control, TypeOK
<1>2. ASSUME Committed, session' = session
      PROVE  Committed' /\ UNCHANGED << bts, metadata >>
  BY <1>2, StepSeals DEF Committed, disk
<1>  QED  BY <1>1, <1>2

\* A sequence is one over its own elements.
LEMMA SeqOwnRange ==
  ASSUME NEW S, NEW s \in Seq(S)
  PROVE  s \in Seq({s[i] : i \in DOMAIN s})
<1>1. Len(s) \in Nat /\ DOMAIN s = 1 .. Len(s) /\ s \in [1 .. Len(s) -> S]
  BY LenProperties
<1>2. s \in [1 .. Len(s) -> {s[i] : i \in DOMAIN s}]
  BY <1>1
<1>  QED  BY <1>1, <1>2, SeqDef


-----------------------------------------------------------------------------
(* The walk over the folders, whatever the application does and however the *)
(* process ends: a folder stays where it is, so what is visited once can be *)
(* read.                                                                    *)

InProc == {"metadata", "threads", "read"}

\* The proc that is being filled is a new one.
ProcFresh ==
  /\ proc = [pid |-> proc.pid, metadata |-> proc.metadata, files |-> proc.files]
  /\ at \in InProc =>
       /\ proc.pid \in seen
       /\ \A i \in DOMAIN procs : procs[i].pid # proc.pid
  /\ at = "metadata" => proc.files = PostProcess!NoFiles

ProcsDistinct ==
  at # "over" =>
    /\ procs \in Seq({procs[i] : i \in DOMAIN procs})
    /\ \A i \in DOMAIN procs : procs[i].pid \in seen
    /\ \A i, j \in DOMAIN procs : procs[i].pid = procs[j].pid => i = j

\* A folder that was visited is there.
SeenExists == /\ seen \subseteq {Self, Neighbour}
              /\ Self \in seen => HasFolder
              /\ Neighbour \in seen => other # NoFolder

\* ... and was loaded, or is being loaded.
SeenRead ==
  at # "over" => seen = {procs[i].pid : i \in DOMAIN procs}
                          \cup (IF at \in InProc THEN {proc.pid} ELSE {})

OtherKinds == other \in {NoFolder, OtherKilled, OtherEnded}

Walks ==
  /\ PostProcess!TypeOK
  /\ ProcFresh /\ ProcsDistinct /\ SeenExists /\ SeenRead /\ OtherKinds
  /\ ProcsComplete

\* What the folder of the process looks like to the post-processor.
LEMMA OwnFolder ==
  /\ HasFolder => Tracr[Self] = [metadata |-> metadata, bts |-> bts]
  /\ ~ HasFolder => Tracr[Self] = NoFolder
  /\ Tracr[Neighbour] = other
  BY PipelineAssumption DEF Tracr

\* The files in a folder that was visited.
LEMMA SeenFolder ==
  ASSUME TypeOK, SeenExists, OtherKinds, NEW q \in seen
  PROVE  Tracr[q].bts \in [Thread -> Seq(Nat) \cup Absent]
<1>1. CASE q = Self
  BY <1>1, OwnFolder DEF SeenExists, TypeOK
<1>2. CASE q = Neighbour
  <2>1. << >> \in Seq(Nat) /\ << 0 >> \in Seq(Nat)
    OBVIOUS
  <2>2. /\ [NothingLeft EXCEPT ![Main] = << >>] \in [Thread -> Seq(Nat) \cup Absent]
        /\ [NothingLeft EXCEPT ![Main] = << 0 >>] \in [Thread -> Seq(Nat) \cup Absent]
    BY <2>1 DEF NothingLeft, Absent
  <2>3. other \in {OtherKilled, OtherEnded}
    BY <1>2 DEF SeenExists, OtherKinds
  <2>4. other.bts \in [Thread -> Seq(Nat) \cup Absent]
    <3>1. /\ OtherKilled.bts = [NothingLeft EXCEPT ![Main] = << >>]
          /\ OtherEnded.bts = [NothingLeft EXCEPT ![Main] = << 0 >>]
      BY DEF OtherKilled, OtherEnded
    <3>  QED  BY <2>2, <2>3, <3>1
  <2>  QED  BY <1>2, <2>4, OwnFolder
<1>  QED  BY <1>1, <1>2 DEF SeenExists

LEMMA InitWalks == PipelineInit => Walks
<1>  SUFFICES ASSUME PipelineInit PROVE Walks
  OBVIOUS
<1>1. /\ at = "base" /\ seen = {} /\ listed = {} /\ procs = << >> /\ result = "running"
      /\ proc = [pid |-> 0, metadata |-> NoFile, files |-> PostProcess!NoFiles]
      /\ listedTids = {} /\ count = 0 /\ tid = NoFolder
      /\ OtherKinds
  BY DEF PipelineInit, PostProcess!Init, PostProcess!EmptyProc, OtherKinds
<1>2. DOMAIN procs = {} /\ procs \in Seq({procs[i] : i \in DOMAIN procs})
  BY <1>1
<1>3. DOMAIN PostProcess!NoFiles = {}
  BY DEF PostProcess!NoFiles
<1>4. PostProcess!TypeOK
  BY <1>1, <1>2, <1>3 DEF PostProcess!TypeOK
<1>  QED  BY <1>1, <1>2, <1>4 DEF Walks, ProcFresh, ProcsDistinct,
     SeenExists, SeenRead, InProc, ProcsComplete, PostProcess!ProcsComplete

\* While the process runs.
LEMMA ProcessKeepsWalks ==
  ASSUME TypeOK, Walks, [Next]_vars, UNCHANGED << other, loader >>
  PROVE  Walks'
<1>1. HasFolder => HasFolder'
  BY FolderStays
<1>2. UNCHANGED << at, listed, seen, proc, listedTids, count, tid, procs, result >>
  BY DEF loader
<1>3. PostProcess!TypeOK'
  BY <1>2 DEF Walks, PostProcess!TypeOK
<1>4. ProcFresh' /\ ProcsDistinct' /\ SeenRead' /\ OtherKinds' /\ ProcsComplete'
  BY <1>2 DEF Walks, ProcFresh, ProcsDistinct, SeenRead, OtherKinds, ProcsComplete,
     PostProcess!ProcsComplete
<1>5. SeenExists'
  BY <1>1, <1>2 DEF Walks, SeenExists
<1>  QED  BY <1>3, <1>4, <1>5 DEF Walks

LEMMA AppendProc ==
  ASSUME NEW s, NEW p, s \in Seq({s[i] : i \in DOMAIN s})
  PROVE  /\ Append(s, p) \in Seq({Append(s, p)[i] : i \in DOMAIN Append(s, p)})
         /\ DOMAIN s = 1 .. Len(s) /\ Len(s) \in Nat
         /\ DOMAIN Append(s, p) = 1 .. Len(s) + 1
         /\ Append(s, p)[Len(s) + 1] = p
         /\ \A i \in DOMAIN s : Append(s, p)[i] = s[i]
<1>  DEFINE S == {s[i] : i \in DOMAIN s} \cup {p}
<1>1. s \in Seq(S)
  BY SeqOfMore
<1>2. /\ Len(s) \in Nat /\ DOMAIN s = 1 .. Len(s)
      /\ Append(s, p) \in Seq(S) /\ Len(Append(s, p)) = Len(s) + 1
      /\ Append(s, p)[Len(s) + 1] = p
      /\ \A i \in 1 .. Len(s) : Append(s, p)[i] = s[i]
  BY <1>1, AppendProperties, LenProperties
<1>3. DOMAIN Append(s, p) = 1 .. Len(s) + 1
  BY <1>2, LenProperties
<1>4. Append(s, p) \in Seq({Append(s, p)[i] : i \in DOMAIN Append(s, p)})
  BY <1>2, <1>3, SeqOwnRange
<1>  QED  BY <1>2, <1>3, <1>4

\* Sorting by pid: there are two procs at most.
\* Sorting by pid: there are two procs at most.
LEMMA Sorted ==
  ASSUME ProcsDistinct, SeenExists, at # "over"
  PROVE  LET sorted == PostProcess!SortedByPid
         IN  /\ DOMAIN sorted = DOMAIN procs
             /\ \A i \in DOMAIN procs : \E k \in DOMAIN procs : sorted[i] = procs[k]
             /\ \A k \in DOMAIN procs : \E i \in DOMAIN procs : sorted[i] = procs[k]
             /\ \A i, j \in DOMAIN procs : i < j => sorted[i].pid < sorted[j].pid
<1>  DEFINE n == Len(procs)
            Perm == [DOMAIN procs -> {procs[i] : i \in DOMAIN procs}]
            IsSorted(s) == \A i, j \in DOMAIN procs : i < j => s[i].pid < s[j].pid
            sorted == PostProcess!SortedByPid
<1>1. n \in Nat /\ DOMAIN procs = 1 .. n
  BY LenProperties DEF ProcsDistinct
<1>2. \A k \in 1 .. n : procs[k].pid \in {Self, Neighbour} /\ procs[k].pid \in Nat
  BY <1>1, PipelineAssumption DEF ProcsDistinct, SeenExists
<1>3. \A i, j \in 1 .. n : procs[i].pid = procs[j].pid => i = j
  BY <1>1 DEF ProcsDistinct
<1>4. n <= 2
  <2>  SUFFICES ASSUME n >= 3 PROVE FALSE
    BY <1>1
  <2>1. 1 \in 1 .. n /\ 2 \in 1 .. n /\ 3 \in 1 .. n
    BY <1>1
  <2>  QED  BY <1>2, <1>3, <2>1
<1>5. \E s \in Perm : IsSorted(s)
  <2>1. CASE n <= 1
    <3>1. [i \in DOMAIN procs |-> procs[i]] \in Perm
      OBVIOUS
    <3>2. IsSorted([i \in DOMAIN procs |-> procs[i]])
      BY <1>1, <2>1
    <3>  QED  BY <3>1, <3>2
  <2>2. CASE n = 2
    <3>1. /\ procs[1].pid # procs[2].pid
          /\ procs[1].pid \in Nat /\ procs[2].pid \in Nat
      BY <1>2, <1>3, <2>2
    <3>2. DOMAIN procs = {1, 2}
      BY <1>1, <2>2
    <3>  DEFINE s(lo, hi) == [i \in DOMAIN procs |-> IF i = 1 THEN procs[lo] ELSE procs[hi]]
    <3>3. s(1, 2) \in Perm /\ s(2, 1) \in Perm
      BY <3>2
    <3>4. procs[1].pid < procs[2].pid => IsSorted(s(1, 2))
      BY <3>2
    <3>5. procs[2].pid < procs[1].pid => IsSorted(s(2, 1))
      BY <3>2
    <3>  HIDE DEF s, IsSorted, Perm
    <3>  QED  BY <3>1, <3>3, <3>4, <3>5
  <2>  QED  BY <1>1, <1>4, <2>1, <2>2
<1>6. sorted \in Perm /\ IsSorted(sorted)
  BY <1>5 DEF PostProcess!SortedByPid
<1>7. /\ DOMAIN sorted = DOMAIN procs
      /\ \A i \in DOMAIN procs : \E k \in DOMAIN procs : sorted[i] = procs[k]
  <2>  HIDE DEF sorted
  <2>  QED  BY <1>6
<1>8. \A k \in DOMAIN procs : \E i \in DOMAIN procs : sorted[i] = procs[k]
  <2>  HIDE DEF sorted
  <2>1. CASE n <= 1
    BY <1>1, <1>7, <2>1
  <2>2. CASE n = 2
    <3>1. DOMAIN procs = {1, 2}
      BY <1>1, <2>2
    <3>2. PICK a \in {1, 2}, b \in {1, 2} : sorted[1] = procs[a] /\ sorted[2] = procs[b]
      BY <1>7, <3>1
    <3>3. a # b
      BY <1>2, <1>6, <2>2, <3>1, <3>2
    <3>  QED  BY <3>1, <3>2, <3>3
  <2>  QED  BY <1>1, <1>4, <2>1, <2>2
<1>  QED  BY <1>6, <1>7, <1>8

\* While the post-processor runs.
LEMMA LoaderKeepsWalks ==
  ASSUME TypeOK, Walks, UNCHANGED << vars, other >>, PostProcess!Next
  PROVE  Walks'
<1>1. /\ UNCHANGED << pc, session, other >>
      /\ HasFolder' = HasFolder
  BY DEF vars, history, HasFolder
<1>2. /\ ProcFresh /\ ProcsDistinct /\ SeenExists /\ SeenRead /\ OtherKinds
      /\ PostProcess!TypeOK
  BY DEF Walks
<1>3. OtherKinds'
  BY <1>1, <1>2 DEF OtherKinds
<1>4. result = "running" \/ at = "over"
  BY <1>2 DEF PostProcess!TypeOK
<1>5. CASE PostProcess!ListProcs
  <2>1. /\ UNCHANGED << seen, proc, listedTids, count, tid, procs, result >>
        /\ at = "base" /\ at' = "procs" /\ listed' \subseteq {Self, Neighbour}
    BY <1>5 DEF PostProcess!ListProcs, PostProcess!Goto, PostProcess!inProc
  <2>2. PostProcess!TypeOK'
    BY <1>2, <2>1 DEF PostProcess!TypeOK
  <2>  QED  BY <1>1, <1>2, <1>3, <1>4, <2>1, <2>2 DEF Walks, ProcFresh, ProcsDistinct,
       SeenExists, SeenRead, InProc, ProcsComplete, PostProcess!ProcsComplete
<1>6. CASE PostProcess!NextProc
  <2>1. PICK q \in {Self, Neighbour} \ seen :
          /\ Tracr[q] # NoFolder
          /\ seen' = seen \cup {q}
          /\ proc' = [pid |-> q, metadata |-> NoFile, files |-> PostProcess!NoFiles]
    BY <1>6 DEF PostProcess!NextProc, PostProcess!Exists, PostProcess!EmptyProc
  <2>2. /\ at = "procs" /\ at' = "metadata"
        /\ UNCHANGED << listed, listedTids, count, tid, procs, result >>
    BY <1>6 DEF PostProcess!NextProc, PostProcess!Goto
  <2>3. /\ q = Self => HasFolder
        /\ q = Neighbour => other # NoFolder
    BY <2>1, OwnFolder
  <2>4. SeenExists' /\ SeenRead'
    BY <1>1, <1>2, <2>1, <2>2, <2>3 DEF SeenExists, SeenRead, InProc
  <2>5. ProcFresh' /\ ProcsDistinct'
    BY <1>2, <2>1, <2>2 DEF ProcFresh, ProcsDistinct, InProc
  <2>6. DOMAIN proc'.files = {}
    BY <2>1 DEF PostProcess!NoFiles
  <2>7. PostProcess!TypeOK'
    BY <1>2, <2>1, <2>2, <2>6 DEF PostProcess!TypeOK
  <2>  QED
    BY <1>3, <1>4, <2>2, <2>4, <2>5, <2>7 DEF Walks, ProcsComplete, PostProcess!ProcsComplete
<1>7. CASE PostProcess!Fail
  <2>1. /\ at' = "over" /\ result' = "failed" /\ listed' = {} /\ seen' = {} /\ procs' = << >>
        /\ proc' = [pid |-> 0, metadata |-> NoFile, files |-> PostProcess!NoFiles]
        /\ listedTids' = {} /\ count' = 0 /\ tid' = NoFolder
    BY <1>7 DEF PostProcess!Fail, PostProcess!EmptyProc
  <2>2. DOMAIN proc'.files = {} /\ DOMAIN procs' = {}
    BY <2>1 DEF PostProcess!NoFiles
  <2>3. PostProcess!TypeOK'
    BY <2>1, <2>2 DEF PostProcess!TypeOK
  <2>  QED
    BY <1>3, <2>1, <2>3 DEF Walks, ProcFresh, ProcsDistinct, SeenExists, SeenRead,
       InProc, ProcsComplete, PostProcess!ProcsComplete
<1>8. CASE PostProcess!LoadMetadata
  <2>1. /\ at = "metadata" /\ at' = "threads"
        /\ UNCHANGED << listed, seen, count, tid, procs, result >>
        /\ proc' = [proc EXCEPT !.metadata = Tracr[proc.pid].metadata]
        /\ listedTids' \subseteq Thread
    BY <1>8 DEF PostProcess!LoadMetadata, PostProcess!Goto, PostProcess!walk,
       PostProcess!ThreadFolders
  <2>2. proc' = [pid |-> proc.pid, metadata |-> Tracr[proc.pid].metadata,
                 files |-> proc.files]
    BY <1>2, <2>1 DEF ProcFresh
  <2>3. PostProcess!TypeOK'
    BY <1>2, <2>1, <2>2 DEF PostProcess!TypeOK
  <2>  QED
    BY <1>1, <1>2, <1>3, <1>4, <2>1, <2>2, <2>3 DEF Walks, ProcFresh, ProcsDistinct,
       SeenExists, SeenRead, InProc, ProcsComplete, PostProcess!ProcsComplete
<1>9. CASE PostProcess!OpenTraces
  <2>1. /\ at = "threads" /\ at' = "read"
        /\ UNCHANGED << listed, seen, procs, proc, listedTids, result >>
        /\ tid' \in Thread \ DOMAIN proc.files
        /\ Tracr[proc.pid].bts[tid'] \notin Absent
        /\ count' = Len(Tracr[proc.pid].bts[tid'])
    BY <1>9 DEF PostProcess!OpenTraces, PostProcess!Goto, PostProcess!walk,
       PostProcess!ThreadFolders, PostProcess!UnreadFolders, Absent
  <2>2. Tracr[proc.pid].bts[tid'] \in Seq(Nat)
    BY <1>2, <2>1, SeenFolder DEF ProcFresh, InProc
  <2>3. count' \in Nat
    BY <2>1, <2>2, LenProperties
  <2>4. PostProcess!TypeOK'
    BY <1>2, <2>1, <2>3 DEF PostProcess!TypeOK
  <2>  QED
    BY <1>1, <1>2, <1>3, <1>4, <2>1, <2>4 DEF Walks, ProcFresh, ProcsDistinct,
       SeenExists, SeenRead, InProc, ProcsComplete, PostProcess!ProcsComplete
<1>10. CASE PostProcess!ReadTraces
  <2>1. /\ at = "read" /\ at' = "threads"
        /\ UNCHANGED << listed, seen, procs, listedTids, result >>
        /\ count' = 0 /\ tid' = NoFolder
    BY <1>10 DEF PostProcess!ReadTraces, PostProcess!Goto, PostProcess!walk
  <2>2. PICK files : /\ DOMAIN files = DOMAIN proc.files \cup {tid}
                     /\ proc' = [proc EXCEPT !.files = files]
    BY <1>10 DEF PostProcess!ReadTraces
  <2>3. proc' = [pid |-> proc.pid, metadata |-> proc.metadata, files |-> files]
    BY <1>2, <2>2 DEF ProcFresh
  <2>4. PostProcess!TypeOK'
    BY <1>2, <2>1, <2>2, <2>3 DEF PostProcess!TypeOK
  <2>  QED
    BY <1>1, <1>2, <1>3, <1>4, <2>1, <2>3, <2>4 DEF Walks, ProcFresh, ProcsDistinct,
       SeenExists, SeenRead, InProc, ProcsComplete, PostProcess!ProcsComplete
<1>11. CASE PostProcess!EndThreads
  <2>1. /\ at = "threads" /\ at' = "procs"
        /\ UNCHANGED << listed, seen, count, tid, result >>
        /\ procs' = Append(procs, proc) /\ listedTids' = {}
        /\ proc' = [pid |-> 0, metadata |-> NoFile, files |-> PostProcess!NoFiles]
    BY <1>11 DEF PostProcess!EndThreads, PostProcess!Goto, PostProcess!walk,
       PostProcess!EmptyProc
  <2>2. /\ procs' \in Seq({procs'[i] : i \in DOMAIN procs'})
        /\ DOMAIN procs = 1 .. Len(procs) /\ Len(procs) \in Nat
        /\ DOMAIN procs' = 1 .. Len(procs) + 1
        /\ procs'[Len(procs) + 1] = proc
        /\ \A i \in DOMAIN procs : procs'[i] = procs[i]
    <3>1. procs \in Seq({procs[i] : i \in DOMAIN procs})
      BY <1>2, <2>1 DEF ProcsDistinct
    <3>  QED  BY <2>1, <3>1, AppendProc
  <2>3. \A i \in DOMAIN procs' : (i \in DOMAIN procs /\ procs'[i] = procs[i])
                                   \/ (i = Len(procs) + 1 /\ procs'[i] = proc)
    BY <2>2
  <2>4. \A i \in DOMAIN procs : procs[i].pid # proc.pid
    BY <1>2, <2>1 DEF ProcFresh, InProc
  <2>5. seen = {procs[i].pid : i \in DOMAIN procs} \cup {proc.pid}
    BY <1>2, <2>1 DEF SeenRead, InProc
  <2>6. \A i \in DOMAIN procs' : procs'[i].pid \in seen
    BY <2>3, <2>5
  <2>7. \A i, j \in DOMAIN procs' : procs'[i].pid = procs'[j].pid => i = j
    BY <1>2, <2>1, <2>3, <2>4 DEF ProcsDistinct
  <2>8. seen = {procs'[i].pid : i \in DOMAIN procs'}
    <3>1. proc.pid \in {procs'[i].pid : i \in DOMAIN procs'}
      BY <2>2
    <3>2. {procs[i].pid : i \in DOMAIN procs} \subseteq {procs'[i].pid : i \in DOMAIN procs'}
      BY <2>2
    <3>  QED  BY <2>5, <2>6, <3>1, <3>2
  <2>9. ProcFresh' /\ ProcsDistinct' /\ SeenExists' /\ SeenRead'
    BY <1>1, <1>2, <2>1, <2>2, <2>6, <2>7, <2>8 DEF ProcFresh, ProcsDistinct, SeenExists,
       SeenRead, InProc
  <2>10. DOMAIN proc'.files = {}
    BY <2>1 DEF PostProcess!NoFiles
  <2>11. PostProcess!TypeOK'
    BY <1>2, <2>1, <2>6, <2>10 DEF PostProcess!TypeOK
  <2>  QED
    BY <1>3, <1>4, <2>1, <2>9, <2>11 DEF Walks, ProcsComplete, PostProcess!ProcsComplete
<1>12. CASE PostProcess!EndProcs
  <2>1. /\ at = "procs" /\ at' = "over" /\ result' = "ok"
        /\ UNCHANGED << listed, seen, proc, listedTids, count, tid >>
        /\ listed \subseteq seen
        /\ procs' = PostProcess!SortedByPid
    BY <1>12 DEF PostProcess!EndProcs, PostProcess!walk, PostProcess!inProc
  <2>2. /\ DOMAIN procs' = DOMAIN procs
        /\ \A i \in DOMAIN procs : \E k \in DOMAIN procs : procs'[i] = procs[k]
        /\ \A k \in DOMAIN procs : \E i \in DOMAIN procs : procs'[i] = procs[k]
        /\ \A i, j \in DOMAIN procs : i < j => procs'[i].pid < procs'[j].pid
    BY <1>2, <2>1, Sorted
  <2>3. \A i \in DOMAIN procs' : procs'[i].pid \in seen
    BY <1>2, <2>1, <2>2 DEF ProcsDistinct
  <2>4. listed' \subseteq {procs'[i].pid : i \in DOMAIN procs'}
    <3>1. listed \subseteq {procs[i].pid : i \in DOMAIN procs}
      BY <1>2, <2>1 DEF SeenRead, InProc
    <3>2. ASSUME NEW q \in listed
          PROVE  q \in {procs'[i].pid : i \in DOMAIN procs'}
      <4>1. PICK k \in DOMAIN procs : q = procs[k].pid
        BY <3>1
      <4>2. PICK i \in DOMAIN procs : procs'[i] = procs[k]
        BY <2>2
      <4>  QED  BY <2>2, <4>1, <4>2
    <3>  QED  BY <2>1, <3>2
  <2>5. PostProcess!TypeOK'
    BY <1>2, <2>1, <2>3 DEF PostProcess!TypeOK
  <2>  QED
    BY <1>1, <1>2, <1>3, <2>1, <2>2, <2>4, <2>5 DEF Walks, ProcFresh, ProcsDistinct,
       SeenExists, SeenRead, InProc, ProcsComplete, PostProcess!ProcsComplete
<1>  QED
  BY <1>5, <1>6, <1>7, <1>8, <1>9, <1>10, <1>11, <1>12 DEF PostProcess!Next,
     PostProcess!MetadataFails, PostProcess!NoTraces, PostProcess!ReadFails,
     PostProcess!NoProcs

LEMMA WalksInvariant == PipelineSpec => [](Control /\ Walks)
<1>1. Control => TypeOK
  BY DEF Control
<1>2. TypeOK /\ Walks /\ [PipelineNext]_pipelineVars => Walks'
  <2>  SUFFICES ASSUME TypeOK, Walks, [PipelineNext]_pipelineVars
                PROVE  Walks'
    OBVIOUS
  <2>1. CASE LoaderStep
    BY <2>1, LoaderKeepsWalks DEF LoaderStep
  <2>2. CASE ProcessStep \/ UNCHANGED pipelineVars
    BY <2>2, ProcessKeepsWalks DEF ProcessStep, pipelineVars
  <2>  QED  BY <2>1, <2>2 DEF PipelineNext
<1>  QED  BY <1>1, <1>2, InitWalks, ProcessRuns, ControlInvariant, PTL DEF PipelineSpec

\* The types of both programs, whatever the application does: the post-processor
\* reads nothing that is not there, and no file twice.
THEOREM PipelineTypes == PipelineSpec => []PipelineTypeOK
<1>1. Control /\ Walks => PipelineTypeOK
  BY DEF Control, Walks, PipelineTypeOK
<1>  QED  BY <1>1, WalksInvariant, PTL

\* Procs are numbered by pid, and none that was there is left out.
THEOREM LoadIsWhole == PipelineSpec => []ProcsComplete
<1>1. Walks => ProcsComplete
  BY DEF Walks
<1>  QED  BY <1>1, WalksInvariant, PTL

-----------------------------------------------------------------------------
(* What is loaded.  As long as the session of the metadata.json that was read   *)
(* lasts, its folder stands still and what was read from it stays true.     *)

\* p was read from the folder of the process; tids are its threads.
Faithful(p, tids) ==
  p.pid = Self =>
    /\ p.metadata.session \in Nat /\ p.metadata.session <= session
    /\ p.metadata.session = session =>
         /\ Committed
         /\ \A t \in DOMAIN p.files : p.files[t] = bts[t]
         /\ \A t \in Thread : bts[t] # NoFolder => t \in tids

ProcRead ==
  /\ at \in {"threads", "read"} => Faithful(proc, listedTids)
  /\ at = "read" =>
       (proc.pid = Self /\ proc.metadata.session = session =>
          bts[tid] \notin Absent /\ count = Len(bts[tid]))

ProcsRead == \A i \in DOMAIN procs : Faithful(procs[i], DOMAIN procs[i].files)

Loads == ProcRead /\ ProcsRead

LEMMA InitLoads == PipelineInit => Loads
<1>  SUFFICES ASSUME PipelineInit PROVE Loads
  OBVIOUS
<1>1. at = "base" /\ procs = << >>
  BY DEF PipelineInit, PostProcess!Init
<1>2. DOMAIN procs = {}
  BY <1>1
<1>  QED  BY <1>1, <1>2 DEF Loads, ProcRead, ProcsRead

\* While the process runs.
LEMMA ProcessKeepsLoads ==
  ASSUME Control, Waiting, Commits, Loads, [Next]_vars, UNCHANGED << other, loader >>
  PROVE  Loads'
<1>1. /\ session' \in Nat /\ session' >= session /\ session \in Nat
      /\ Committed /\ session' = session => Committed' /\ UNCHANGED << bts, metadata >>
  BY StepKeepsFolder DEF Control, TypeOK
<1>2. UNCHANGED << at, listed, seen, proc, listedTids, count, tid, procs, result >>
  BY DEF loader
<1>3. ASSUME at \in {"threads", "read"}, Faithful(proc, listedTids)
      PROVE  Faithful(proc, listedTids)'
  BY <1>1, <1>2, <1>3 DEF Faithful
<1>4. ProcRead'
  <2>1. proc.pid = Self /\ at = "read" /\ proc.metadata.session = session'
          => proc.metadata.session = session /\ bts' = bts
    BY <1>1 DEF Loads, ProcRead, Faithful
  <2>  QED  BY <1>2, <1>3, <2>1 DEF Loads, ProcRead
<1>5. ProcsRead'
  <2>1. ASSUME NEW i \in DOMAIN procs, Faithful(procs[i], DOMAIN procs[i].files)
        PROVE  Faithful(procs[i], DOMAIN procs[i].files)'
    BY <1>1, <1>2, <2>1 DEF Faithful
  <2>  QED  BY <1>2, <2>1 DEF Loads, ProcsRead
<1>  QED  BY <1>4, <1>5 DEF Loads

\* While the post-processor runs.
LEMMA LoaderKeepsLoads ==
  ASSUME Control, Commits, Walks, Loads, UNCHANGED << vars, other >>, PostProcess!Next
  PROVE  Loads'
<1>1. /\ UNCHANGED << pc, bts, metadata, session >>
      /\ Committed' = Committed
      /\ session \in Nat /\ bts \in [Thread -> Seq(Nat) \cup Absent]
  BY DEF vars, disk, history, Committed, Control, TypeOK
<1>2. ASSUME NEW p, NEW tids
      PROVE  Faithful(p, tids)' = Faithful(p, tids)
  BY <1>1 DEF Faithful
<1>3. ProcRead /\ ProcsRead
  BY DEF Loads
<1>4. /\ ProcFresh /\ ProcsDistinct /\ SeenExists /\ PostProcess!TypeOK
  BY DEF Walks
<1>5. at \in InProc /\ proc.pid = Self => Tracr[Self] = [metadata |-> metadata, bts |-> bts]
  BY <1>4, OwnFolder DEF ProcFresh, SeenExists
<1>6. ASSUME procs' = procs PROVE ProcsRead'
  BY <1>1, <1>3, <1>6 DEF ProcsRead, Faithful, Committed
<1>7. CASE PostProcess!ListProcs \/ PostProcess!NextProc
  <2>1. at' \in {"procs", "metadata"} /\ procs' = procs
    BY <1>7 DEF PostProcess!ListProcs, PostProcess!NextProc, PostProcess!Goto
  <2>  QED  BY <1>6, <2>1 DEF Loads, ProcRead
<1>8. CASE PostProcess!Fail
  <2>1. at' = "over" /\ procs' = << >>
    BY <1>8 DEF PostProcess!Fail
  <2>2. DOMAIN procs' = {}
    BY <2>1
  <2>  QED  BY <2>1, <2>2 DEF Loads, ProcRead, ProcsRead
<1>9. CASE PostProcess!LoadMetadata
  <2>1. /\ at = "metadata" /\ at' = "threads" /\ procs' = procs
        /\ proc' = [proc EXCEPT !.metadata = Tracr[proc.pid].metadata]
        /\ listedTids' = {t \in Thread : Tracr[proc.pid].bts[t] # NoFolder}
        /\ Tracr[proc.pid].metadata \notin {NoFile, Truncated}
    BY <1>9 DEF PostProcess!LoadMetadata, PostProcess!Goto,
       PostProcess!ThreadFolders, PostProcess!Unreadable
  <2>2. proc' = [pid |-> proc.pid, metadata |-> Tracr[proc.pid].metadata,
                 files |-> PostProcess!NoFiles]
    BY <1>4, <2>1 DEF ProcFresh
  <2>3. Faithful(proc, listedTids)'
    <3>  SUFFICES ASSUME proc.pid = Self
                  PROVE  Faithful(proc', listedTids')
      BY <1>1, <2>2 DEF Faithful, Committed
    <3>1. Tracr[Self] = [metadata |-> metadata, bts |-> bts]
      BY <1>5, <2>1 DEF InProc
    <3>2. metadata \in Metadata /\ metadata.session <= session
      BY <2>1, <3>1 DEF Control, TypeOK, Commits, NotCommitted
    <3>3. DOMAIN PostProcess!NoFiles = {}
      BY DEF PostProcess!NoFiles
    <3>  QED  BY <2>1, <2>2, <3>1, <3>2, <3>3 DEF Faithful, Committed, Metadata
  <2>  QED  BY <1>6, <2>1, <2>3 DEF Loads, ProcRead
<1>10. CASE PostProcess!OpenTraces
  <2>1. /\ at = "threads" /\ at' = "read" /\ UNCHANGED << procs, proc, listedTids >>
        /\ Tracr[proc.pid].bts[tid'] \notin {NoFile, NoFolder}
        /\ count' = Len(Tracr[proc.pid].bts[tid'])
    BY <1>10 DEF PostProcess!OpenTraces, PostProcess!Goto,
       PostProcess!ThreadFolders, PostProcess!UnreadFolders
  <2>2. Faithful(proc, listedTids)'
    BY <1>1, <1>3, <2>1 DEF ProcRead, Faithful, Committed
  <2>3. ProcRead'
    BY <1>1, <1>5, <2>1, <2>2 DEF ProcRead, InProc, Absent
  <2>  QED  BY <1>6, <2>1, <2>3 DEF Loads
<1>11. CASE PostProcess!ReadTraces
  <2>  DEFINE traces == SubSeq(Tracr[proc.pid].bts[tid], 1, count)
              files == [t \in DOMAIN proc.files \cup {tid} |->
                          IF t = tid THEN traces ELSE proc.files[t]]
  <2>1. /\ at = "read" /\ at' = "threads" /\ UNCHANGED << procs, listedTids >>
        /\ proc' = [proc EXCEPT !.files = files]
    BY <1>11 DEF PostProcess!ReadTraces, PostProcess!Goto
  <2>2. proc' = [pid |-> proc.pid, metadata |-> proc.metadata, files |-> files]
    BY <1>4, <2>1 DEF ProcFresh
  <2>3. proc.pid = Self /\ proc.metadata.session = session => traces = bts[tid]
    <3>  SUFFICES ASSUME proc.pid = Self, proc.metadata.session = session
                  PROVE  traces = bts[tid]
      OBVIOUS
    <3>1. Tracr[Self].bts = bts
      BY <1>5, <2>1 DEF InProc
    <3>2. tid \in Thread
      BY <1>4, <2>1 DEF PostProcess!TypeOK
    <3>3. count = Len(bts[tid]) /\ bts[tid] \in Seq(Nat)
      BY <1>1, <1>3, <2>1, <3>2 DEF ProcRead
    <3>  QED  BY <3>1, <3>3, SubSeqFull
  <2>  HIDE DEF traces
  <2>4. Faithful(proc, listedTids)'
    BY <1>1, <1>3, <2>1, <2>2, <2>3 DEF ProcRead, Faithful, Committed
  <2>  QED  BY <1>6, <2>1, <2>4 DEF Loads, ProcRead
<1>12. CASE PostProcess!EndThreads
  <2>1. /\ at = "threads" /\ at' = "procs"
        /\ listedTids \subseteq DOMAIN proc.files
        /\ procs' = Append(procs, proc)
    BY <1>12 DEF PostProcess!EndThreads, PostProcess!Goto
  <2>2. /\ DOMAIN procs' = 1 .. Len(procs) + 1
        /\ DOMAIN procs = 1 .. Len(procs) /\ Len(procs) \in Nat
        /\ procs'[Len(procs) + 1] = proc
        /\ \A i \in DOMAIN procs : procs'[i] = procs[i]
    BY <1>4, <2>1, AppendProc DEF ProcsDistinct
  <2>3. Faithful(proc, DOMAIN proc.files)
    BY <1>3, <2>1 DEF ProcRead, Faithful
  <2>4. \A i \in DOMAIN procs' : Faithful(procs'[i], DOMAIN procs'[i].files)
    BY <1>3, <2>2, <2>3 DEF ProcsRead
  <2>5. ProcsRead'
    BY <1>1, <2>4 DEF ProcsRead, Faithful, Committed
  <2>  QED  BY <2>1, <2>5 DEF Loads, ProcRead
<1>13. CASE PostProcess!EndProcs
  <2>1. at = "procs" /\ at' = "over" /\ procs' = PostProcess!SortedByPid
    BY <1>13 DEF PostProcess!EndProcs
  <2>2. /\ DOMAIN procs' = DOMAIN procs
        /\ \A i \in DOMAIN procs : \E k \in DOMAIN procs : procs'[i] = procs[k]
    BY <1>4, <2>1, Sorted
  <2>3. \A i \in DOMAIN procs' : Faithful(procs'[i], DOMAIN procs'[i].files)
    BY <1>3, <2>2 DEF ProcsRead
  <2>4. ProcsRead'
    BY <1>1, <2>3 DEF ProcsRead, Faithful, Committed
  <2>  QED  BY <2>1, <2>4 DEF Loads, ProcRead
<1>  QED
  BY <1>7, <1>8, <1>9, <1>10, <1>11, <1>12, <1>13 DEF PostProcess!Next,
     PostProcess!MetadataFails, PostProcess!NoTraces, PostProcess!ReadFails,
     PostProcess!NoProcs

LEMMA LoadsInvariant ==
  ASSUME Client # "detached", MaxLives <= 1
  PROVE  PipelineSpec => [](Control /\ Waiting /\ Commits /\ Walks /\ Loads)
<1>1. Control /\ Waiting /\ Commits /\ Walks /\ Loads /\ [PipelineNext]_pipelineVars => Loads'
  <2>  SUFFICES ASSUME Control, Waiting, Commits, Walks, Loads, [PipelineNext]_pipelineVars
                PROVE  Loads'
    OBVIOUS
  <2>1. CASE LoaderStep
    BY <2>1, LoaderKeepsLoads DEF LoaderStep
  <2>2. CASE ProcessStep \/ UNCHANGED pipelineVars
    BY <2>2, ProcessKeepsLoads DEF ProcessStep, pipelineVars
  <2>  QED  BY <2>1, <2>2 DEF PipelineNext
<1>  QED
  BY <1>1, InitLoads, WalksInvariant, ProcessRuns, CommitInvariant, PTL DEF PipelineSpec

\* Whenever the post-processor runs beside the process, what it loads of a session
\* that is still the last one is all that was flushed in it: the process writes the
\* traces before metadata.json, and the post-processor reads them after it.
THEOREM LoadIsFlush ==
  ASSUME Client # "detached", MaxLives <= 1
  PROVE  PipelineSpec => []LoadedIsFlushed
<1>1. Control /\ Waiting /\ Commits /\ Loads => LoadedIsFlushed
  <2>  SUFFICES ASSUME Control, Waiting, Commits, Loads, NEW i \in DOMAIN procs,
                       procs[i].pid = Self, procs[i].metadata.session = session,
                       NEW t \in Thread, flushed[t] # << >>
                PROVE  t \in DOMAIN procs[i].files /\ procs[i].files[t] = flushed[t]
    BY DEF LoadedIsFlushed
  <2>1. /\ Committed
        /\ \A u \in DOMAIN procs[i].files : procs[i].files[u] = bts[u]
        /\ \A u \in Thread : bts[u] # NoFolder => u \in DOMAIN procs[i].files
    BY DEF Loads, ProcsRead, Faithful
  <2>2. pc[t] \notin InFlush
    BY <2>1, CommittedPlaces DEF Worker, InFlush, InTearDown
  <2>3. bts[t] = flushed[t] /\ flushed[t] \in Seq(Nat)
    BY <2>2 DEF Commits, Flushing, AllWritten, Control, TypeOK
  <2>4. bts[t] # NoFolder
    BY <2>3, CoreAssumption DEF Absent
  <2>  QED  BY <2>1, <2>3, <2>4
<1>  QED  BY <1>1, LoadsInvariant, PTL

-----------------------------------------------------------------------------
(* A complete session is not refused. *)

\* A folder is without its file only on the way from mkdir to open.
NoStub == \A t \in Thread : bts[t] = NoFile => pc[t] = "open"

\* The session that was complete at the beginning still lasts.
Ready == begun > 0 /\ begun = session

ReadOther ==
  at = "read" /\ proc.pid = Neighbour =>
    other.bts[tid] # NoFile /\ other.bts[tid] # NoFolder /\ count = Len(other.bts[tid])

Served ==
  /\ begun \in Nat /\ begun <= session
  /\ Ready =>
       /\ Committed
       /\ at # "base"
       /\ at # "over" => Self \in listed
       /\ at \in {"threads", "read"} /\ proc.pid = Self =>
            proc.metadata.session = session
       /\ result = "failed" => other = OtherKilled

Serves == NoStub /\ ReadOther /\ Served

LEMMA InitServes == PipelineInit => Serves
<1>  SUFFICES ASSUME PipelineInit PROVE Serves
  OBVIOUS
<1>1. ReadOther /\ Served
  BY DEF PipelineInit, PostProcess!Init, ReadOther, Served, Ready, Init
<1>2. begun = 0 /\ bts = [t \in Thread |-> NoFolder] /\ pc = [t \in Thread |-> "out"]
  BY DEF PipelineInit, Init
<1>  QED  BY <1>1, <1>2, CoreAssumption DEF Serves, NoStub

LEMMA ProcessKeepsServes ==
  ASSUME Control, Waiting, Commits, Loads, Serves, [Next]_vars,
         UNCHANGED << other, loader, begun >>
  PROVE  Serves'
<1>1. /\ session' \in Nat /\ session' >= session /\ session \in Nat
      /\ Committed /\ session' = session => Committed'
  BY StepKeepsFolder DEF Control, TypeOK
<1>2. UNCHANGED << at, listed, seen, proc, listedTids, count, tid, procs, result >>
  BY DEF loader
<1>3. NoStub'
  <2>1. /\ pc \in [Thread -> Place] /\ bts \in [Thread -> Seq(Nat) \cup Absent]
        /\ NoStub /\ FileOpen
    BY DEF Control, TypeOK, Serves
  <2>2. ASSUME NEW t \in Thread, MakeThreadFolder(t) \/ OpenTraces(t) \/ WriteTraces(t)
        PROVE  NoStub'
    <3>1. \/ pc' = [pc EXCEPT ![t] = "open"] /\ \E b : bts' = [bts EXCEPT ![t] = b]
          \/ pc' = [pc EXCEPT ![t] = "write"] /\ bts' = [bts EXCEPT ![t] = << >>]
          \/ pc' = pc /\ bts' = [bts EXCEPT ![t] = SubSeq(Contents(t), 1, Len(@) + 1)]
               /\ tracrThread[t] # NoThread /\ Len(bts[t]) < Len(Contents(t))
               /\ bts[t] \in Seq(Nat)
      <4>1. CASE MakeThreadFolder(t)
        BY <4>1 DEF MakeThreadFolder, Goto
      <4>2. CASE OpenTraces(t)
        BY <4>2 DEF OpenTraces, Goto
      <4>3. CASE WriteTraces(t)
        BY <2>1, <4>3 DEF WriteTraces, At, FileOpen, Control, ThreadExists, ThreadPlace,
           InFlush
      <4>  QED  BY <2>2, <4>1, <4>2, <4>3
    <3>2. << >> # NoFile
      <4>1. << >> \in Seq(Nat)
        OBVIOUS
      <4>  QED  BY <4>1, CoreAssumption DEF Absent
    <3>3. (/\ bts[t] \in Seq(Nat) /\ tracrThread[t] # NoThread
           /\ Len(bts[t]) < Len(Contents(t)))
            => SubSeq(Contents(t), 1, Len(bts[t]) + 1) # NoFile
      <4>  SUFFICES ASSUME bts[t] \in Seq(Nat), tracrThread[t] # NoThread,
                           Len(bts[t]) < Len(Contents(t))
                    PROVE  SubSeq(Contents(t), 1, Len(bts[t]) + 1) # NoFile
        OBVIOUS
      <4>1. Contents(t) \in Seq(Nat)
        BY FlushShape DEF Contents, Control, BuffersGood
      <4>2. Len(bts[t]) \in Nat /\ Len(Contents(t)) \in Nat
        BY <4>1, LenProperties
      <4>3. \A i \in 1 .. Len(bts[t]) + 1 : Contents(t)[i] \in Nat
        BY <4>1, <4>2, ElementOfSeq
      <4>4. SubSeq(Contents(t), 1, Len(bts[t]) + 1) \in Seq(Nat)
        BY <4>1, <4>2, <4>3, SubSeqProperties
      <4>  QED  BY <4>4, CoreAssumption DEF Absent
    <3>4. ASSUME NEW u \in Thread, bts'[u] = NoFile
          PROVE  pc'[u] = "open"
      <4>1. CASE u # t
        BY <2>1, <3>1, <3>4, <4>1 DEF NoStub
      <4>2. CASE u = t
        BY <2>1, <3>1, <3>2, <3>3, <3>4, <4>2
      <4>  QED  BY <4>1, <4>2
    <3>  QED  BY <3>4 DEF NoStub
  <2>3. ASSUME NEW t \in Thread, Step(t),
               ~ MakeThreadFolder(t), ~ OpenTraces(t), ~ WriteTraces(t)
        PROVE  /\ bts' = bts
               /\ pc' = pc \/ (pc[t] # "open" /\ \E p : pc' = [pc EXCEPT ![t] = p])
    <3>1. bts' = bts
      BY <2>3, StepKinds, LeavesOnly DEF Inside, Start, ThreadInit, Mark, ThreadFinalize,
         End, BeginFlush, CreateFolders, MakeThread, CountThread, ProcReady, CloseTraces,
         OpenMetadata, WriteMetadata, ResetThread, UncountThread, ResetProc,
         ProcNotReady, disk
    <3>2. pc' = pc \/ \E p : pc' = [pc EXCEPT ![t] = p]
      BY <2>3, StepKinds, LeavesOnly DEF Inside, Start, ThreadInit, Mark, ThreadFinalize,
         End, BeginFlush, CreateFolders, MakeThread, CountThread, ProcReady, CloseTraces,
         OpenMetadata, WriteMetadata, ResetThread, UncountThread, ResetProc,
         ProcNotReady, Goto
    <3>3. pc' = pc \/ pc[t] # "open"
      BY <2>3, StepKinds, LeavesOnly DEF Inside, Start, ThreadInit, Mark, ThreadFinalize,
         End, Accepted, MayCall, At, CreateFolders, MakeThread, CountThread, ProcReady,
         CloseTraces, OpenMetadata, WriteMetadata, ResetThread, UncountThread, ResetProc,
         ProcNotReady
    <3>  QED  BY <3>1, <3>2, <3>3
  <2>4. CASE Ends \/ UNCHANGED vars
    BY <2>1, <2>4, EndsOnly DEF vars, disk, NoStub
  <2>  QED  BY <2>1, <2>2, <2>3, <2>4, NextKinds DEF NoStub
<1>4. Served'
  BY <1>1, <1>2 DEF Serves, Served, Ready
<1>  QED  BY <1>2, <1>3, <1>4 DEF Serves, ReadOther

\* The folders as the post-processor finds them while a complete session lasts.
LEMMA ReadyFolders ==
  ASSUME Control, Waiting, Commits, Committed, session > 0, NoStub
  PROVE  /\ HasFolder /\ metadata \in Metadata
         /\ \A t \in Thread : bts[t] # NoFile
<1>1. session \in Nat
  BY DEF Control, TypeOK
<1>2. \A t \in Thread : pc[t] \in InTearDown \cup {"out"}
  BY CommittedPlaces DEF Worker
<1>3. HasFolder
  BY <1>1, <1>2, MainIsThread DEF HasFolder, InTearDown
<1>4. \A t \in Thread : bts[t] # NoFile
  BY <1>2 DEF NoStub, InTearDown
<1>  QED  BY <1>3, <1>4 DEF Committed

LEMMA OtherEndedLoads ==
  /\ OtherEnded.metadata \in Metadata
  /\ \A t \in Thread : OtherEnded.bts[t] # NoFolder => OtherEnded.bts[t] = << 0 >>
  /\ << 0 >> \notin Absent /\ << 0 >> \in Seq(Nat)
<1>1. << 0 >> \in Seq(Nat)
  OBVIOUS
<1>2. OtherEnded.metadata \in Metadata
  BY DEF OtherEnded, Metadata
<1>3. \A t \in Thread : OtherEnded.bts[t] # NoFolder => OtherEnded.bts[t] = << 0 >>
  BY MainIsThread DEF OtherEnded, NothingLeft
<1>  QED  BY <1>1, <1>2, <1>3, CoreAssumption

LEMMA LoaderKeepsServes ==
  ASSUME Control, Waiting, Commits, Walks, Loads, Serves, LoaderStep
  PROVE  Serves'
<1>1. /\ UNCHANGED << pc, bts, metadata, session, other >>
      /\ Committed' = Committed /\ session \in Nat
      /\ bts \in [Thread -> Seq(Nat) \cup Absent]
  BY DEF LoaderStep, vars, disk, history, Committed, Control, TypeOK
<1>2. NoStub /\ ReadOther /\ Served
  BY DEF Serves
<1>3. /\ ProcRead /\ ProcFresh /\ SeenExists /\ SeenRead /\ OtherKinds
      /\ PostProcess!TypeOK
  BY DEF Loads, Walks
<1>4. /\ begun' = IF at = "base" /\ Committed THEN session ELSE begun
      /\ PostProcess!Next
  BY DEF LoaderStep
<1>5. at \in InProc => /\ proc.pid \in {Self, Neighbour}
                       /\ proc.pid = Self => Tracr[Self] = [metadata |-> metadata, bts |-> bts]
                       /\ proc.pid = Neighbour => other \in {OtherKilled, OtherEnded}
  BY <1>3, OwnFolder DEF ProcFresh, SeenExists, OtherKinds
<1>6. Ready => /\ HasFolder /\ metadata \in Metadata
               /\ \A t \in Thread : bts[t] # NoFile
  BY <1>2, ReadyFolders DEF Served, Ready
<1>7. NoStub'
  BY <1>1, <1>2 DEF NoStub
<1>8. CASE PostProcess!ListProcs
  <2>1. /\ at = "base" /\ at' = "procs" /\ result' = result
        /\ listed' = {q \in {Self, Neighbour} : Tracr[q] # NoFolder}
    BY <1>8 DEF PostProcess!ListProcs, PostProcess!Goto, PostProcess!Exists
  <2>2. Ready' => session > 0 /\ Committed
    BY <1>1, <1>2, <1>4, <2>1 DEF Ready, Served
  <2>3. Ready' => Self \in listed'
    <3>1. Ready' => HasFolder
      BY <1>2, <2>2, ReadyFolders
    <3>2. HasFolder => Tracr[Self] # NoFolder
      <4>1. [metadata |-> metadata, bts |-> bts]
              \in [metadata : Metadata \cup {NoFile, Truncated},
                   bts      : [Thread -> Seq(Nat) \cup Absent]]
        BY DEF Control, TypeOK
      <4>  QED  BY <4>1, OwnFolder, PipelineAssumption
    <3>  QED  BY <2>1, <3>1, <3>2
  <2>4. result' # "failed"
    BY <1>3, <2>1 DEF PostProcess!TypeOK
  <2>  QED  BY <1>1, <1>2, <1>4, <1>7, <2>1, <2>2, <2>3, <2>4 DEF Serves, Served, Ready, ReadOther
<1>9. CASE at # "base" /\ result' # "failed"
           /\ (PostProcess!NextProc \/ PostProcess!EndThreads \/ PostProcess!EndProcs)
  <2>1. begun' = begun /\ listed' = listed /\ at' \in {"metadata", "procs", "over"}
    BY <1>4, <1>9 DEF PostProcess!NextProc, PostProcess!EndThreads, PostProcess!EndProcs,
       PostProcess!Goto, PostProcess!walk
  <2>2. at # "over"
    BY <1>9 DEF PostProcess!NextProc, PostProcess!EndThreads, PostProcess!EndProcs
  <2>  QED  BY <1>1, <1>2, <1>7, <1>9, <2>1, <2>2 DEF Serves, Served, Ready, ReadOther
<1>10. CASE PostProcess!LoadMetadata
  <2>1. /\ at = "metadata" /\ at' = "threads" /\ listed' = listed /\ result' = result
        /\ proc' = [proc EXCEPT !.metadata = Tracr[proc.pid].metadata]
    BY <1>10 DEF PostProcess!LoadMetadata, PostProcess!Goto, PostProcess!walk
  <2>2. proc' = [pid |-> proc.pid, metadata |-> Tracr[proc.pid].metadata,
                 files |-> proc.files]
    BY <1>3, <2>1 DEF ProcFresh
  <2>3. begun' = begun
    BY <1>4, <2>1
  <2>4. proc'.pid = Self /\ Ready => proc'.metadata.session = session
    BY <1>2, <1>5, <2>1, <2>2 DEF InProc, Served, Committed
  <2>  QED  BY <1>1, <1>2, <1>7, <2>1, <2>3, <2>4 DEF Serves, Served, Ready, ReadOther
<1>11. CASE PostProcess!OpenTraces
  <2>1. /\ at = "threads" /\ at' = "read" /\ UNCHANGED << listed, proc, result >>
        /\ Tracr[proc.pid].bts[tid'] \notin {NoFile, NoFolder}
        /\ count' = Len(Tracr[proc.pid].bts[tid'])
    BY <1>11 DEF PostProcess!OpenTraces, PostProcess!Goto, PostProcess!walk,
       PostProcess!ThreadFolders, PostProcess!UnreadFolders
  <2>2. ReadOther'
    BY <1>1, <2>1, OwnFolder DEF ReadOther
  <2>  QED  BY <1>1, <1>2, <1>4, <1>7, <2>1, <2>2 DEF Serves, Served, Ready
<1>12. CASE PostProcess!ReadTraces
  <2>1. /\ at = "read" /\ at' = "threads" /\ UNCHANGED << listed, result >>
        /\ \E files : proc' = [proc EXCEPT !.files = files]
    BY <1>12 DEF PostProcess!ReadTraces, PostProcess!Goto, PostProcess!walk
  <2>2. proc'.pid = proc.pid /\ proc'.metadata = proc.metadata
    BY <1>3, <2>1 DEF ProcFresh
  <2>  QED  BY <1>1, <1>2, <1>4, <1>7, <2>1, <2>2 DEF Serves, Served, Ready, ReadOther
<1>13. CASE PostProcess!MetadataFails
  <2>1. at = "metadata" /\ Tracr[proc.pid].metadata \in {NoFile, Truncated}
    BY <1>13 DEF PostProcess!MetadataFails, PostProcess!Unreadable
  <2>2. Ready => other = OtherKilled
    BY <1>5, <1>6, <2>1, OwnFolder, OtherEndedLoads, CoreAssumption DEF InProc
  <2>3. at' = "over" /\ begun' = begun
    BY <1>4, <1>13, <2>1 DEF PostProcess!MetadataFails, PostProcess!Fail
  <2>  QED  BY <1>1, <1>2, <1>7, <2>1, <2>2, <2>3 DEF Serves, Served, Ready, ReadOther
<1>14. CASE PostProcess!NoTraces
  <2>1. at = "threads"
    BY <1>14 DEF PostProcess!NoTraces
  <2>2. PICK t \in Thread : Tracr[proc.pid].bts[t] = NoFile
    BY <1>14 DEF PostProcess!NoTraces, PostProcess!UnreadFolders, PostProcess!ThreadFolders
  <2>3. Ready => other = OtherKilled
    <3>1. ASSUME proc.pid = Neighbour, other = OtherEnded
          PROVE  FALSE
      BY <2>2, <3>1, OwnFolder, OtherEndedLoads, CoreAssumption DEF Absent
    <3>  QED  BY <1>5, <1>6, <2>1, <2>2, <3>1 DEF InProc
  <2>4. at' = "over" /\ begun' = begun
    BY <1>4, <1>14, <2>1 DEF PostProcess!NoTraces, PostProcess!Fail
  <2>  QED  BY <1>1, <1>2, <1>7, <2>1, <2>3, <2>4 DEF Serves, Served, Ready, ReadOther
<1>15. CASE PostProcess!ReadFails
  <2>1. at = "read" /\ Len(Tracr[proc.pid].bts[tid]) < count
    BY <1>15 DEF PostProcess!ReadFails
  <2>2. Ready => other = OtherKilled
    <3>1. ASSUME proc.pid = Neighbour, other = OtherEnded
          PROVE  FALSE
      <4>1. tid \in Thread /\ other.bts[tid] # NoFolder /\ count = Len(other.bts[tid])
        BY <1>2, <1>3, <2>1, <3>1 DEF PostProcess!TypeOK, ReadOther
      <4>2. other.bts[tid] \in Seq(Nat)
        BY <3>1, <4>1, OtherEndedLoads
      <4>3. count \in Nat /\ Tracr[proc.pid] = other
        BY <3>1, <4>1, <4>2, OwnFolder, LenProperties
      <4>  QED  BY <2>1, <4>1, <4>3
    <3>2. ASSUME proc.pid = Self, Ready
          PROVE  FALSE
      <4>1. tid \in Thread /\ bts[tid] \notin Absent /\ count = Len(bts[tid])
        BY <1>2, <1>3, <2>1, <3>2 DEF PostProcess!TypeOK, ProcRead, Served
      <4>2. count \in Nat /\ Tracr[proc.pid].bts = bts
        BY <1>1, <1>5, <2>1, <3>2, <4>1, LenProperties DEF InProc
      <4>  QED  BY <2>1, <4>1, <4>2
    <3>  QED  BY <1>5, <2>1, <3>1, <3>2 DEF InProc
  <2>3. at' = "over" /\ begun' = begun
    BY <1>4, <1>15, <2>1 DEF PostProcess!ReadFails, PostProcess!Fail
  <2>  QED  BY <1>1, <1>2, <1>7, <2>1, <2>2, <2>3 DEF Serves, Served, Ready, ReadOther
<1>16. CASE PostProcess!NoProcs
  <2>1. at = "procs" /\ listed \subseteq seen /\ procs = << >>
    BY <1>16 DEF PostProcess!NoProcs
  <2>2. Self \notin listed
    BY <1>3, <2>1 DEF SeenRead, InProc
  <2>3. at' = "over" /\ begun' = begun
    BY <1>4, <1>16, <2>1 DEF PostProcess!NoProcs, PostProcess!Fail
  <2>  QED  BY <1>1, <1>2, <1>7, <2>1, <2>2, <2>3 DEF Serves, Served, Ready, ReadOther
<1>17. PostProcess!NextProc \/ PostProcess!EndThreads \/ PostProcess!EndProcs
         => at # "base" /\ result' # "failed"
  BY <1>3 DEF PostProcess!TypeOK, PostProcess!NextProc, PostProcess!EndThreads,
     PostProcess!EndProcs, PostProcess!Goto
<1>  QED
  BY <1>4, <1>8, <1>9, <1>10, <1>11, <1>12, <1>13, <1>14, <1>15, <1>16, <1>17
     DEF PostProcess!Next

\* A session whose metadata.json was complete when the post-processor began, and
\* that lasts, is loaded: only the remains of another process make it give up.
THEOREM CompleteLoads ==
  ASSUME Client # "detached", MaxLives <= 1
  PROVE  PipelineSpec => []CompleteSessionLoads
<1>1. Control /\ Waiting /\ Commits /\ Walks /\ Loads /\ Serves
        /\ [PipelineNext]_pipelineVars
        => Serves'
  <2>  SUFFICES ASSUME Control, Waiting, Commits, Walks, Loads, Serves,
                       [PipelineNext]_pipelineVars
                PROVE  Serves'
    OBVIOUS
  <2>1. CASE LoaderStep
    BY <2>1, LoaderKeepsServes
  <2>2. CASE ProcessStep \/ UNCHANGED pipelineVars
    BY <2>2, ProcessKeepsServes DEF ProcessStep, pipelineVars
  <2>  QED  BY <2>1, <2>2 DEF PipelineNext
<1>2. Serves => CompleteSessionLoads
  BY DEF Serves, Served, Ready, CompleteSessionLoads
<1>  QED  BY <1>1, <1>2, InitServes, LoadsInvariant, PTL DEF PipelineSpec

=============================================================================
