# TraCR in TLA+

This directory holds TLA+ models of TraCR, a header-only tracing library for
C++ and Python programs and its post-processor, the TLC instances that check
them and the proofs TLAPS checks. All paths below are relative to the root of
the repository.

## 1. Inventory

TraCR is two programs that meet in a directory. An instrumented process records
into per-thread buffers and writes `proc.<pid>/thread.<tid>/traces.bts` and
`proc.<pid>/metadata.json`; later `tracr_process` reads these folders and
writes a Perfetto file, Paraver files or a dump to the terminal.

| Component | State | Operations | Module |
|---|---|---|---|
| Trace buffer: `class TraCRThread` (`src/include/tracr/marker_management_engine.hpp`) | `_traces` (array of `CAPACITY`), `_traceIdx` (never wraps) | `store_trace` under one of three policies, `flush_traces` | `TraceBuffer`, abstract: `BoundedLog` |
| Recording thread (`src/include/tracr/tracr_core.hpp`) | thread-local `tracrThread`; global `enable_tracr` | `THREAD_INIT`, `MARK_SET`, `MARK_RESET`, `FLOW_START`, `FLOW_END`, `ON`, `OFF`, `THREAD_FINALIZE`, the debug dump | `TracrIds`, `TracrPayload`, `TracrThread` |
| Process lifecycle (same files) | globals `tracrProc`, `num_tracr_threads`, `tracr_proc_init`; the folder on disk | `START`, `THREAD_INIT`, marks, `THREAD_FINALIZE`, `END` of several threads | `TracrCore` |
| Marker registry and metadata: the other part of `class TraCRProc` | `_markerTypes`, `_markerLabels`, `_markerColorIds`, `_json_file`, `json_is_ready`, global `lazy_colorId` | `MARK_W_COLOR_ADD`, `MARK_ADD`, `ADD_CHANNEL_NAMES`, `ADD_NUM_CHANNELS`, `GET_JSON_STR`, `dump_JSON` in `END`; `extract_channel_info` of the post-processor | `Markers`, `Channels` |
| Clock: `NanoTimer` | none, or a calibrated frequency | `now()`, `ticks_to_ns()` | `NanoTimer`, `CounterThread`; inside `TracrThread` and `TracrCore` |
| Payload merge: `class PayloadMerger` (`src/postprocessing/tracr_process.cpp`) | file pointers, a priority queue | constructor, `empty`, `next` | `PayloadMerger`, `Merge`, abstract: `SortedMerge` |
| Loader (same file) | the procs, the iterators over two levels of folders | `extract_bts_metadata`, `load_metadata_json`, `load_thread_traces`, `load_bts_file`, `extract_sync_anchors` | `Loader`, `ProcData` |
| Perfetto writer (same file) | `prev_payloads` per channel, the output file | `perfetto`, `validate_last_events_for_perfetto` | `Perfetto` |
| Paraver writer (same file) | records, flow ends, arrows, the output file | `paraver`, `create_tracr_prv` | `Paraver` |
| Terminal dump (same file) | `channelIds_check`, `extraIds_check`, `event_counts` | `dump_info` | `Dump` |
| Example `src/examples/tracr/flow.cpp` | two processes, two pipes | send, receive | `MessageFlow` |
| Macros, Python bindings, other examples, tests | none of their own | aliases, straight-line callers | read, not modelled |
| `src/extern/nlohmann` | third party | | not modelled |

How they interact. The threads of a process share three globals without a lock: a
plain pointer (`tracrProc`) written by main and read by every finalizing thread, an
atomic counter and an atomic flag. A thread that gives up calls `std::exit`, which
destroys `tracrProc` while the others run on. The buffers are thread-local. What the
threads have in common otherwise is the folder. The post-processor sees only the
folder; it relies on three things the library has to provide: each `traces.bts` is
in time order, the anchors in `metadata.json` enclose the timestamps, and the label
table covers the event ids. Nothing keeps it from running while the process still
writes.

How the modules are composed:

    TraceBuffer --- TracrThread --- CounterThread (clock: NanoTimer)
          \-------- TracrCore ----- Pipeline ------- Loader
    Markers ------- Channels
    PayloadMerger - Merge --------- Dump
          \-------- Perfetto
          \-------- Paraver ------- MessageFlow

What is hard here:

* `END` checks `num_tracr_threads` once; a registration is several steps.
* A ring buffer whose index is an ever-growing counter and which is written out
  in two pieces; a full buffer that drops, or ends the process.
* A process that is killed, or exits on an I/O error or a full buffer, at any
  point of the flush; files of an earlier session in the same folder.
* `std::exit` in one thread while others are inside the library.
* Output streams nobody looks at after they were opened.
* A 16-bit colour counter that wraps and outlives sessions; JSON tables that are
  partly replaced and partly merged.
* A post-processor that reads two levels of folders while somebody writes them.
* Equal timestamps across files; channels shared by threads; unsigned
  subtraction of anchors; flows whose ends lie in different procs.

`PROJECT.json` lists each hazard at its line with the properties that cover it.

## 2. The modules

**TracrIds, TracrPayload.** The reserved event ids at the top of the 16-bit range
and the payload the four marker calls build. The width is the constant
`UInt16Max`, so the reserved range is reached with five ids.

**TraceBuffer** is a library of operators on a value `[traces, traceIdx]`:
`StoreTrace` is `store_trace`, `FlushTraces` the contents `flush_traces` gives
the file, `Aborts` the exit of the default policy. `Unset` is an array slot
nobody wrote. It is used by both modules below.

**TracrThread** is one thread with complete payloads: every call is an action.
`Now` is the clock: it does not go back, and two calls may read the same
nanosecond (`CLOCK_MONOTONIC_RAW`). `ThreadInitAgain` and `ThreadFinalizeAgain` are the
two exits on a call out of order. `BoundedLog` says what the thread promises (a
log that pushes out, drops or fails), and `LogSpec` is the refinement: the log is
what a flush at this moment would write.

**NanoTimer, CounterThread.** In a build with `USE_HW_COUNTER` the clock is a counter,
and `TicksToNs` is the 64-bit arithmetic that makes nanoseconds of it. The counter
runs on its own (`Tick`); a marker call (`MarkAt`) reads it. `ClockSpec` says that this
thread implements `TracrThread` with its abstract clock. The width of the
arithmetic, the frequency and the nanoseconds of a second are constants.

**TracrCore** is the whole process. `pc` says where each thread is within a call,
and every access to a global or the disk is a step of its own:

| Call | Steps, in the code's order |
|---|---|
| `START` | `Start` (refuse / new proc), `CreateFolders`, `MakeThread`, `CountThread`, `ProcReady` |
| `THREAD_INIT` | `ThreadInit`, `MakeThread`, `CountThread` |
| a mark | `Mark` |
| `THREAD_FINALIZE` | `ThreadFinalize`, `MakeThreadFolder`, `OpenTraces`, `WriteTraces` (one payload at a time: any prefix may remain), `CloseTraces`, `ResetThread`, `UncountThread` |
| `END` | `End`, the same flush, `OpenMetadata`, `WriteMetadata`, `ResetThread`, `UncountThread`, `ResetProc`, `ProcNotReady` |

A payload is its timestamp here, and each reading of the clock is a new value.
`Kill` is the end of the process from outside. The library itself gives up in three
ways, each of which is a call of `std::exit` by one thread (`exit` says which
thread, and why): `Refuse`, the refusal of a call ("misused" if the call was out of
order for the application, "refused" if not); `FailIO`, after a `mkdir`, an open or a
write that failed; and the full buffer of the abort policy in `Mark`. The thread
makes no further step. The others do, while `DestroyProc` runs the destructor
of `tracrProc` and `ExitProcess` ends the process (`status` "ended"). A thread that
reads a `tracrProc` that is reset or destroyed takes `UseUndefined`, and nothing is
said of what the process does after it (`status` "undefined").

What the application does is the constant `Client`: "joined" waits for every
worker before `END`, as `src/examples/tracr/pthread.cpp` does; "started" only
knows that no `THREAD_INIT` is under way or to come; "detached" does not wait.
The library has no code that enforces any of these; the three clients show what
its own check is worth in each case.

**Markers** is the registry of one process over several sessions, and what
`metadata.json` says of it. One thread registers, as the comment at
`tracr_core.hpp:233` demands.

**Channels** adds the two fields of the JSON object about channels, which are written
by two calls and dumped as they are, and `NumChannels`, which is how the
post-processor reads them. A list of names is its length. `declarations` is history: the
calls of the session in their order, from which `LastNamesDecide` says what the
post-processor shall read.

**Loader** is the first half of the post-processor. `ListProcs` and `NextProc` are the
iteration over `tracr/`, `LoadMetadata`, `OpenTraces` and `ReadTraces` what it does in a
proc folder (the size of a file is read before its contents, so these are two
steps), `MetadataFails`, `NoTraces`, `ReadFails` and `NoProcs` its failures, `EndProcs` the
sort by pid. A directory is listed in no order; an entry that is made during
the iteration may be visited or not. The folder is a variable it only reads.

**Pipeline** puts a `TracrCore` process and a `Loader` on one folder, beside the folder
of a neighbour that is whole, that was left by a killed process, or that does
not exist. The two programs interleave step by step.

**PayloadMerger** is a library of operators on `[ptrs, heap]`; the heap is a set,
`Tops` its possible tops (a `priority_queue` does not order equal timestamps).
**Merge** is the loop that all three consumers run over it, **SortedMerge** what a
merge promises.

**Dump** extends `Merge` with the three tables of `dump_info` (`DumpFlow`,
`DumpSetOrReset`) and the two reports on channels.

**ProcData** is what the loader hands to the writers, with the anchors it derives
(`SyncStart`, `SyncEnd`) and 64-bit subtraction. `ProcAssumption` says of it what the types
of `struct ProcData` say, and that each file is in time order, which is what
`FilesSorted` shows of the library.

**Perfetto** is the writer of `perfetto.json` from `Open` to `Close`: for each proc
`BeginProc`, one `MergeStep` per payload (`OutOfBounds`, `Flow`, `SetOrReset`,
`NoLabel`), then `EndProc` with the warning. `NoLabel` is the read past the end of
`markerLabels`. `good` is the state of the output stream, which nobody looks at:
after `WriteFails` the writer goes on and reports success (`traceEvents` is then
what it handed to the stream, and not what is in the file). `merged` is history: the
payloads in the order of the merge, each with the file and the place it is from,
which is what the slices are compared with. `Complete` does not use it: it compares
the events with the input files.

**Paraver** is the writer of `tracr.prv`: one `MergeStep` per payload collects sets
and resets in `records` and flow payloads per flow id; `SortAndPair` is the three
sorts and the pairing (`std::sort` may order equal times as it likes, so it is a
choice; `std::stable_sort` is not); then one step per line written, with `good` and
`WriteFails` as in `Perfetto`. `.pcf` and
`.row` appear as files that may not open. `NoColor` is the read past the end of
`markerColorIds`. The file and the place of a record are history: `StatesKept` and
`MessagesDrawn` say by them which payload a line is.

**MessageFlow** is `flow.cpp`: a sender and a receiver, each a TraCR process of its own,
with a token pipe and a message pipe, and the Paraver writer on the two files
when both are through. `sender` says which of them has the lower pid. Each step
is a call of the example: a pipe operation or a TraCR call.

`*Proofs` hold theorems, `MC*` what TLC needs in addition.

Operators under a comment "Faulty variant" belong to no specification. Each is
what the definition below it would be with a plausible bug; put in its place, it
makes a property fail (`mutants` in `PROJECT.json`).

## 3. The runs that pass

| Run | What it shows |
|---|---|
| `thread_periodic` | Array and index are the bounded log of `BoundedLog`, and a file is in time order, also after several wraps. (The other two policies do not wrap; `pipeline_faults` runs with "abort", and the proofs hold for all three.) The clock is the converted hardware counter, and `ClockSpec` shows that it is as good as the clock `TracrThread` assumes: the multiplication would overflow for all but the first ticks, the split one does not, and it does not go back at the boundary of a second. |
| `core_joined` | Two sessions with two workers that main waits for, under fairness, with I/O errors, kills and calls out of order that may happen and need not: the counter is exact in every interleaving, the anchors enclose the payloads, and each session is ended with a complete `metadata.json` in every behaviour without a fault, and unless the fault ends the process in the others. |
| `pipeline_faults` | A worker main does not wait for ("started"), over two sessions, with I/O errors, a full buffer under the abort policy, calls out of order and a kill at any step; and the post-processor at any moment. The counter check alone keeps `END` alone, and no thread finds `tracrProc` reset by it (`NoUseAfterReset`; that a thread finds it destroyed by the `std::exit` of another is possible, see section 4); a complete `metadata.json` vouches for all files of its session, and then nothing changes any more. Hence what the post-processor loads of a session is what was flushed in it (`LoadedIsFlushed`), although neither program locks: one writes the metadata last, the other reads it first. A session that was complete when it began is not refused, unless the neighbour is broken (`CompleteSessionLoads`), and no folder is left out in silence (`ProcsComplete`). |
| `markers_registry` | All mixtures of chosen and automatic colours up to the last event id, over two sessions, with channel declarations and JSON requests in between: ids, labels and colours agree in the registry and the file, and the number of channels the writers see is that of the last list of names of the session, or without one that of the last number (`LastNamesDecide`): a number after names counts for nothing, and a declaration after a JSON request is not too late. |
| `dump_report` | The dump of two threads that may share a channel, and of three that have one each, with at most two payloads per thread and three timestamps: heap, order, completeness and termination of the merge; the channels reported are those with unequal numbers of sets and resets, and the histogram is that of the files. |
| `perfetto_writer` | Two kinds of input. One proc whose two threads share two channels, with sets, resets and flow payloads: the slices of a channel are the ones its payloads define, whichever threads they come from; the warning is exact if no channel is shared. Two procs with channels out of range, missing labels, and anchors that are missing or enclose too little: no time wraps, and a file that is reported as written, and to which no write failed, has the event of every flow payload and of every set, as often as they were recorded, but for one latest set of a channel at most (`Complete`). |
| `paraver_writer` | Three kinds of input. Two processes that exchange two messages as `flow.cpp` does, in every interleaving and with every pattern of equal times: one arrow per message, from within its send event to within its receive event (`MessagesDrawn`), and none drawn further back in time than the delay between the two STARTs (`ArrowsPointForward`). Two procs with flows within and between them, with equal times, lost ends and two ids; and two threads on one channel with anchors that do not fit. The file is in time order and on the timeline its header announces, each thread's order is kept through the sort (unless a write failed), the arrows of a flow id do not cross, and every end of a flow is drawn or counted as unmatched. |

## 4. What disagrees with the documentation

Each is a run with a counterexample; `findings` in `PROJECT.json` has the lines.

| Run | Property | What happens |
|---|---|---|
| `thread_dump` | `DumpShowsBuffer` | The debug dump of a wrapped periodic buffer takes `_traceIdx` for a length and reads past the array. |
| `core_detached` | `OnlyThisThread` | A thread that registers after `END`'s check runs beside `END`. |
| `core_relife` | `TracesKept` | A thread initialised twice in a session keeps the second half only. |
| `markers_stale` | `LabelsAuthoritative` | A marker registered after `GET_JSON_STR` has no label in `metadata.json`. |
| `dump_extra` | `PushPopNotReported` | A reset carries `UINT32_MAX` and not the id of the set it closes, so the toggled set never becomes empty: the dump lists a channel with one set and one reset among those that do not follow push and pop for the extra ids. |

The models show some more that no run is kept for. `INSTRUMENTATION_IS_PROC_READY()`
is true for a moment after the proc was destroyed (between `ResetProc` and
`ProcNotReady`). A second session leaves the files of the first one beside its own
anchors; the post-processor repairs this by looking at the payloads
(`TimesWithinSession`). A failed write of `metadata.json` goes unnoticed
(`WriteMetadata`), and so does one of `perfetto.json` or `tracr.prv`, which are reported as
"written successfully" all the same (`WriteFails`; `tracr.pcf` and `tracr.row` are written
alike). A thread may read a `tracrProc` that the `std::exit` of another thread has
destroyed: an `END` that is refused because a worker is registered does this to
the worker's `THREAD_FINALIZE`, and an I/O error or the abort policy does it to any
other thread (`UseUndefined`). `MARK_ADD` exits when its next colour was chosen by the
application, although others are free (`MarkAddTaken`). A thread may be
warned of a lost event that another thread closed, and a thread whose last event
is the reset of one channel is not warned of the event it left open on another:
the warning looks at threads, the loss is per channel. A second session that
is killed leaves the complete `metadata.json` of the first one beside files of
both, and the post-processor loads them. And one folder of a killed process
makes it refuse the whole of `tracr/`.

Two properties show that a doubt is unfounded: `LazyNeverCollides` (the colour
counter wraps, but never meets its own colours) and `TimesWithinSession` (stale
or missing anchors are repaired by `extract_sync_anchors`, so no subtraction
wraps). A third is `LoadedIsFlushed`: post-processing a running process loads a
whole session or nothing.

## 5. Bounds

| Bound | Value | Why it is enough |
|---|---|---|
| `Capacity` | 2 | The smallest array with an oldest slot that is not the first; empty, partly full, full and overwritten differ. |
| `MaxStores` | 4 (3 for the dump) | Twice the capacity: the array wraps to each of its slots. |
| `FlowId` | 2 ids | Flows are independent of each other except in the order they are written. |
| `Timestamp`, `Time` | 0..2, 1..2 | Earlier, equal and later. |
| `UInt16Max` | 3 or 4 | The reserved ids and one or two ordinary ones; in `Markers` the colour counter wraps within a session and between two. |
| `UInt32Max` | 0, 1 in `MCDump` | Only the extra id of a reset has a meaning; in the dump it differs from that of a set. |
| `UInt64Max` | 7 | Leaves room above all times of the instance, so that a wrapped difference is larger than any right one; and the product of `MaxTicks` and `Second` exceeds it. |
| `Frequency`, `Second`, `MaxTicks` | 3, 2, 4 | The counter passes a second, and the ratio is not whole, so that rounding shows. |
| `MaxClock` | 3 to 5 | With five readings both sessions begin and three marks are shared by them in every way (`core_joined`); with four a buffer is overfilled in the first session, or two marks follow the START of the second. |
| `MaxSessions` | 1 or 2 | One START after an END. |
| `MaxLives` | 1; 2 in `core_relife` | Passing runs keep one registration per thread and session: with two, the first file is lost (finding). |
| threads | 3 in `core_joined` and `dump_report`, 2 in the others | Two workers race with each other and with main; a worker, main and the post-processor do in `pipeline_faults`. |
| procs | 2 | The one with the lower pid and the other. |
| files per proc | 3 in `dump_report`, 2 in `Perfetto` and `Paraver` | An entry left in the heap beside two tops; two threads suffice to share a channel. |
| `NMSGS`, `MaxTime` | 2, 3 | Two messages under way at once; START, send and receive at three different times, or at equal ones. |
| `ListLength`, `ChannelCount` | {2}, {3} | A declared number that differs from the names' and from the default. |
| `MaxDeclarations` | 2 (1 in `markers_stale`) | Names and a number in either order, and each of them twice. |

All bounds are conjuncts of guards or sets of inputs. `Thread`, `Capacity`,
`UInt16Max` and the others are unbounded in the proofs, and the `Max...` bounds
are arbitrary numbers there. Symmetry is used for workers and labels, and only
in runs without liveness.

## 6. Fairness

`TracrCore!FairSpec` assumes weak fairness of `Inside(t)` (a thread inside a call is
scheduled; nothing in the library blocks), of the call of `THREAD_FINALIZE` and of
that of `END`, whether the library accepts the call or refuses it (`RefuseInOrder`),
and of `std::exit` coming to its end (`DestroyProc`, `ExitProcess`). The two calls
are duties of the application: the documentation asks for both. Nothing obliges it
to mark, to spawn or to start a session, and nothing obliges anything to go wrong:
there is no fairness of a call out of order, of `FailIO` or of `Kill`. So the
behaviours without any fault are among those of the run, and in them `SessionEnds`
demands that `END` is reached and does its work. In the others it excuses what the
fault itself did (`exit` "failed" or "misused", `status` "killed", or a write of
`metadata.json` that failed unnoticed), but never the refusal of a call that is in
order (`exit` "refused"), which a counter that is off by one would lead to.

`DumpSpec` assumes weak fairness of a sequential loop (`DumpPayload`), and so
does `Merge!FairSpec`.

`Finished`, `Exited` and `Done` are the ends of the program; deadlock is checked
in all runs.

## 7. What is proved

For all values of the constants that satisfy the assumptions of the modules
(`BufferAssumption`, `PayloadAssumption`, `ThreadAssumption`, `CoreAssumption`,
`IdAssumption`, `MarkersAssumption`, `MergeAssumption`, `TimerAssumption`,
`CounterAssumption`, `PipelineAssumption`, `ProcAssumption`; TLC evaluates each of
them), and the hypotheses stated in the theorem.

* **TraceBufferProofs**: what `FlushTraces` returns, for any capacity: its length,
  that it holds written elements only, and that one `StoreTrace` appends to it,
  drops its head, or leaves it. All arithmetic modulo the capacity is here.
* **TracrThreadProofs**: `TypeCorrect`, `FilesSorted` and `ImplementsBoundedLog` for
  a thread with an abstract clock. `FileInTimeOrder` is not inductive: it needs that
  what would be flushed is in time order, and that no element of it is later than
  the clock (`LogInv`). Then `CounterIsClock` and `CounterFilesSorted` for a thread
  with the hardware counter, for every frequency and width for which a second's
  ticks times a second's nanoseconds fit. The argument is that no intermediate
  result wraps, so `TicksToNs` is the rounded quotient (`TicksToNsExact`), which is
  monotone.
* **MarkersProofs**: `TypeCorrect`, `RegistryIsCoherent`, `DumpIsCoherent`,
  `LazyColorsAreFresh`, `DumpIsComplete`, `ChannelsAreLastNamed`. The fourth needs
  an invariant on the colours taken automatically in this session: they are the ones
  just behind the counter, modulo its width, and fewer than it. The dump's coherence
  needs that the JSON object holds no colour the registry lacks, its completeness
  that within a session only `GET_JSON_STR` makes that object ready (`DumpInv`). The
  last needs that the object reads, at any moment of the session, as the last call
  that counts says (`FieldsAgree`).
* **MergerProofs** holds the lemmas that the next three rest on. A merger
  `Mirrors` its files when every pointer is within its file and the heap has the
  entry of each unfinished one; then the top is no later than any payload not yet
  read (`TopIsLeast`), `Popped` mirrors again, reads one place more (`PoppedReads`), and an
  empty heap means that all places are read (`EmptyReadsAll`). The induction that is
  needed goes through the least element of a set of numbers (`LeastNatural`). The
  lemmas on `ProcData` say that the anchors a writer uses are the least and the
  greatest time of the proc (`SyncBounds`), so a difference to them does not wrap
  (`Subtraction`).
* **MergeProofs**: `TypeCorrect`, `HeapIsExact`, `MergeIsSorted`, `ImplementsSortedMerge`,
  for any files in time order. Sortedness needs that nothing output is later
  than anything in the heap. `ReportIsExact` is about the dump: its invariant says that
  each table is what the places read so far amount to (the counter of a channel is
  the number of its sets less that of its resets among them, the histogram counts
  them by event id). One step adds one place to exactly one of these sets.
* **PerfettoProofs**: `TypeCorrect`, `SlicesAreExact`, `TimesAreBounded`,
  `WrittenIsComplete` and `WarningIsExact`, for any procs. One inductive invariant
  (`IInv`) serves all five. It relates `merged` to the merger (every place read is
  in it once, in the order of time), `prev_payloads` and the last payload of each
  thread to `merged`, and the events written to `merged`. From these follow the
  slices: what closes a slice is the next change of its channel. `WrittenIsComplete`
  needs two more invariants: each event is in `traceEvents` as often as `merged` has
  flow payloads and closed sets it stands for (`Drawn`), and `merged` is in the
  order of time within a proc (`InOrder`), so that the one set of a channel that is
  never closed is a latest one. At the end `merged` and the places of the files
  correspond one to one.
* **ParaverProofs**: `TypeCorrect`, `LinesInTimeOrder`, `AllOnTimeline`, `StatesAreKept`,
  `NoArrowsCross` and `FlowsAreAccounted`, for any procs. Their inductive invariant
  (`IInv`) follows the data through the phases of the writer. While it collects,
  each set and reset read so far is a record, in the order of its file, and each
  flow id has as many ends as flow payloads were read with it. After the sorts,
  the records are in the order of time and still in that of their files, and the
  arrows are one per pair, in the order of time, and do not cross. While it
  writes, the lines are the first `rec` records and the first `c` arrows, and what
  comes next is no earlier. That the stable sort loses nothing is that the rank of
  an element is a bijection (`RankFacts`); of `std::sort` nothing is used but that it
  returns some order of the elements in which the times ascend. Numbers of ends,
  places and arrows are compared by bijections.
  `AllMessagesDrawn` and `ArrowsForward` are about the two processes of `MessageFlow`
  and the writer on what they recorded, for any number of messages. Their
  invariant (`FlowIInv`) says what each process has recorded at each place of its loop
  (a set, a flow payload and a reset per message), that the pipe holds what is
  written and not yet read, that no message is received before it is sent
  (`Causal`), that the writer begins when both are through, and, beside `IInv`, that
  every arrow goes from a start of its flow to an end of it (`Traced`).
* **PipelineProofs** begins with the process alone: `TypeCorrect`, `CountIsExact`,
  `EndRunsAlone`, `ProcOutlivesThreads`, `MetadataIsCommit`, `FolderIsSealed` and
  `AnchorsEnclose`, for any finite set of threads. The invariant relates `pc` to
  `tracrThread`, `tracrProc` and the counter; from an exact counter of one follows
  that no other thread is registered, hence that `END` is alone. For
  `ProcOutlivesThreads` it says that `tracrProc`, unless `std::exit` destroyed it,
  is there while main is between `START` and its reset by `END` (`ProcExists`),
  where no other thread is registered. For `MetadataIsCommit` it says besides what
  each thread's file holds at each place of a flush. For `AnchorsEnclose` a second
  invariant (`Timed`) says that every payload in a buffer, or written in this
  session, lies between the birth of `tracrProc` and the clock: `END` reads the
  clock after that. The theorems state for which `Client` and `MaxLives` they hold.
  `PipelineTypes`, `LoadIsWhole`, `LoadIsFlush` and `CompleteLoads` are about the
  two programs together. The first two hold whatever the process does, by an
  invariant of the post-processor alone (`Walks`): the procs it has read and those
  still to come are the ones it listed. The other two have the hypotheses on
  `Client` and `MaxLives` of the process's theorems. The post-processor changes
  nothing of the process (`ProcessRuns`), so the process's theorems hold in the
  pair. The first invariant (`Loads`) says that what was read from a folder stays
  true while the session of its `metadata.json` lasts, which is what `StepSeals`
  gives; an older session can never become the current one. The second (`Serves`)
  adds that a complete folder holds no `thread.<tid>/` without a file. There are two
  procs, so the sorted order is found by cases.

Only model-checked:

* `SessionEnds` and `EverythingMerged`: liveness is beyond the prover. All other
  properties of the runs are theorems.

## 8. What is not modelled, and the plan

Left out for good: the text of the output files (names, labels of arguments,
legends, and the warning on labels that differ between procs), the macros and
their empty versions without `ENABLE_TRACR`, the Python bindings (wrappers of the
macros without state), `TRACR_DISABLE_FLUSH` (nothing is written), folders whose
names do not parse (the library makes none), the calibration of the hardware
counter (one division of two measured differences), `state.cfg` and nlohmann
JSON. `perfetto.json` is read by a browser that is not part of the repository. Calls that
the documentation forbids and the code does not check (a mark without a thread,
registration from two threads) have no defined outcome and are not taken.
A pipe of `flow.cpp` that breaks ends its process without `END`; what that leaves is
in `Pipeline`, not in `MessageFlow`.

Nothing else of the plan is left.
