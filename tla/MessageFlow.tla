---------------------------- MODULE MessageFlow ----------------------------
(***************************************************************************)
(* Two processes that exchange messages and mark them with flows, as the   *)
(* example flow.cpp does, and the Paraver writer on what they recorded.    *)
(* The flow id of a message travels inside the message.  A process whose   *)
(* pipe breaks returns without END; what is left of it does not load       *)
(* (Pipeline), so no step is given to that.                                *)
(***************************************************************************)
EXTENDS Paraver

CONSTANTS
  NMSGS,      \* messages
  MaxTime     \* bound: the last time the clock of the machine shows

ASSUME FlowAssumption == NMSGS \in Nat \ {0} /\ MaxTime \in 0 .. UInt64Max - 1

VARIABLES
  sender,     \* which of the two procs sends; the procs are in the order of pids
  place,      \* by proc, the call it makes next
  msg,        \* by proc, the messages it has dealt with: i of its loop
  sync_pipe,  \* the token is in the pipe
  data_pipe,
  clock

app      == << sender, place, msg, sync_pipe, data_pipe, clock >>
writer   == << p, pc, collected, paired, written, result >>
flowVars == << vars, app >>

Tracr == INSTANCE TracrPayload WITH Channel <- {0}, UInt32Max <- NMSGS,
                                    Timestamp <- 0 .. MaxTime

receiver == 3 - sender

NewProc == [files |-> << << >> >>, num_channels |-> 1, num_labels |-> 1,
            start_time |-> UInt64Max, end_time |-> 0]

\* The writer as in Init, and nothing recorded yet.
FlowInit ==
  /\ sender \in {1, 2}
  /\ place = << "sync", "sync" >> /\ msg = << 0, 0 >>
  /\ sync_pipe = FALSE /\ data_pipe = << >>
  /\ clock = 0
  /\ procs = << NewProc, NewProc >>
  /\ p = 0 /\ pc = "open"
  /\ merger = NewMerger(<< >>)
  /\ records = << >>
  /\ flow_starts = NoFlows /\ flow_ends = NoFlows
  /\ comms = << >> /\ unmatched = 0
  /\ rec = 0 /\ c = 0
  /\ prv = << >> /\ good = TRUE
  /\ result = "running"

-----------------------------------------------------------------------------
(* What both processes do. *)

Step(q, from, to) == place[q] = from /\ place' = [place EXCEPT ![q] = to]

\* The clock is that of the machine, the same for both.
Now == {t \in {clock, clock + 1} : t <= MaxTime}

Silently == UNCHANGED << procs, clock >>

Start(q, next) ==
  /\ Step(q, "start", next)
  /\ \E t \in Now : clock' = t /\ procs' = [procs EXCEPT ![q].start_time = t]
  /\ UNCHANGED << msg, sync_pipe, data_pipe >>

End(q) ==
  /\ Step(q, "end", "over")
  /\ \E t \in Now : clock' = t /\ procs' = [procs EXCEPT ![q].end_time = t]
  /\ UNCHANGED << msg, sync_pipe, data_pipe >>

\* A marker call: one more payload in the file of the thread.
Mark(q, payload, t) ==
  /\ clock' = t
  /\ procs' = [procs EXCEPT ![q].files[1] = Append(@, payload)]

\* The next message, or the end.
Reset(q, next) ==
  /\ Step(q, "reset", IF msg[q] + 1 < NMSGS THEN next ELSE "end")
  /\ msg' = [msg EXCEPT ![q] = @ + 1]
  /\ \E t \in Now : Mark(q, Tracr!ResetPayload(0, t), t)
  /\ UNCHANGED << sync_pipe, data_pipe >>

-----------------------------------------------------------------------------
(* The receiver. *)

Ready ==
  /\ Step(receiver, "sync", "start")
  /\ sync_pipe' = TRUE
  /\ Silently /\ UNCHANGED << msg, data_pipe >>

\* It blocks until there is a message.
Read ==
  /\ data_pipe # << >>
  /\ Step(receiver, "read", "set")
  /\ Silently /\ UNCHANGED << msg, sync_pipe, data_pipe >>

SetRecv ==
  /\ Step(receiver, "set", "flow")
  /\ \E t \in Now : Mark(receiver, Tracr!SetPayload(0, 0, Head(data_pipe), t), t)
  /\ UNCHANGED << msg, sync_pipe, data_pipe >>

EndFlow ==
  /\ Step(receiver, "flow", "reset")
  /\ \E t \in Now : Mark(receiver, Tracr!FlowEndPayload(0, Head(data_pipe), t), t)
  /\ data_pipe' = Tail(data_pipe)
  /\ UNCHANGED << msg, sync_pipe >>

Receive == Ready \/ Start(receiver, "read") \/ Read \/ SetRecv \/ EndFlow
             \/ Reset(receiver, "read") \/ End(receiver)

-----------------------------------------------------------------------------
(* The sender. *)

\* The number of the message in the lower half of the id; the upper half, from the
\* pid, is the same for all.
flow_id(i) == i

Await ==
  /\ sync_pipe
  /\ Step(sender, "sync", "start")
  /\ sync_pipe' = FALSE
  /\ Silently /\ UNCHANGED << msg, data_pipe >>

SetSend ==
  /\ Step(sender, "set", "flow")
  /\ \E t \in Now : Mark(sender, Tracr!SetPayload(0, 0, flow_id(msg[sender]), t), t)
  /\ UNCHANGED << msg, sync_pipe, data_pipe >>

StartFlow ==
  /\ Step(sender, "flow", "write")
  /\ \E t \in Now : Mark(sender, Tracr!FlowStartPayload(0, flow_id(msg[sender]), t), t)
  /\ UNCHANGED << msg, sync_pipe, data_pipe >>

WriteMessage ==
  /\ Step(sender, "write", "reset")
  /\ data_pipe' = Append(data_pipe, flow_id(msg[sender]))
  /\ Silently /\ UNCHANGED << msg, sync_pipe >>

Send == Await \/ Start(sender, "set") \/ SetSend \/ StartFlow \/ WriteMessage
          \/ Reset(sender, "set") \/ End(sender)

-----------------------------------------------------------------------------

AppStep == (Receive \/ Send) /\ UNCHANGED << sender, writer >>

AppOver == place = << "over", "over" >>

WriterStep == AppOver /\ Next /\ UNCHANGED app

FlowNext == AppStep \/ WriterStep

FlowSpec == FlowInit /\ [][FlowNext]_flowVars

-----------------------------------------------------------------------------
(* Properties. *)

Recorded == result = "ok" /\ good /\ msg = << NMSGS, NMSGS >>

Message == 0 .. NMSGS - 1

\* Message i of proc q is in the set and the reset at places 3i + 1 and 3i + 3 of its
\* file, with the flow payload between them.
Within(end, q, i) ==
  /\ end.task = q /\ end.thread = 1
  /\ \E s, r \in Events(q, 1) :
       /\ prv[s].line.place = 3 * i + 1 /\ prv[s].timestamp <= end.timestamp
       /\ prv[r].line.place = 3 * i + 3 /\ end.timestamp <= prv[r].timestamp

\* "The merged trace shows an arrow per message from the send slice to the recv
\* slice" (src/examples/README.md): one arrow for each message, whichever proc has
\* the lower pid and however the two interleave, from within the event in which it
\* was sent to within the event in which it was received; and nothing else.
MessagesDrawn ==
  Recorded =>
    /\ \A i \in Message : \E k \in Line("arrow") :
         Within(prv[k].line.send, sender, i) /\ Within(prv[k].line.recv, receiver, i)
    /\ Cardinality(Line("arrow")) = NMSGS
    /\ unmatched = 0

\* "Procs line up if they all pass INSTRUMENTATION_START() at the same real
\* instant" (src/README.md): no message arrives before it left, unless the receiver
\* passed START later than the sender; then by no more than that delay.
ArrowsPointForward ==
  Recorded =>
    LET delay == procs[receiver].start_time - procs[sender].start_time
    IN  \A k \in Line("arrow") :
          prv[k].line.send.timestamp <= prv[k].line.recv.timestamp + Max({delay, 0})

=============================================================================
