------------------------------- MODULE Merge --------------------------------
(***************************************************************************)
(* The loop "while (!merger.empty()) merger.next()" that the Paraver, the  *)
(* Perfetto and the dump writers run over the traces of one proc.          *)
(***************************************************************************)
EXTENDS PayloadMerger

CONSTANTS
  Element,        \* what the files hold: records with a timestamp
  Collections     \* the collections of files the loader may hand over

ASSUME MergeAssumption ==
  /\ \A e \in Element : e.timestamp \in Nat
  /\ \A files \in Collections : /\ files \in Seq(Seq(Element))
                                /\ \A i \in DOMAIN files : InTimeOrder(files[i])

VARIABLES
  files,     \* bts_files of the proc
  merger,
  output     \* the pairs next() returned so far

vars == << files, merger, output >>

TypeOK ==
  /\ files \in Collections
  /\ merger.ptrs \in [DOMAIN files -> Nat]
  /\ output \in Seq(Element \X DOMAIN files)

Init ==
  /\ files \in Collections
  /\ merger = NewMerger(files)
  /\ output = << >>

MergeNext ==
  \E e \in Tops(merger) :
    /\ output' = Append(output, << PayloadAt(files, merger, e), e.file_idx >>)
    /\ merger' = Popped(files, merger, e)
    /\ UNCHANGED files

\* The loop has ended.
Done == Empty(merger) /\ UNCHANGED vars

Next == MergeNext \/ Done

Spec == Init /\ [][Next]_vars

\* A sequential loop: it goes on until the merger is empty.
FairSpec == Spec /\ WF_vars(MergeNext)

-----------------------------------------------------------------------------
(* Properties. *)

\* Never more than the head of each unfinished file is in the heap, and never
\* less: an entry is neither stale nor lost, so the top is a global minimum.
HeapHoldsHeads ==
  /\ \A i \in DOMAIN files : merger.ptrs[i] <= Len(files[i])
  /\ merger.heap = {Entry(files, merger.ptrs, i) :
                      i \in {j \in DOMAIN files : merger.ptrs[j] < Len(files[j])}}

\* The payloads come in timestamp order (the comment of next()).
OutputSorted ==
  \A i, j \in DOMAIN output : i < j => output[i][1].timestamp <= output[j][1].timestamp

\* What was output of file i.
Of(i) == LET FromFile(pair) == pair[2] = i
             pairs == SelectSeq(output, FromFile)
         IN  [k \in DOMAIN pairs |-> pairs[k][1]]

\* The heap and the pointers implement the merge: nothing is lost, repeated or
\* reordered within a thread.
Left == [i \in DOMAIN files |-> SubSeq(files[i], merger.ptrs[i] + 1, Len(files[i]))]

Sorted == INSTANCE SortedMerge WITH Inputs <- Collections, left <- Left,
                                    out <- output

MergeSpec == Sorted!Spec

\* The loop ends, and then every file is in the output as a whole.
EverythingMerged == <>[](\A i \in DOMAIN files : Of(i) = files[i])

=============================================================================
