--------------------------- MODULE PayloadMerger ----------------------------
(***************************************************************************)
(* The k-way merge of the post-processor (class PayloadMerger) over the    *)
(* payload vectors of one proc, one per thread folder.  A merger is the    *)
(* value [ptrs, heap]: how far each file is read, and the heap of the      *)
(* (timestamp, file) pairs of the files that are not read to the end.      *)
(* files[i][k + 1] is _files[i][k] of the code.                            *)
(***************************************************************************)
EXTENDS Integers, Sequences

\* The loader sorts nothing: a file is in time order because it was written so
\* (FileInTimeOrder of TracrThread).
InTimeOrder(file) ==
  \A i, j \in DOMAIN file : i < j => file[i].timestamp <= file[j].timestamp

\* Faulty variant of Entry, used to test the properties.
FirstEntry(files, ptrs, i) ==
  [timestamp |-> files[i][1].timestamp, file_idx |-> i]

\* What the heap holds of file i.
Entry(files, ptrs, i) ==
  [timestamp |-> files[i][ptrs[i] + 1].timestamp, file_idx |-> i]

\* The constructor: every file at its beginning, the empty ones not in the heap.
NewMerger(files) ==
  LET ptrs == [i \in DOMAIN files |-> 0]
  IN  [ptrs |-> ptrs,
       heap |-> {Entry(files, ptrs, i) : i \in {j \in DOMAIN files : files[j] # << >>}}]

Empty(m) == m.heap = {}

\* Faulty variant of Tops, used to test the properties.
AnyEntry(m) == m.heap

\* What top() may return: among equal timestamps the order of a
\* priority_queue is unspecified.
Tops(m) == {e \in m.heap : \A f \in m.heap : e.timestamp <= f.timestamp}

\* Faulty variant of PayloadAt, used to test the properties.
FileAsChannel(files, m, e) ==
  [files[e.file_idx][m.ptrs[e.file_idx] + 1] EXCEPT !.channelId = e.file_idx]

\* The payload next() returns when the top is e.
PayloadAt(files, m, e) == files[e.file_idx][m.ptrs[e.file_idx] + 1]

\* Faulty variant of Popped, used to test the properties.
PoppedWithoutLast(files, m, e) ==
  LET i    == e.file_idx
      ptrs == [m.ptrs EXCEPT ![i] = @ + 1]
      rest == m.heap \ {e}
  IN  [ptrs |-> ptrs,
       heap |-> IF ptrs[i] + 1 < Len(files[i]) THEN rest \cup {Entry(files, ptrs, i)}
                ELSE rest]

\* The merger after next() has taken e: its file goes one further, and comes
\* back into the heap unless it is at its end.
Popped(files, m, e) ==
  LET i    == e.file_idx
      ptrs == [m.ptrs EXCEPT ![i] = @ + 1]
      rest == m.heap \ {e}
  IN  [ptrs |-> ptrs,
       heap |-> IF ptrs[i] < Len(files[i]) THEN rest \cup {Entry(files, ptrs, i)}
                ELSE rest]

=============================================================================
