---------------------------- MODULE SortedMerge -----------------------------
(***************************************************************************)
(* What a merge promises, without heap or pointers: as long as anything is *)
(* left, the next payload is one that no payload left anywhere precedes,   *)
(* and the payloads of one file come in the order of the file.             *)
(***************************************************************************)
EXTENDS Integers, Sequences

CONSTANT Inputs     \* the collections of files

VARIABLES left,     \* per file, what has not been output
          out       \* payloads output so far, each with its file

Init == left \in Inputs /\ out = << >>

Take(i) ==
  /\ left[i] # << >>
  /\ \A j \in DOMAIN left : \A k \in DOMAIN left[j] :
       Head(left[i]).timestamp <= left[j][k].timestamp
  /\ out' = Append(out, << Head(left[i]), i >>)
  /\ left' = [left EXCEPT ![i] = Tail(@)]

Next == \E i \in DOMAIN left : Take(i)

Spec == Init /\ [][Next]_<< left, out >>

=============================================================================
