------------------------------ MODULE Indexing ------------------------------
(***************************************************************************)
(* What the constructors of delimited_index and delimited_index_connection *)
(* promise: they turn the file into the index that it should have, in one  *)
(* step, and they do so eventually.  A file may also be refused with an    *)
(* error; delimited_index never does that.                                 *)
(***************************************************************************)
EXTENDS IndexRegion

CONSTANT
  Reference(_, _, _)  \* the index of a file, for an n_max and a skip

VARIABLES
  file,   \* the file that is read
  n_max,  \* the argument n_max
  skip,   \* the argument skip
  answer  \* the index, once it is there

vars == <<file, n_max, skip, answer>>

Init ==
  /\ file \in Seq(Char)
  /\ n_max \in Nat \union {Unlimited}
  /\ skip \in Nat
  /\ answer = [phase |-> "indexing"]

Finished(index) ==
  [phase |-> "done", separators |-> index.separators, columns |-> index.columns,
   rows |-> index.rows, errors |-> ToSet(index.errors),
   error_count |-> Len(index.errors)]

Answered ==
  /\ answer.phase = "indexing"
  /\ answer' \in {Finished(index) : index \in {Reference(file, n_max, skip)}}
  /\ UNCHANGED <<file, n_max, skip>>

Refused ==
  /\ answer.phase = "indexing"
  /\ answer' = [phase |-> "refused"]
  /\ UNCHANGED <<file, n_max, skip>>

Spec == Init /\ [][Answered \/ Refused]_vars /\ <>(answer.phase # "indexing")

=============================================================================
