---------------------------- MODULE RandomAccess ----------------------------
(***************************************************************************)
(* What iterators over a column promise: they are numbers of rows, however *)
(* many files the rows are in.  Iterator "a" and "b" go forward through    *)
(* all rows; a third one goes through a selection of them, in any order.   *)
(***************************************************************************)
EXTENDS Integers, SequencesExt

VARIABLES
  rows,       \* all rows, in the order of the files
  selection,  \* numbers of rows
  pos,        \* where the iterators are
  i,          \* where the iterator over the selection is
  result      \* what the last call returned

vars == <<rows, selection, pos, i, result>>

Iterators == {"a", "b"}

NoResult == <<"none">>

Init ==
  /\ pos = [c \in Iterators |-> 0]
  /\ i = 0
  /\ result = NoResult

Return(answer) == result' = answer /\ UNCHANGED <<rows, selection, pos, i>>

(* ++it and it += n, to the end at most. *)
Move(c, n) ==
  /\ pos[c] + n <= Len(rows)
  /\ pos' = [pos EXCEPT ![c] = @ + n]
  /\ result' = NoResult
  /\ UNCHANGED <<rows, selection, i>>

Copy(c, d) ==
  /\ pos' = [pos EXCEPT ![d] = pos[c]]
  /\ result' = NoResult
  /\ UNCHANGED <<rows, selection, i>>

Value(c)       == pos[c] < Len(rows) /\ Return(<<"value", rows[pos[c] + 1]>>)
At(n)          == n < Len(rows) /\ Return(<<"value", rows[n + 1]>>)
Distance(c, d) == Return(<<"distance", pos[d] - pos[c]>>)
Equal(c, d)    == Return(<<"equal", pos[c] = pos[d]>>)
Left(c)        == Return(<<"left", Len(rows) - pos[c]>>)

MoveSelected(n) ==
  /\ i + n <= Len(selection)
  /\ i' = i + n
  /\ result' = NoResult
  /\ UNCHANGED <<rows, selection, pos>>

SelectedValue ==
  /\ i < Len(selection)
  /\ Return(<<"value", rows[selection[i + 1] + 1]>>)

Next ==
  \/ \E c \in Iterators :
       \/ \E n \in 0 .. Len(rows) : Move(c, n)
       \/ Value(c) \/ Left(c)
       \/ \E d \in Iterators : Copy(c, d) \/ Distance(c, d) \/ Equal(c, d)
  \/ \E n \in 0 .. Len(rows) : At(n)
  \/ \E n \in 0 .. Len(selection) : MoveSelected(n)
  \/ SelectedValue

Spec == Init /\ [][Next]_vars

=============================================================================
