-------------------------- MODULE IndexCollection ---------------------------
(***************************************************************************)
(* The iterators over a column of several files: full_iterator             *)
(* (src/index_collection.cc) and subset_iterator (src/index.h).            *)
(*                                                                         *)
(* The iterator of a file is the number of a row in it; columns share how  *)
(* they move, so there is one column.  Files count from 1.                 *)
(***************************************************************************)
EXTENDS Integers, SequencesExt

CONSTANTS
  Collections,   \* numbers of rows of the files that are read
  Selections(_)  \* the subsets of so many rows that may be taken

ASSUME CollectionsAssumption ==
  \A sizes \in Collections : sizes # <<>> /\ sizes \in Seq(Nat)

VARIABLES
  sizes,      \* num_rows() of each of indexes_; never changes
  selection,  \* indexes_ of the subset_iterator; never changes
  its,        \* iterators over all rows
  sub,        \* the subset_iterator
  result      \* what the last call returned

vars == <<sizes, selection, its, sub, result>>

RowsIn(first, last) == SumFunctionOnSet(sizes, first .. last)

Total == RowsIn(1, Len(sizes))

NoResult == <<"none">>

----------------------------------------------------------------------------
(* full_iterator: its file, it_ and it_end_ as numbers of rows.  it_start_  *)
(* is the first row of a file, which is 0 whichever file it is.            *)

Enter(file) == [file |-> file, it |-> 0, it_end |-> sizes[file]]

(* The next file with rows, or the last one. *)
NextFile(file) == Min({Len(sizes)} \union {k \in (file + 1) .. Len(sizes) : sizes[k] > 0})

(* The constructor: leading files without rows are passed over. *)
Begin ==
  IF sizes[1] = 0 /\ Len(sizes) > 1 /\ Total > 0 THEN Enter(NextFile(1)) ELSE Enter(1)

(* A mistake: only one file is moved on. *)
Increment_OneFile(it) ==
  IF it.it + 1 = it.it_end /\ it.file < Len(sizes) THEN Enter(it.file + 1)
  ELSE [it EXCEPT !.it = @ + 1]

(* next: past the last row of a file it goes on to the next one. *)
Increment(it) ==
  IF it.it + 1 = it.it_end /\ it.file < Len(sizes) THEN Enter(NextFile(it.file))
  ELSE [it EXCEPT !.it = @ + 1]

(* A round of the loop of advance, with n rows to go. *)
AdvanceStep(it, n) ==
  LET diff == it.it_end - it.it
  IN  IF n < diff THEN <<[it EXCEPT !.it = @ + n], 0>>
      ELSE <<Increment([it EXCEPT !.it = @ + diff - 1]), n - diff>>

Advance(it, n) ==
  LET step(s) == IF s[2] = 0 THEN s ELSE AdvanceStep(s[1], s[2])
      round[k \in 0 .. Len(sizes)] ==
        IF k = 0 THEN <<it, n>>
        ELSE CHOOSE after \in {step(before) : before \in {round[k - 1]}} : TRUE
  IN  round[Len(sizes)][1]

End == Advance(Begin, Total)

EqualTo(it, that) == it.file = that.file /\ it.it = that.it

(* A mistake: the rows of the files in between are not counted backwards. *)
DistanceTo_ForwardOnly(it, that) ==
  IF it.file <= that.file
  THEN IF it.file = that.file THEN that.it - it.it
       ELSE it.it_end - it.it + RowsIn(it.file + 1, that.file - 1) + that.it
  ELSE (0 - it.it) + (that.it - sizes[that.file])

DistanceTo(it, that) ==
  IF it.file = that.file THEN that.it - it.it
  ELSE IF it.file < that.file
  THEN it.it_end - it.it + RowsIn(it.file + 1, that.file - 1) + that.it
  ELSE (0 - it.it) - RowsIn(that.file + 1, it.file - 1)
         + (that.it - sizes[that.file])

RowOf(it) == <<it.file, it.it>>

(* index_collection::get, for the row n of all. *)
Get(n) ==
  LET before(k) == RowsIn(1, k - 1)
      file == Min({k \in DOMAIN sizes : n - before(k) < sizes[k]})
  IN  <<file, n - before(file)>>

----------------------------------------------------------------------------
(* subset_iterator: i_, and it_, which is left where the last value was. *)

SubsetBegin == [i |-> 0, prev |-> 0, it |-> Begin]

(* value moves it_ on from there; backwards it starts again. *)
Seek(s, cur) ==
  [s EXCEPT !.prev = cur,
            !.it = IF cur < s.prev THEN Advance(Begin, cur) ELSE Advance(@, cur - s.prev)]

----------------------------------------------------------------------------
Iterators == {"a", "b"}

Init ==
  /\ sizes \in Collections
  /\ selection \in Selections(Total)
  /\ its = [c \in Iterators |-> Begin]
  /\ sub = SubsetBegin
  /\ result = NoResult

Return(answer) == result' = answer /\ UNCHANGED <<sizes, selection, its, sub>>

(* The iterators are only moved to the end, and only read before it. *)
Left(c) == 0 - DistanceTo(End, its[c])

MoveOn(c) ==
  /\ ~EqualTo(its[c], End)
  /\ its' = [its EXCEPT ![c] = Increment(@)]
  /\ result' = NoResult
  /\ UNCHANGED <<sizes, selection, sub>>

MoveBy(c, n) ==
  /\ n <= Left(c)
  /\ its' = [its EXCEPT ![c] = Advance(@, n)]
  /\ result' = NoResult
  /\ UNCHANGED <<sizes, selection, sub>>

Copy(c, d) ==
  /\ its' = [its EXCEPT ![d] = its[c]]
  /\ result' = NoResult
  /\ UNCHANGED <<sizes, selection, sub>>

Value(c)       == ~EqualTo(its[c], End) /\ Return(<<"value", RowOf(its[c])>>)
At(n)          == n < Total /\ Return(<<"value", Get(n)>>)
Distance(c, d) == Return(<<"distance", DistanceTo(its[c], its[d])>>)
Equal(c, d)    == Return(<<"equal", EqualTo(its[c], its[d])>>)
CountLeft(c)   == Return(<<"left", Left(c)>>)

SubsetMoveBy(n) ==
  /\ sub.i + n <= Len(selection)
  /\ sub' = [sub EXCEPT !.i = @ + n]
  /\ result' = NoResult
  /\ UNCHANGED <<sizes, selection, its>>

SubsetValue ==
  /\ sub.i < Len(selection)
  /\ sub' \in {Seek(sub, selection[sub.i + 1])}
  /\ result' = <<"value", RowOf(sub'.it)>>
  /\ UNCHANGED <<sizes, selection, its>>

Next ==
  \/ \E c \in Iterators :
       \/ MoveOn(c) \/ Value(c) \/ CountLeft(c)
       \/ \E n \in 0 .. Total : MoveBy(c, n)
       \/ \E d \in Iterators : Copy(c, d) \/ Distance(c, d) \/ Equal(c, d)
  \/ \E n \in 0 .. Total : At(n)
  \/ \E n \in 0 .. Len(selection) : SubsetMoveBy(n)
  \/ SubsetValue

Spec == Init /\ [][Next]_vars

----------------------------------------------------------------------------
(* Properties.                                                             *)

IsPlace(it) ==
  /\ it.file \in DOMAIN sizes /\ it.it_end = sizes[it.file]
  /\ it.it \in 0 .. it.it_end

(* Type invariant: an iterator is at a row, or at the end of all rows: never *)
(* at the end of a file that another file with rows follows.               *)
TypeOK ==
  /\ \A it \in {its["a"], its["b"], sub.it} :
       IsPlace(it) /\ (it.it = it.it_end => it.file = Len(sizes) \/ Total = 0)
  /\ sub.i \in 0 .. Len(selection) /\ sub.prev \in Nat

AllRows == FlattenSeq([k \in DOMAIN sizes |-> [r \in 1 .. sizes[k] |-> <<k, r - 1>>]])

Place(it) == RowsIn(1, it.file - 1) + it.it

(* Whatever calls are made in whatever order, iterators behave like numbers *)
(* of rows: a range with a distance, equality, copies and random access,    *)
(* over files of any sizes, some of which may have no rows; and a subset    *)
(* reads the rows that were selected, also backwards and repeatedly.        *)
RowNumbers == INSTANCE RandomAccess WITH
  rows <- AllRows, pos <- [c \in Iterators |-> Place(its[c])], i <- sub.i

BehavesLikeRowNumbers == RowNumbers!Spec

=============================================================================
