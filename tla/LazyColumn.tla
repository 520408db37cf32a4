----------------------------- MODULE LazyColumn -----------------------------
(***************************************************************************)
(* The columns of a data frame that vroom() returns (src/vroom_vec.h and   *)
(* src/vroom_*.h): vectors that parse their cells when R code asks for     *)
(* them, keep them from the moment all are parsed, and drop then what they *)
(* needed for parsing (the info).  Cells that cannot be parsed are         *)
(* reported (src/vroom_errors.h), and R code is warned once.               *)
(*                                                                         *)
(* A warning runs R code, its calling handlers, in the middle of a call:   *)
(* they may use the same vectors, and may return or leave for good.  So    *)
(* calls are on a stack.                                                   *)
(*                                                                         *)
(* A cell is "ok", "na" or "bad"; a value is the number of its row, or NA, *)
(* 0.  A vector of kind "rle" says which file each row is from.            *)
(***************************************************************************)
EXTENDS Integers, SequencesExt

CONSTANTS
  Frames,      \* data frames that may be read
  Reentered,   \* the kinds of vectors that handlers of the warning parse
  MaxVectors,  \* a bound on the vectors made, the columns included
  MaxPicked    \* a bound on the elements that a subset picks

Kinds == {"num", "dttm", "chr", "fct", "rle"}

Cell == {"ok", "na", "bad"}

(* A data frame: the columns that are not skipped, each with its number in *)
(* the file and, for a "rle", the numbers of rows of the files instead of  *)
(* cells; and the rows that have too few or too many fields.               *)
ASSUME FramesAssumption ==
  /\ Reentered \subseteq Kinds /\ MaxPicked \in Nat
  /\ \A f \in Frames :
       /\ f.rows \in Nat \ {0}
       /\ f.ragged \subseteq 1 .. f.rows
       /\ f.columns \in Seq(ToSet(f.columns))
       /\ \A c \in DOMAIN f.columns :
            LET col == f.columns[c]
            IN  /\ col.kind \in Kinds /\ col.lazy \in BOOLEAN /\ col.number \in Nat
                /\ IF col.kind = "rle" THEN col.cells \in Seq(Nat)
                   ELSE col.cells \in [1 .. f.rows -> Cell]

VARIABLES
  frame,   \* the data frame; never changes
  vecs,    \* the vectors, the columns first
  data,    \* data2 of each: its elements, once it is parsed
  used,    \* the vectors that R code still refers to
  infos,   \* the infos that have not been deleted, by number
  errors,  \* rows_ and columns_: the cells reported, <<row, column>>
  warned,  \* have_warned_
  stack,   \* the calls in progress, the innermost one last
  answer   \* what the last call returned

vars == <<frame, vecs, data, used, infos, errors, warned, stack, answer>>

NA == 0

NoData == <<>>

NoAnswer == [op |-> "none"]

Columns == DOMAIN frame.columns

Column(vec) == frame.columns[vec.column]

Size(vec) == Len(vec.rows)

(* data2 of a vector is there. *)
Stored(v) == data[v] # NoData

----------------------------------------------------------------------------
(* Parsing.                                                                *)

(* vroom_rle: the file that a row is from, found by subtracting run lengths. *)
RunAt(runs, row) == Min({k \in DOMAIN runs : row <= SumFunctionOnSet(runs, 1 .. k)})

ExpandRuns(runs) == FlattenSeq([k \in DOMAIN runs |-> [n \in 1 .. runs[k] |-> k]])

(* There is a column, and the runs of a "rle" add up to the rows: finding   *)
(* the run of a row agrees with expanding them.                            *)
ASSUME RunsAssumption ==
  \A f \in Frames :
    /\ f.columns # <<>>
    /\ \A c \in DOMAIN f.columns :
         f.columns[c].kind = "rle" =>
           LET runs == f.columns[c].cells
           IN  /\ ExpandRuns(runs) \in [1 .. f.rows -> Nat]
               /\ \A row \in 1 .. f.rows : RunAt(runs, row) = ExpandRuns(runs)[row]

(* The value of a cell: a string with an embedded null is cut, not missing. *)
ValueOf(column, row) ==
  IF column.kind = "rle" THEN RunAt(column.cells, row)
  ELSE CASE column.cells[row] = "ok"  -> row
         [] column.cells[row] = "na"  -> NA
         [] column.cells[row] = "bad" -> IF column.kind = "chr" THEN row ELSE NA

IsBad(column, row) == column.kind # "rle" /\ column.cells[row] = "bad"

(* The cells of rows that are reported when they are read in turn. *)
BadCells(column, rows) ==
  {<<row, column.number>> : row \in {r \in rows : IsBad(column, r)}}

(* Reading the k-th element alone reports the row of begin() + k, which is  *)
(* right in a column, but for a subset is the first row of the column: its  *)
(* iterator has not been moved by reading a value.  A string is always      *)
(* reported at begin().  A mistake: rows are not counted from 1.            *)
ReportedRow_FromZero(vec, k) ==
  IF vec.subset \/ Column(vec).kind = "chr" THEN 0 ELSE vec.rows[k] - 1

ReportedRow(vec, k) ==
  IF vec.subset \/ Column(vec).kind = "chr" THEN 1 ELSE vec.rows[k]

(* A "rle" is not parsed: it reports nothing and does not warn. *)
Parses(vec) == Column(vec).kind # "rle"

----------------------------------------------------------------------------
(* create_columns: the vectors that are not lazy are parsed at once.       *)

AllRows == [k \in 1 .. frame.rows |-> k]

Made(c) ==
  [column |-> c, rows |-> AllRows, subset |-> FALSE, info |-> c]

Eager == {c \in Columns : ~frame.columns[c].lazy}

(* The rows that resolve_parse_errors reports; column 0 stands for theirs. *)
Ragged == {<<row, 0>> : row \in frame.ragged}

Init ==
  /\ frame \in Frames
  /\ vecs = [c \in Columns |-> Made(c)]
  /\ data = [c \in Columns |-> IF frame.columns[c].lazy THEN NoData
                                ELSE [k \in 1 .. frame.rows |-> ValueOf(frame.columns[c], k)]]
  /\ used = Columns
  /\ infos = {c \in Columns \ Eager : Parses(vecs[c])}
  /\ errors = Ragged \union UNION {BadCells(frame.columns[c], 1 .. frame.rows) : c \in Eager}
  /\ warned = (Eager # {} /\ errors # {})
  /\ stack = <<>>
  /\ answer = NoAnswer

----------------------------------------------------------------------------
(* The stack.  R code runs when it is empty, or during a warning.          *)

Warning == [op |-> "warning", vec |-> 0, at |-> 0, out |-> <<>>]

Top == IF stack = <<>> THEN Warning ELSE Last(stack)

RCodeRuns == Top.op = "warning"

Call(op, v, at, out) == [op |-> op, vec |-> v, at |-> at, out |-> out]

(* Some cells have been read: add_error for the bad ones, then              *)
(* warn_for_errors, which warns if no one was warned before.                *)
(* A mistake: everyone is warned again. *)
Report_Again(cells, calls) ==
  /\ errors' = errors \union cells
  /\ warned' = (warned \/ errors' # {})
  /\ stack' = IF warned' THEN Append(calls, Warning) ELSE calls

Report(cells, calls) ==
  /\ errors' = errors \union cells
  /\ warned' = (warned \/ errors' # {})
  /\ stack' = IF warned' /\ ~warned THEN Append(calls, Warning) ELSE calls

Answers(result) == answer' = result

(* Vectors that may be parsed as a whole: what handlers do is up to them. *)
MayParse(v) == stack = <<>> \/ Column(vecs[v]).kind \in Reentered

----------------------------------------------------------------------------
(* Elements.                                                               *)

(* Elt of a vector that need not be parsed. *)
EltStored(v, k) ==
  /\ RCodeRuns
  /\ Stored(v) \/ ~Parses(vecs[v])
  /\ Answers([op |-> "element", of |-> v, at |-> k,
              is |-> IF Stored(v) THEN data[v][k]
                     ELSE ValueOf(Column(vecs[v]), vecs[v].rows[k])])
  /\ UNCHANGED <<frame, vecs, data, used, infos, errors, warned, stack>>

(* Elt of another one parses the cell each time. *)
EltParsed(v, k) ==
  /\ RCodeRuns
  /\ ~Stored(v) /\ Parses(vecs[v])
  /\ LET vec    == vecs[v]
         column == Column(vec)
         row    == vec.rows[k]
     IN  Report(IF IsBad(column, row) THEN {<<ReportedRow(vec, k), column.number>>} ELSE {},
                Append(stack, Call("elt", v, k, <<ValueOf(column, row)>>)))
  /\ Answers(NoAnswer)
  /\ UNCHANGED <<frame, vecs, data, used, infos>>

ReturnElt ==
  /\ Top.op = "elt"
  /\ Answers([op |-> "element", of |-> Top.vec, at |-> Top.at, is |-> Top.out[1]])
  /\ stack' = Front(stack)
  /\ UNCHANGED <<frame, vecs, data, used, infos, errors, warned>>

----------------------------------------------------------------------------
(* Materialize, which Dataptr calls.                                       *)

DataptrStored(v) ==
  /\ RCodeRuns
  /\ Stored(v)
  /\ Answers([op |-> "elements", of |-> v, is |-> data[v]])
  /\ UNCHANGED <<frame, vecs, data, used, infos, errors, warned, stack>>

Dataptr(v) ==
  /\ RCodeRuns /\ MayParse(v)
  /\ ~Stored(v)
  /\ stack' = Append(stack, Call("materialize", v, 0, <<>>))
  /\ Answers(NoAnswer)
  /\ UNCHANGED <<frame, vecs, data, used, infos, errors, warned>>

(* A factor is parsed element by element, with a call of Val for each; the  *)
(* other kinds are parsed as a whole (read_int, read_chr and so on, which   *)
(* may use several threads) before anyone is warned.                        *)
Upto(vec, parsed) == IF Column(vec).kind = "fct" THEN parsed + 1 ELSE Size(vec)

(* The elements up to one.  A "rle" expands its runs instead. *)
Parsed(vec, upto) ==
  IF Column(vec).kind = "rle" THEN ExpandRuns(Column(vec).cells)
  ELSE [k \in 1 .. upto |-> ValueOf(Column(vec), vec.rows[k])]

Found(vec, from, upto) ==
  IF Column(vec).kind # "fct" THEN BadCells(Column(vec), {vec.rows[k] : k \in from .. upto})
  ELSE IF IsBad(Column(vec), vec.rows[from])
  THEN {<<ReportedRow(vec, from), Column(vec).number>>} ELSE {}

ParseCells ==
  /\ Top.op = "materialize"
  /\ LET vec  == vecs[Top.vec]
         from == Top.at + 1
         upto == Upto(vec, Top.at)
         call == Call("materialize", Top.vec, upto, Parsed(vec, upto))
     IN  /\ from <= Size(vec)
         /\ IF Parses(vec)
            THEN Report(Found(vec, from, upto), Append(Front(stack), call))
            ELSE stack' = Append(Front(stack), call) /\ UNCHANGED <<errors, warned>>
  /\ UNCHANGED <<frame, vecs, data, used, infos, answer>>

(* All is parsed: the vector keeps it, and its info is finalized, unless a  *)
(* handler saw to that already.  A "rle" has none.                          *)
Store ==
  /\ Top.op = "materialize"
  /\ Top.at = Size(vecs[Top.vec])
  /\ data' = [data EXCEPT ![Top.vec] = Top.out]
  /\ infos' = infos \ {vecs[Top.vec].info}
  /\ stack' = Front(stack)
  /\ Answers([op |-> "elements", of |-> Top.vec, is |-> Top.out])
  /\ UNCHANGED <<frame, vecs, used, errors, warned>>

----------------------------------------------------------------------------
(* Vectors made from vectors.                                              *)

(* A new vector with an info of its own, which shares the column.           *)
Make(v, rows, picked) ==
  /\ Len(vecs) < MaxVectors
  /\ vecs' = Append(vecs, [column |-> vecs[v].column, rows |-> rows, info |-> Len(vecs) + 1,
                           subset |-> vecs[v].subset \/ picked # <<>>])
  /\ data' = Append(data, NoData)
  /\ used' = used \union {Len(vecs) + 1}
  /\ infos' = infos \union {Len(vecs) + 1}
  /\ Answers([op |-> "vector", of |-> v, picked |-> picked])
  /\ UNCHANGED <<frame, errors, warned, stack>>

(* A mistake: a subset picks from the column, not from what was picked.     *)
ExtractSubset_OfTheColumn(v, picked) ==
  /\ RCodeRuns
  /\ ~Stored(v) /\ Parses(vecs[v])
  /\ picked # <<>>
  /\ Make(v, picked, picked)

(* Extract_subset, unless R's own method does it: with the elements already *)
(* there, or nothing to pick.                                               *)
ExtractSubset(v, picked) ==
  /\ RCodeRuns
  /\ ~Stored(v) /\ Parses(vecs[v])
  /\ picked # <<>>
  /\ Make(v, [n \in DOMAIN picked |-> vecs[v].rows[picked[n]]], picked)

(* A mistake: the copy uses the info of the original. *)
Duplicate_SharesInfo(v) ==
  /\ RCodeRuns
  /\ ~Stored(v) /\ Column(vecs[v]).kind = "dttm"
  /\ Len(vecs) < MaxVectors
  /\ vecs' = Append(vecs, vecs[v])
  /\ data' = Append(data, NoData)
  /\ used' = used \union {Len(vecs) + 1}
  /\ Answers([op |-> "vector", of |-> v, picked |-> <<>>])
  /\ UNCHANGED <<frame, infos, errors, warned, stack>>

(* A shallow copy of date-times that are not parsed yet. *)
Duplicate(v) ==
  /\ RCodeRuns
  /\ ~Stored(v) /\ Column(vecs[v]).kind = "dttm"
  /\ Make(v, vecs[v].rows, <<>>)

InCall(v) == \E n \in DOMAIN stack : stack[n].vec = v

(* R drops a vector that no one uses: its finalizer deletes its info. *)
Collect(v) ==
  /\ v > Len(frame.columns) /\ ~InCall(v)
  /\ used' = used \ {v}
  /\ infos' = infos \ {vecs[v].info}
  /\ UNCHANGED <<frame, vecs, data, errors, warned, stack, answer>>

----------------------------------------------------------------------------
(* The whole data frame.                                                   *)

(* problems(lazy = FALSE), vroom_convert(): the call materializes a column  *)
(* after the other.                                                         *)
Start(op) ==
  /\ RCodeRuns /\ \A c \in Columns : MayParse(c)
  /\ stack' = Append(stack, Call(op, 0, 1, <<>>))
  /\ Answers(NoAnswer)
  /\ UNCHANGED <<frame, vecs, data, used, infos, errors, warned>>

(* A mistake: vroom_altrep forgets the strings. *)
Needs_NoStrings(op, v) ==
  ~Stored(v) /\ (op = "convert" \/ Column(vecs[v]).kind \notin {"rle", "chr"})

(* vroom_materialize leaves out the vectors that vroom_altrep does not list. *)
Needs(op, v) == ~Stored(v) /\ (op = "convert" \/ Parses(vecs[v]))

NextColumn ==
  /\ Top.op \in {"problems", "convert"}
  /\ Top.at <= Len(frame.columns)
  /\ LET rest == Append(Front(stack), Call(Top.op, 0, Top.at + 1, <<>>))
     IN  stack' = IF Needs(Top.op, Top.at)
                  THEN Append(rest, Call("materialize", Top.at, 0, <<>>)) ELSE rest
  /\ UNCHANGED <<frame, vecs, data, used, infos, errors, warned, answer>>

ErrorTable == [op |-> "problems", is |-> errors]

Finish ==
  /\ Top.op \in {"problems", "convert"}
  /\ Top.at > Len(frame.columns)
  /\ Answers(IF Top.op = "problems" THEN ErrorTable
             ELSE [op |-> "table", is |-> [c \in Columns |-> data[c]]])
  /\ stack' = Front(stack)
  /\ UNCHANGED <<frame, vecs, data, used, infos, errors, warned>>

----------------------------------------------------------------------------
(* A handler returns, and the call goes on; or it leaves for where it was   *)
(* established, which is outside of all calls.                              *)

HandlerReturns ==
  /\ stack # <<>> /\ RCodeRuns
  /\ stack' = Front(stack)
  /\ UNCHANGED <<frame, vecs, data, used, infos, errors, warned, answer>>

HandlerLeaves ==
  /\ stack # <<>> /\ RCodeRuns
  /\ stack' = <<>>
  /\ Answers(NoAnswer)
  /\ UNCHANGED <<frame, vecs, data, used, infos, errors, warned>>

RCode ==
  \/ \E v \in used :
       \/ \E k \in 1 .. Size(vecs[v]) : EltStored(v, k) \/ EltParsed(v, k)
       \/ DataptrStored(v) \/ Dataptr(v) \/ Duplicate(v)
       \/ \E n \in 1 .. MaxPicked : \E picked \in [1 .. n -> 1 .. Size(vecs[v])] :
            ExtractSubset(v, picked)
       \/ Collect(v)
  \/ \E op \in {"problems", "convert"} : Start(op)
  \/ HandlerReturns \/ HandlerLeaves

Next ==
  \/ RCode
  \/ ReturnElt \/ ParseCells \/ Store \/ NextColumn \/ Finish

Spec == Init /\ [][Next]_vars

----------------------------------------------------------------------------
(* Properties.                                                             *)

IsVector(vec) ==
  /\ vec.column \in Columns
  /\ vec.rows \in Seq(1 .. frame.rows) /\ vec.rows # <<>>
  /\ vec.info \in Nat /\ vec.subset \in BOOLEAN

(* Type invariant. *)
TypeOK ==
  /\ frame \in Frames
  /\ DOMAIN data = DOMAIN vecs
  /\ \A v \in DOMAIN vecs :
       IsVector(vecs[v]) /\ (Stored(v) => data[v] \in [1 .. Size(vecs[v]) -> Nat])
  /\ used \subseteq DOMAIN vecs
  /\ infos \subseteq DOMAIN vecs
  /\ errors \subseteq (1 .. frame.rows) \X Nat
  /\ warned \in BOOLEAN
  /\ \A n \in DOMAIN stack : stack[n].vec \in DOMAIN vecs \union {0}

(* What a vector holds: its cells, whoever reads them and when. *)
Holds(vec) ==
  IF Parses(vec) THEN [k \in DOMAIN vec.rows |-> ValueOf(Column(vec), vec.rows[k])]
  ELSE ExpandRuns(Column(vec).cells)

(* Vectors keep their elements: parsing them one by one or as a whole, from *)
(* the column, a subset or a copy, before, during or after a warning whose  *)
(* handler uses the same vector, and after a handler left in the middle,    *)
(* gives the same values.                                                   *)
Values == INSTANCE Vectors WITH
  contents <- [v \in DOMAIN vecs |-> Holds(vecs[v])],
  answer <- IF answer.op = "problems" THEN NoAnswer ELSE answer

KeepsItsElements == Values!Spec

(* A call that is parsing a vector and has elements left. *)
Unfinished(call) == call.op = "materialize" /\ call.at < Size(vecs[call.vec])

(* No call uses an info that is gone: a vector that is not stored has its   *)
(* own, whatever became of the vectors it was made from and of its copies,  *)
(* and so has one that is being parsed.                                     *)
InfoInUse ==
  /\ \A v \in used : Parses(vecs[v]) /\ ~Stored(v) => vecs[v].info \in infos
  /\ \A n \in DOMAIN stack :
       Unfinished(stack[n]) /\ Parses(vecs[stack[n].vec])
         => vecs[stack[n].vec].info \in infos

BadInFrame == UNION {BadCells(frame.columns[c], 1 .. frame.rows) : c \in Columns}

(* "the lazy data is first read completely and all problems are returned"   *)
(* (R/problems.R), also when a handler called problems, or left a call that *)
(* was reading the same column.                                             *)
ProblemsAreComplete ==
  answer.op = "problems" => BadInFrame \union Ragged \subseteq answer.is

(* R code goes on after a cell that cannot be parsed only when it has been  *)
(* warned, once; and it is only warned of problems.                         *)
WarnsOfProblems ==
  /\ warned => errors # {}
  /\ RCodeRuns /\ errors \ Ragged # {} => warned
  /\ Cardinality({n \in DOMAIN stack : stack[n].op = "warning"}) <= 1

(* "Row and column number that caused the problem, referencing the original *)
(* input" (R/problems.R).                                                   *)
ProblemsNameTheirRows == errors \subseteq BadInFrame \union Ragged

=============================================================================
