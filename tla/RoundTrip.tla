----------------------------- MODULE RoundTrip ------------------------------
(***************************************************************************)
(* A table that vroom_write() writes (src/vroom_write.cc) and vroom()      *)
(* reads: the text is indexed, and then cells are read out of the index,   *)
(* in any order, as lazy columns do.  A text may also be given as it is,   *)
(* without quotes, with rows that are too short or too long, which are     *)
(* found by their position and reported by their number.                   *)
(***************************************************************************)
EXTENDS Cells

CONSTANT Inputs
  \* tables, records of names, cells, which has as many in a row, eol and quote,
  \* and texts, records of text; all with the reader's trim_ws

ASSUME InputsAssumption == \A in \in Inputs : in.trim_ws \in BOOLEAN

VARIABLES
  input,         \* the one of Inputs that is written and read; it never changes
  pc,            \* what has been done
  text,          \* the file
  index,         \* its index
  parse_errors,  \* where records end that have a wrong number of columns
  errors,        \* the rows and columns that problems() reports
  cell           \* the cell that was read last

vars == <<input, pc, text, index, parse_errors, errors, cell>>

IsTable == "cells" \in DOMAIN input

----------------------------------------------------------------------------
(* Formatting.                                                             *)

NeedsQuote(str) == \E k \in DOMAIN str : str[k] \in {"lf", "cr", "quote", "delim"}

(* str_to_buf, with escape = "double". *)
StrToBuf(str) ==
  LET should_quote == input.quote = "all" \/ (input.quote = "needed" /\ NeedsQuote(str))
      mark         == IF should_quote THEN <<"quote">> ELSE <<>>
      escaped      == [k \in DOMAIN str |-> IF str[k] = "quote" THEN <<"quote", "quote">>
                                            ELSE <<str[k]>>]
  IN  mark \o FlattenSeq(escaped) \o mark

(* A row of fill_buf, and get_header: the last delimiter gives way to eol. *)
Line(strings) ==
  FlattenSeq([k \in DOMAIN strings |->
                StrToBuf(strings[k]) \o IF k = Len(strings) THEN input.eol ELSE <<"delim">>])

Document ==
  (IF HasHeader = 1 THEN Line(input.names) ELSE <<>>)
    \o FlattenSeq([row \in DOMAIN input.cells |-> Line(input.cells[row])])

----------------------------------------------------------------------------
(* No cell has been read yet. *)
NoCell == [row |-> -2, col |-> 0, text |-> <<>>]

Init ==
  /\ input \in Inputs
  /\ pc = "write"
  /\ text = <<>>
  /\ index = [idx |-> <<>>, columns |-> 0, rows |-> 0, trim_ws |-> input.trim_ws,
              escape_double |-> TRUE]
  /\ parse_errors = <<>> /\ errors = <<>>
  /\ cell = NoCell

Write ==
  /\ pc = "write"
  /\ text' \in {IF IsTable THEN Document ELSE input.text}
  /\ pc' = "index"
  /\ UNCHANGED <<input, index, parse_errors, errors, cell>>

(* The first row has a vector of idx_, and every batch of rows after it. *)
Vectors(separators, columns, row) ==
  LET end(n) == n * (columns + 1)
  IN  <<SubSeq(separators, 1, end(1)), SubSeq(separators, end(1) + 1, end(row)),
        SubSeq(separators, end(row) + 1, Len(separators))>>

IndexText ==
  /\ pc = "index"
  /\ \E answer \in {SequentialAnswer(text, Unlimited, 0)} :
       \E row \in 1 .. (1 + answer.rows) :
         /\ index' = [index EXCEPT !.columns = answer.columns, !.rows = answer.rows,
                                  !.idx = Vectors(answer.separators, answer.columns, row)]
         /\ parse_errors' = answer.errors
  /\ pc' = "resolve"
  /\ UNCHANGED <<input, text, errors, cell>>

(* position() of an iterator over the first column: where a row starts. *)
Position(row) == GetCell(index, (row + HasHeader) * index.columns, TRUE)[1]

(* The rows that do not start before a parse error, or the end of them all; *)
(* the errors are sorted, so that one scan finds the first for each.        *)
RowsAfter(e) ==
  {row \in 0 .. index.rows : row < index.rows => e.position <= Position(row)}

(* A mistake: rows are counted without the header. *)
ResolveParseErrors_NoHeader ==
  /\ pc = "resolve"
  /\ errors' = [k \in DOMAIN parse_errors |->
                  <<Min(RowsAfter(parse_errors[k])), parse_errors[k].column + 1>>]
  /\ pc' = "read"
  /\ UNCHANGED <<input, text, index, parse_errors, cell>>

(* resolve_parse_errors: the row before the one found is where the error is. *)
ResolveParseErrors ==
  /\ pc = "resolve"
  /\ errors' = [k \in DOMAIN parse_errors |->
                  <<Min(RowsAfter(parse_errors[k])) + HasHeader, parse_errors[k].column + 1>>]
  /\ pc' = "read"
  /\ UNCHANGED <<input, text, index, parse_errors, cell>>

ReadCell(row, col) ==
  /\ cell' \in {[row |-> row, col |-> col, text |-> Get(text, index, row, col)]}
  /\ UNCHANGED <<input, pc, text, index, parse_errors, errors>>

ReadName(col) ==
  /\ HasHeader = 1
  /\ cell' \in {[row |-> -1, col |-> col, text |-> GetName(text, index, col)]}
  /\ UNCHANGED <<input, pc, text, index, parse_errors, errors>>

Read ==
  /\ pc = "read"
  /\ \E col \in 0 .. (index.columns - 1) :
       ReadName(col) \/ \E row \in 0 .. (index.rows - 1) : ReadCell(row, col)

Next == Write \/ IndexText \/ ResolveParseErrors \/ Read

Spec == Init /\ [][Next]_vars

----------------------------------------------------------------------------
(* Properties.                                                             *)

Trimmed(str) ==
  LET inked == {k \in DOMAIN str : str[k] \notin Blank}
  IN  IF ~input.trim_ws THEN str
      ELSE IF inked = {} THEN <<>> ELSE SubSeq(str, Min(inked), Max(inked))

(* "read_delim/csv/tsv and write_delim round trip special chars"            *)
(* (tests/testthat/test-vroom_write.R): a table that was written is read    *)
(* with its rows, its columns and its cells, whatever delimiters, quotes    *)
(* and newlines are in them, up to the blanks that trim_ws drops.          *)
CellsRoundTrip ==
  IsTable /\ pc = "read" =>
    /\ index.rows = Len(input.cells) /\ index.columns = Len(input.names)
    /\ cell # NoCell =>
         cell.text = Trimmed(IF cell.row = -1 THEN input.names[cell.col + 1]
                             ELSE input.cells[cell.row + 1][cell.col + 1])

(* The fields of a line without quotes: a field for every delimiter that    *)
(* there is; missing ones are empty and the last has what is left over.    *)
Field(line, col, columns) ==
  LET delims == SetToSortSeq({k \in DOMAIN line : line[k] = "delim"}, <)
      starts == <<0>> \o delims
      end    == IF col + 1 < Min({columns, Len(starts)}) THEN starts[col + 2] - 1
                ELSE Len(line)
  IN  IF col + 1 > Len(starts) THEN <<>> ELSE SubSeq(line, starts[col + 1] + 1, end)

NumFields(line) == 1 + Cardinality({k \in DOMAIN line : line[k] = "delim"})

(* Rows that are too short or too long shift no other cell: every line is a *)
(* row, with its own fields, the last one including what is too much.      *)
RaggedRowsKeepTheirCells ==
  ~IsTable /\ pc = "read" =>
    LET columns == NumFields(input.lines[1])
    IN  /\ index.rows = Len(input.lines) - HasHeader /\ index.columns = columns
        /\ cell # NoCell =>
             cell.text = Trimmed(Field(input.lines[cell.row + HasHeader + 1],
                                       cell.col, columns))

(* "Row and column number that caused the problem, referencing the original *)
(* input" (R/problems.R): each line with more or fewer fields than there    *)
(* are columns is reported, by its number, with the fields it has, and no   *)
(* other line is.                                                          *)
ProblemsNameTheirLines ==
  ~IsTable /\ pc = "read" =>
    LET lines == DOMAIN input.lines
    IN  ToSet(errors) = {<<n, NumFields(input.lines[n])>> :
          n \in {k \in lines : NumFields(input.lines[k]) # NumFields(input.lines[1])}}

=============================================================================
