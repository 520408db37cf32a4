------------------------------- MODULE Cells --------------------------------
(***************************************************************************)
(* Reading a cell of a delimited file out of its index                     *)
(* (src/delimited_index.cc): get_cell finds its first and last character,  *)
(* get_trimmed_val drops blanks and quotes, get_escaped_string unescapes.  *)
(*                                                                         *)
(* An index is a record of the members that are read: idx, a sequence of   *)
(* vectors of positions, each of which holds whole rows of columns + 1 of  *)
(* them; columns, rows; and the options trim_ws and escape_double.  Rows   *)
(* and columns count from 0.                                               *)
(***************************************************************************)
EXTENDS SequentialIndex

(* get_cell: cells count on over the rows; the first of a row starts at the *)
(* position of the index, the others after the delimiter that is there.    *)
GetCell(index, i, is_first) ==
  LET place     == (i \div index.columns) * (index.columns + 1) + (i % index.columns)
      before(v) == SumFunctionOnSet([k \in DOMAIN index.idx |-> Len(index.idx[k])],
                                    1 .. (v - 1))
      v         == Min({k \in DOMAIN index.idx :
                          place - before(k) + 1 < Len(index.idx[k])})
      start     == index.idx[v][place - before(v) + 1]
      end       == index.idx[v][place - before(v) + 2]
  IN  IF start = end \/ is_first THEN <<start, end>> ELSE <<start + 1, end>>

TrimQuotes(src, begin, end) ==
  LET from == IF begin # end /\ IsQuote(At(src, begin)) THEN begin + 1 ELSE begin
  IN  <<from, IF end # from /\ IsQuote(At(src, end - 1)) THEN end - 1 ELSE end>>

(* A mistake: every quote is dropped. *)
GetEscapedString_DropsAll(src, index, begin, end, has_quote) ==
  LET special(q) == \/ index.escape_double /\ has_quote /\ IsQuote(At(src, q))
                    \/ EscapeBackslash /\ At(src, q) = "bslash"
      kept == {q \in begin .. (end - 1) : ~special(q)}
  IN  [k \in 1 .. Cardinality(kept) |-> At(src, SetToSortSeq(kept, <)[k])]

(* get_escaped_string: an escape is dropped and the character after it      *)
(* kept, even if that is past the end.                                     *)
GetEscapedString(src, index, begin, end, has_quote) ==
  LET special(q) == \/ index.escape_double /\ has_quote /\ IsQuote(At(src, q))
                    \/ EscapeBackslash /\ At(src, q) = "bslash"
      drops[q \in (begin - 1) .. (end - 1)] == q >= begin /\ special(q) /\ ~drops[q - 1]
      kept == {q \in begin .. (end - 1) : ~drops[q]}
                \union (IF begin < end /\ drops[end - 1] THEN {end} ELSE {})
      order == SetToSortSeq(kept, <)
  IN  [k \in DOMAIN order |-> At(src, order[k])]

(* get_trimmed_val: a cell without the carriage return before a newline, its *)
(* blanks and its quotes; then its text.                                   *)
Trim(src, index, cell) ==
  IF index.trim_ws THEN TrimWhitespace(src, cell[1], cell[2]) ELSE cell

InLine(src, cell, is_last) ==
  IF is_last /\ cell[1] < cell[2] /\ At(src, cell[2] - 1) = "cr"
  THEN <<cell[1], cell[2] - 1>> ELSE cell

Text(src, index, cell) ==
  IF cell[1] < cell[2] /\ IsQuote(At(src, cell[1]))
  THEN CHOOSE text \in {GetEscapedString(src, index, bare[1], bare[2], TRUE) :
                          bare \in {Trim(src, index, TrimQuotes(src, cell[1], cell[2]))}} : TRUE
  ELSE GetEscapedString(src, index, cell[1], cell[2], FALSE)

GetTrimmedVal(src, index, i, is_first, is_last) ==
  CHOOSE text \in {Text(src, index, trimmed) :
                     trimmed \in {Trim(src, index, line) :
                       line \in {InLine(src, cell, is_last) :
                         cell \in {GetCell(index, i, is_first)}}}} : TRUE

Get(src, index, row, col) ==
  GetTrimmedVal(src, index, (row + HasHeader) * index.columns + col,
                col = 0, col = index.columns - 1)

(* A cell of the header: row_iterator of row -1. *)
GetName(src, index, col) ==
  GetTrimmedVal(src, index, (HasHeader - 1) * index.columns + col,
                (HasHeader - 1) * index.columns + col = 0,
                (HasHeader - 1) * index.columns + col = index.columns - 1)

=============================================================================
