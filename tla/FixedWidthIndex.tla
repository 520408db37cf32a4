--------------------------- MODULE FixedWidthIndex --------------------------
(***************************************************************************)
(* fixed_width_index (src/fixed_width_index.h): index_region, which finds  *)
(* the newlines of a region, the index of a whole file, and get, which     *)
(* cuts a cell out of it; and whitespace_columns_ (src/vroom_fwf.cc),      *)
(* which guesses where the columns are.                                    *)
(*                                                                         *)
(* Quotes mean nothing in a fixed width file: IndexRegion's helpers are    *)
(* used with HasQuote = FALSE.                                             *)
(***************************************************************************)
EXTENDS IndexRegion

CONSTANTS
  Skip,    \* the argument skip
  TrimWs   \* the argument trim_ws

ASSUME FixedWidthAssumption == ~HasQuote /\ Skip \in Nat /\ TrimWs \in BOOLEAN

NA == -1  \* the end of the last column of a ragged file

(* find_next_newline with a type: one of the two characters, or any.  The  *)
(* null character that ends a buffer ends the search.                      *)
NextNewline(src, pos, type) ==
  IF pos >= Len(src) THEN <<Len(src) - 1, "lf">>
  ELSE NewlineAt(src, FirstOf(src, pos, {"nul"} \union IF type = "any" THEN {"lf", "cr"}
                                                                      ELSE {type}),
                 Len(src))

(* A call of index_region and its locals; its destination is newlines_. *)
LinesCall(start, end, offset, n_max) ==
  [start |-> start, end |-> end, offset |-> offset, n_max |-> n_max]

EnterLines(p, destination) ==
  [pos |-> p.start, first_nl |-> "any", lines_read |-> 0, destination |-> destination,
   out |-> "running"]

LinesCallType ==
  [start : Nat, end : Nat, offset : Nat, n_max : Nat \union {Unlimited}]

LinesLocalsType ==
  [pos : Nat, first_nl : {"any", "lf", "cr"}, lines_read : Nat,
   destination : Seq(Nat \union {-1}), out : {"idle", "running", "end", "n_max"}]

(* A mistake: any newline will do, in the middle of a CRLF too. *)
LinesStep_AnyNewline(src, p, r) ==
  LET nl == NextNewline(src, r.pos, "any")
  IN  IF nl[1] >= p.end THEN [r EXCEPT !.out = "end"]
      ELSE [r EXCEPT
              !.destination = Append(@, p.offset + nl[1]),
              !.lines_read = @ + 1,
              !.pos = nl[1] + 1,
              !.out = IF Below(r.lines_read + 1, p.n_max) THEN @ ELSE "n_max"]

(* An iteration of index_region.  The first newline tells what to look for: *)
(* a CRLF may be split between two buffers.                                *)
LinesStep(src, p, r) ==
  LET nl == NextNewline(src, r.pos, r.first_nl)
  IN  IF nl[1] >= p.end THEN [r EXCEPT !.out = "end"]
      ELSE [r EXCEPT
              !.destination = Append(@, p.offset + nl[1]),
              !.lines_read = @ + 1,
              !.pos = nl[1] + 1,
              !.first_nl = IF @ = "any" THEN nl[2] ELSE @,
              !.out = IF Below(r.lines_read + 1, p.n_max) THEN @ ELSE "n_max"]

RunLines(src, p, destination) ==
  LET step(r) == IF r.out = "running" THEN LinesStep(src, p, r) ELSE r
      run[n \in 0 .. (Len(src) + 1)] ==
        IF n = 0 THEN EnterLines(p, destination)
        ELSE CHOOSE after \in {step(before) : before \in {run[n - 1]}} : TRUE
  IN  run[Len(src) + 1]

(* newlines_ starts with the position before the first row. *)
BeforeFirst(start, n_max) == IF n_max = 0 THEN <<>> ELSE <<start - 1>>

(* The newline at the end of a file, which index_region does not reach. *)
LastNewline(src, start) ==
  LET nl == FindNextNewline(src, start)[1]
  IN  IF nl > start /\ At(src, nl) = "lf" /\ At(src, nl - 1) = "cr" THEN Len(src) - 2
      ELSE Len(src) - 1

(* A mistake: index_region goes to the end of the file. *)
FileNewlines_WholeFile(src, n_max) ==
  LET start == FindFirstLine(src, Skip)
      call  == LinesCall(start, Len(src), 0, n_max)
      found == RunLines(src, call, BeforeFirst(start, n_max)).destination
  IN  IF n_max = Unlimited THEN Append(found, LastNewline(src, start)) ELSE found

(* newlines_ of a file that ends in a newline. *)
FileNewlines(src, n_max) ==
  LET start == FindFirstLine(src, Skip)
      call  == LinesCall(start, Len(src) - 1, 0, n_max)
      found == RunLines(src, call, BeforeFirst(start, n_max)).destination
  IN  IF n_max = Unlimited THEN Append(found, LastNewline(src, start)) ELSE found

NumRows(newlines) == Len(newlines) - 1

----------------------------------------------------------------------------
(* Reading a cell. *)

LineEnd(src, begin, newline) ==
  IF newline > begin /\ At(src, newline - 1) = "cr" THEN newline - 1 ELSE newline

(* The characters of the cell in a row, from 1 on, and a column. *)
Get(src, newlines, row, col) ==
  LET from     == newlines[row] + 1
      line_end == LineEnd(src, from + col.start, newlines[row + 1])
      begin    == Min({from + col.start, line_end})
      end      == Min({IF col.end = NA THEN newlines[row + 1] ELSE from + col.end, line_end})
      cell     == IF TrimWs THEN TrimWhitespace(src, begin, end) ELSE <<begin, end>>
  IN  SubSeq(src, cell[1] + 1, cell[2])

TableOf(src, newlines, cols) ==
  [row \in 1 .. NumRows(newlines) |->
     [c \in DOMAIN cols |-> Get(src, newlines, row, cols[c])]]

----------------------------------------------------------------------------
(* Guessing the columns from the first lines of a file. *)

(* The lines before position q: only line feeds count, and set col to 0. *)
RowAt(src, s, q) == Cardinality({k \in s .. (q - 1) : At(src, k) = "lf"})

ColAt(src, s, q) == q - Max({s} \union {k + 1 : k \in {j \in s .. (q - 1) : At(src, j) = "lf"}})

(* find_empty_cols: the columns where is_white is false.  The loop stops    *)
(* when row > n.                                                           *)
InkedCols(src, s, n) ==
  LET inked == {q \in s .. (Len(src) - 1) :
                  /\ At(src, q) \notin {"lf", "cr", "blank"}
                  /\ n > 0 => RowAt(src, s, q) <= n}
  IN  {ColAt(src, s, q) : q \in inked}

(* A mistake: a column ends before its last character. *)
WhitespaceColumns_EndsEarly(src, n) ==
  LET inked == InkedCols(src, FindFirstLine(src, Skip), n)
      begin == SetToSortSeq({c \in inked : c - 1 \notin inked}, <)
      end   == SetToSortSeq({c \in inked : c + 1 \notin inked}, <)
  IN  [k \in DOMAIN begin |-> [start |-> begin[k], end |-> end[k]]]

(* whitespace_columns_: a column is a longest run of those. *)
WhitespaceColumns(src, n) ==
  LET inked == InkedCols(src, FindFirstLine(src, Skip), n)
      begin == SetToSortSeq({c \in inked : c - 1 \notin inked}, <)
      end   == SetToSortSeq({c + 1 : c \in {d \in inked : d + 1 \notin inked}}, <)
  IN  [k \in DOMAIN begin |-> [start |-> begin[k], end |-> end[k]]]

(* fwf_empty: the last column ends where the line ends. *)
FwfEmpty(src, n) ==
  LET cols == WhitespaceColumns(src, n)
  IN  IF cols = <<>> THEN <<>> ELSE [cols EXCEPT ![Len(cols)].end = NA]

=============================================================================
