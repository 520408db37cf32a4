----------------------------- MODULE FixedWidth -----------------------------
(***************************************************************************)
(* What reading a fixed width file promises: a row for every line that is  *)
(* not skipped, cut at the positions of the columns, in one step, and      *)
(* eventually.  An empty connection may be refused.                        *)
(***************************************************************************)
EXTENDS Integers, SequencesExt

CONSTANTS
  Skip,           \* the argument skip
  TrimWs,         \* the argument trim_ws
  HasComment,     \* comment is not the empty string
  SkipEmptyRows   \* the argument skip_empty_rows, for the lines before the first row

VARIABLES
  input,   \* the text, content, and the arguments, n_max and cols; any will do
  answer   \* the table, once it is there

Newline == {"lf", "cr"}

(* The lines of a text, whatever ends them, without what ends them. *)
LinesOf(text) ==
  LET last(q)  == text[q] = "lf" \/ (text[q] = "cr" /\ (q < Len(text) => text[q + 1] # "lf"))
      starts   == {1} \union {q + 1 : q \in {k \in DOMAIN text : last(k)}}
      first    == SetToSortSeq(starts \ {Len(text) + 1}, <)
      line(s)  == SubSeq(text, s, Min({q \in s .. (Len(text) + 1) :
                                         q = Len(text) + 1 \/ text[q] \in Newline}) - 1)
  IN  [k \in DOMAIN first |-> line(first[k])]

Without(line, chars) == SelectSeq(line, LAMBDA c : c \notin chars)

Ignored(line) ==
  \/ SkipEmptyRows /\ Without(line, {"blank"}) = <<>>
  \/ HasComment /\ Head(Append(Without(line, {"blank"}), "lf")) = "hash"

(* The rows: the lines after Skip lines and the blank lines and comments    *)
(* that follow them, n_max of them at most.                                *)
RowsOf(text, n_max) ==
  LET lines == LinesOf(text)
      first == Min({k \in (Skip + 1) .. (Skip + Len(lines) + 1) :
                      k > Len(lines) \/ ~Ignored(lines[k])})
      all   == SubSeq(lines, first, Len(lines))
  IN  IF n_max = -1 THEN all ELSE SubSeq(all, 1, Min({n_max, Len(all)}))

Trimmed(cell) ==
  LET inked == {q \in DOMAIN cell : cell[q] # "blank"}
  IN  IF inked = {} THEN <<>> ELSE SubSeq(cell, Min(inked), Max(inked))

(* The cell of a line in a column; end = -1 is NA, the rest of the line. *)
Cell(line, col) ==
  LET end  == IF col.end = -1 THEN Len(line) ELSE Min({col.end, Len(line)})
      cell == SubSeq(line, col.start + 1, end)
  IN  IF TrimWs THEN Trimmed(cell) ELSE cell

Table(in) ==
  LET lines == RowsOf(in.content, in.n_max)
  IN  [k \in DOMAIN lines |-> [c \in DOMAIN in.cols |-> Cell(lines[k], in.cols[c])]]

Init == answer = [phase |-> "reading"]

Read ==
  /\ answer.phase = "reading"
  /\ answer' \in {[phase |-> "done", table |-> table] : table \in {Table(input)}}
  /\ UNCHANGED input

Refuse ==
  /\ answer.phase = "reading"
  /\ input.content = <<>>
  /\ answer' = [phase |-> "stopped"]
  /\ UNCHANGED input

Spec == Init /\ [][Read \/ Refuse]_<<input, answer>> /\ <>(answer.phase # "reading")

=============================================================================
