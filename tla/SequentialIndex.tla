--------------------------- MODULE SequentialIndex --------------------------
(***************************************************************************)
(* What the constructor of delimited_index computes with one thread        *)
(* (src/delimited_index.cc): the reference that the threads must agree     *)
(* with.  The first row is indexed on its own, to count the columns; the   *)
(* rest of the file is one region.                                         *)
(***************************************************************************)
EXTENDS IndexRegion

CONSTANT HasHeader  \* the argument has_header, 0 or 1

ASSUME HeaderAssumption == HasHeader \in {0, 1}

(* Mistakes: the header is not counted, or the first row is not. *)
NMaxWithHeader_NoHeader(n_max) == n_max

NMaxAfter_KeepsAll(n_max, lines) ==
  IF n_max = Unlimited THEN Unlimited ELSE n_max + HasHeader

(* n_max counts the header, and then what the first row left of it. *)
NMaxWithHeader(n_max) == IF n_max = Unlimited THEN Unlimited ELSE n_max + HasHeader

NMaxAfter(n_max, lines) ==
  IF n_max = Unlimited THEN Unlimited
  ELSE IF NMaxWithHeader(n_max) > lines THEN NMaxWithHeader(n_max) - lines ELSE 0

(* The call for the first row.  It never reports progress before its end. *)
FirstRegion(start, nl, n_max, threads, size) ==
  Region(start, nl[1] + 1, nl[2], NMaxWithHeader(n_max), 0, threads, size)

(* The call of the one thread of n_max, which reads on after the first row. *)
RestRegion(nl, n_max, lines_read, cols, size) ==
  Region(nl[1] + 1, size, nl[2], NMaxAfter(n_max, lines_read), cols, 1, size \div 100)

(* A mistake: the end of a batch is taken to be included in it. *)
BatchRegion_EndIncluded(src, nl, n_max, cols, threads, id) ==
  LET elements == Len(src) - nl[1]
      batch    == elements \div threads
      end      == IF id = threads - 1 THEN elements ELSE (id + 1) * batch
      from     == FindNextNewline(src, nl[1] + id * batch)
      until    == FindNextNewline(src, nl[1] + end - 1)
  IN  Region(from[1] + 1, until[1] + 1, from[2], NMaxWithHeader(n_max), cols, threads,
             Len(src) \div 100)

(* The call of batch id of parallel_for: its ends move to the next newline, *)
(* and the last batch includes the remainder.                              *)
BatchRegion(src, nl, n_max, cols, threads, id) ==
  LET elements == Len(src) - nl[1]
      batch    == elements \div threads
      end      == IF id = threads - 1 THEN elements ELSE (id + 1) * batch
      from     == FindNextNewline(src, nl[1] + id * batch)
      until    == FindNextNewline(src, nl[1] + end)
  IN  Region(from[1] + 1, until[1] + 1, from[2], NMaxWithHeader(n_max), cols, threads,
             Len(src) \div 100)

ColumnsOf(first) ==
  IF first.destination = <<>> THEN 0 ELSE Len(first.destination) - 1

RowsOf(size, cols) ==
  LET n == IF cols > 0 THEN size \div (cols + 1) ELSE 0
  IN  IF n > 0 THEN n - HasHeader ELSE n

(* An index: the separators found, in the order of the file, the number of  *)
(* columns and rows, and the parse errors, which are sorted before use.     *)
EmptyIndex == [separators |-> <<>>, columns |-> 0, rows |-> 0, errors |-> <<>>]

SequentialAnswer(src, n_max, skip) ==
  LET start == FindFirstLine(src, skip)
      nl    == FindNewline(src, start)
      p0    == FirstRegion(start, nl, n_max, 1, Len(src))
      head  == RunRegion(src, p0, Enter(p0, "RECORD_START", 0, <<>>))
      first == head.locals
      cols  == ColumnsOf(first)
      p1    == IF n_max # Unlimited THEN RestRegion(nl, n_max, first.lines_read, cols, Len(src))
               ELSE BatchRegion(src, nl, n_max, cols, 1, 0)
      rest  == RunRegion(src, p1,
                 IF n_max # Unlimited THEN Enter(p1, first.state, first.cols, <<>>)
                 ELSE Enter(p1, "RECORD_START", 0, <<>>))
      seps  == first.destination \o rest.locals.destination
  IN  IF start >= Len(src) - 1 THEN EmptyIndex
      ELSE [separators |-> seps, columns |-> cols, rows |-> RowsOf(Len(seps), cols),
            errors |-> head.errors \o rest.errors]

=============================================================================
