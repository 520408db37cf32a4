---------------------------- MODULE MCFixedWidth ----------------------------
(***************************************************************************)
(* Small instances of FixedWidthConnection: a line that is skipped, maybe  *)
(* one that is ignored, and up to Length rows.                             *)
(***************************************************************************)
EXTENDS FixedWidthConnection

CONSTANTS
  Length,      \* at most that many rows
  ChunkSizes   \* the sizes of a buffer

NMaxes == {Unlimited, 1, 2}

Heads    == {<<<<"x">>>>, <<<<"x">>, <<"hash">>>>}
Kinds    == {<<"x", "delim">>, <<"blank", "x">>, <<>>}
Newlines == {<<"lf">>, <<"cr", "lf">>, <<"cr">>}

Lines(head, some, newline) ==
  FlattenSeq([k \in 1 .. Len(head \o some) |-> (head \o some)[k] \o newline])

Cut(text, newline) == SubSeq(text, 1, Len(text) - Len(newline))

RowLists == {some \in UNION {[1 .. n -> Kinds] : n \in 1 .. Length} : some[1] # <<>>}

(* No row starts after the first buffer, and no buffer has the carriage     *)
(* return at its end for its first newline.                                *)
Fits(text, chunk_size) ==
  LET size  == chunk_size - 1
      first == FindFirstLine(text, Skip)
      ends  == {q \in first .. (Len(text) - 2) : (q + 1) % size = 0}
  IN  /\ first <= size
      /\ \A q \in ends :
           At(text, q) = "cr" /\ At(text, q + 1) = "lf" =>
             \E k \in Max({first, q + 1 - size}) .. (q - 1) : At(text, k) \in {"lf", "cr"}

Columns == <<[start |-> 0, end |-> 1], [start |-> 1, end |-> NA]>>

Input(text, chunk_size, n_max) ==
  [content |-> text, chunk_size |-> chunk_size, n_max |-> n_max, cols |-> Columns]

Whole(newlines) ==
  {Lines(head, some, newline) : head \in Heads, some \in RowLists, newline \in newlines}

Unended == {Cut(Lines(head, some, newline), newline) :
              head \in Heads, newline \in Newlines,
              some \in {rows \in RowLists : Last(rows) # <<>>}}

Fitting(texts, n_maxes) ==
  {Input(text, chunk_size, n_max) :
     text \in texts, chunk_size \in ChunkSizes, n_max \in n_maxes}

Some(inputs) == {in \in inputs : Fits(in.content, in.chunk_size)}

Empty == {Input(<<>>, 4, Unlimited)}

Gapped == {<<"x", "blank", "x">>, <<"x", "delim">>, <<"blank", "x">>, <<>>}

(* The columns are guessed from two lines of the file. *)
Guessed ==
  {[content |-> text, chunk_size |-> 7, n_max |-> Unlimited, guess |-> 2,
    cols |-> FwfEmpty(text, 2)] :
     text \in {Lines(<<<<"x">>>>, some, newline) :
                 some \in {rows \in [1 .. 3 -> Gapped] : rows[1] # <<>>},
                 newline \in {<<"lf">>, <<"cr", "lf">>}}}

Readings ==
  Some(Fitting(Whole(Newlines), NMaxes) \union Fitting(Unended, {Unlimited})
       \union Guessed \union Empty)
=============================================================================
