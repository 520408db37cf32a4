-------------------------- MODULE MCDelimitedIndex --------------------------
(***************************************************************************)
(* Small instances of DelimitedIndex: every file with an empty line, a     *)
(* header of two columns, Length elements of one of Alphabets, and a final *)
(* newline; files that have no header; and one with a longer field.        *)
(***************************************************************************)
EXTENDS DelimitedIndex

CONSTANTS
  Alphabets,  \* sets of the character sequences that a file is made of
  Length      \* how many of them there are between the header and the end

FilesOver(alphabet) ==
  LET newline == IF <<"cr", "lf">> \in alphabet THEN <<"cr", "lf">> ELSE <<"lf">>
      header  == newline \o <<"x", "delim", "x">> \o newline
  IN  {header \o FlattenSeq(body) \o newline : body \in [1 .. Length -> alphabet]}

Headless == {<<"lf">>, <<"hash", "lf">>, <<"x", "lf", "hash", "lf", "x", "lf">>}

(* A newline in a field, far from where batches may end. *)
LongField ==
  {<<"lf", "x", "delim", "x", "lf",
     "quote", "lf", "quote", "delim", "x", "x", "x", "x", "lf",
     "x", "delim", "x", "lf">>}

AllFiles == Headless \union LongField \union UNION {FilesOver(alphabet) : alphabet \in Alphabets}

Quoted     == {<<"x">>, <<"delim">>, <<"quote">>, <<"lf">>}
Windows    == {<<"x">>, <<"quote">>, <<"cr", "lf">>}
Commented  == {<<"quote">>, <<"hash">>, <<"lf">>}
Spaced     == {<<"delim">>, <<"blank">>, <<"lf">>}

Layouts == {Quoted, Windows, Commented, Spaced}

AFewOrAll == {0, 1, Unlimited}

=============================================================================
