------------------------- MODULE MCConnectionIndex -------------------------
(***************************************************************************)
(* Small instances of ConnectionIndex: every content with a header of two  *)
(* columns and up to Length rows, with or without a final newline.         *)
(***************************************************************************)
EXTENDS ConnectionIndex

CONSTANT Length  \* at most that many rows follow the header

Plain      == <<"x", "delim", "x">>
Quoted     == {Plain, <<"delim", "quote", "lf", "quote">>,
               <<"quote", "delim", "quote", "delim">>}
OneField   == {Plain, <<"x">>}

Lines(some, newline) == FlattenSeq([k \in 1 .. Len(some) |-> some[k] \o newline])

Whole(kinds, newline, least) ==
  {Lines(<<Plain>> \o some, newline) :
     some \in UNION {[1 .. n -> kinds] : n \in least .. Length}}

Cut(contents, newline) == {SubSeq(c, 1, Len(c) - Len(newline)) : c \in contents}

Both(kinds, newline, least) ==
  LET whole == Whole(kinds, newline, least) IN whole \union Cut(whole, newline)

LineFeeds      == Both(Quoted \union {<<>>}, <<"lf">>, 0)
Contents       == LineFeeds \union Both({Plain}, <<"cr", "lf">>, 1)
ShortLastLines == Both(OneField, <<"lf">>, 0)

Reading(contents, chunk_sizes, limit, skip) ==
  {[content |-> content, chunk_size |-> chunk_size, n_max |-> limit, skip |-> skip] :
     content \in contents, chunk_size \in chunk_sizes}

(* All of a connection, or one row after a line that is skipped.            *)
Readings ==
  Reading(Contents, {6, 7, 9}, Unlimited, 0)
    \union Reading(LineFeeds, {4, 5, 7, 10}, 1, 1)

LastRowReadings == Reading(ShortLastLines, {7}, Unlimited, 0)
=============================================================================
