---------------------------- MODULE MCLazyColumn ----------------------------
(***************************************************************************)
(* Small instances of LazyColumn: data frames of two rows and up to three  *)
(* columns.                                                                *)
(***************************************************************************)
EXTENDS LazyColumn

Lazy(kind, number, cells) ==
  [kind |-> kind, lazy |-> TRUE, number |-> number, cells |-> cells]

Eagerly(kind, number, cells) ==
  [kind |-> kind, lazy |-> FALSE, number |-> number, cells |-> cells]

Frame(columns, ragged) == [rows |-> 2, ragged |-> ragged, columns |-> columns]

SomeFrames ==
  {Frame(<<Lazy("num", 1, <<"ok", "bad">>), Lazy("fct", 3, <<"na", "bad">>)>>, {}),
   Frame(<<Lazy("rle", 0, <<1, 0, 1>>), Lazy("chr", 1, <<"bad", "ok">>)>>, {2}),
   Frame(<<Lazy("dttm", 1, <<"bad", "ok">>)>>, {}),
   Frame(<<Lazy("fct", 1, <<"bad", "ok">>)>>, {1}),
   Frame(<<Eagerly("num", 1, <<"bad", "na">>), Lazy("num", 2, <<"bad", "ok">>)>>, {1})}

SubsetFrames == {Frame(<<Lazy("num", 1, <<"ok", "bad">>)>>, {})}
=============================================================================
