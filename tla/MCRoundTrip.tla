---------------------------- MODULE MCRoundTrip -----------------------------
(***************************************************************************)
(* Small instances of RoundTrip: tables of two columns, with every pair of *)
(* cells of up to Length characters in one row, before or after a plain    *)
(* row, and texts of two columns with lines of one to four fields.         *)
(***************************************************************************)
EXTENDS RoundTrip

CONSTANT Length  \* the characters of a cell

Special == {"delim", "quote", "lf", "cr", "blank", "x"}

Strings == UNION {[1 .. n -> Special] : n \in 0 .. Length}

Plain == <<<<"x">>, <<"blank">>>>

Pairs == {<<a, b>> : a \in Strings, b \in {<<>>, <<"cr">>}}
           \union {<<<<"x">>, a>> : a \in Strings}

Table(names, cells, eol, quote, trim_ws) ==
  [names |-> names, cells |-> cells, eol |-> eol, quote |-> quote, trim_ws |-> trim_ws]

Eols == {<<"lf">>, <<"cr", "lf">>, <<"cr">>}

Tables ==
  {Table(Plain, cells, how[1], how[2], trim_ws) :
     cells \in UNION {{<<pair>>, <<pair, Plain>>} : pair \in Pairs},
     how \in (Eols \X {"needed"}) \union {<<<<"lf">>, "all">>}, trim_ws \in BOOLEAN}
  \union
  {Table(pair, <<Plain>>, eol, "needed", FALSE) : pair \in Pairs, eol \in Eols}

Fields == {<<>>, <<"x">>, <<"blank", "x">>}

Texts ==
  LET line(fields) ==
        FlattenSeq([k \in DOMAIN fields |->
                      fields[k] \o IF k = Len(fields) THEN <<>> ELSE <<"delim">>])
      short == {line(<<f>>) : f \in Fields \ {<<>>}}
      long  == {line(<<f, g>>) : f \in Fields, g \in Fields}
      wide  == {line(<<f, <<"x">>, g>>) : f \in Fields, g \in Fields}
      texts(eol) ==
        {[lines |-> lines, trim_ws |-> trim_ws,
          text |-> FlattenSeq([k \in DOMAIN lines |-> lines[k] \o eol])] :
           lines \in {<<line(Plain), a, b>> : a \in short \union long \union wide,
                                              b \in short \union wide},
           trim_ws \in IF eol = <<"lf">> THEN BOOLEAN ELSE {TRUE}}
  IN  UNION {texts(eol) : eol \in Eols}

SomeInputs == UNION {Tables, Texts}
=============================================================================
