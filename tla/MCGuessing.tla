---------------------------- MODULE MCGuessing ----------------------------
(***************************************************************************)
(* Columns for Guessing: numerals and dates in the ways they are written,  *)
(* columns whose cells leave something in the parser for the next, and     *)
(* columns to guess the type of.                                           *)
(***************************************************************************)
EXTENDS Guessing

Column(cells, spells, ty, format) ==
  [cells |-> cells, spells |-> spells, type |-> ty, format |-> format, na |-> {<<"NA">>},
   guess_max |-> 3, num_threads |-> 1, lazy |-> FALSE]

One(cell, value, ty, format) == Column(<<cell>>, <<{value}>>, ty, format)

----------------------------------------------------------------------------
(* Numerals. *)

Wholes == {<<>>, <<"0">>, <<"7">>, <<"3", "2", "7", "6", "8">>,
           <<"1", "2", "3", "4", "0", "0">>}

Places == {<<>>, <<"5">>, <<"0", "2", "0">>, <<"1", "2", "5", "0", "0">>}

Exponents == {<<>>, <<"e", "2">>, <<"e", "-", "1", "1">>, <<"e", "+", "3", "0">>}

Numerals(exponents) ==
  {n \in [sign : {<<>>, <<"-">>}, whole : Wholes, places : Places, exponent : exponents] :
     n.whole \o n.places # <<>>}

(* The mantissa has no more digits that count than are looked at. *)
Precise(n) ==
  LET digits == n.whole \o n.places
  IN  \A k \in DOMAIN digits : k > MantissaDigits => digits[k] = "0"

NumberColumns ==
  {One(Spell(n), Amount(n), ty, <<>>) :
     n \in {n \in Numerals(Exponents) : Precise(n)}, ty \in {"double", "number"}}
  \union
  {One(Spell(n), Within(n, IntMax), "integer", <<>>) : n \in Numerals({<<>>})}
  \union
  {One(Spell(n), Within(n, LongMax), "big_integer", <<>>) : n \in Numerals({<<>>})}
  \union
  {One(before \o Spell([n EXCEPT !.whole = <<"1", ",">> \o @]) \o after,
       Amount([n EXCEPT !.whole = <<"1">> \o @]), "number", <<>>) :
     n \in {n \in Numerals({<<>>}) : Len(n.whole) < 3},
     before \in {<<>>, <<"$">>}, after \in {<<>>, <<"%">>, <<",">>}}

(* A numeral in the range of a double that is far from 1. *)
LargeColumns ==
  {One(Spell(n), Amount(n), "double", <<>>) :
     n \in [sign : {<<>>}, whole : {<<"1">>}, places : {<<>>, <<"5">>},
            exponent : {<<"e", "3", "0", "7">>, <<"e", "3", "0", "8">>}]}

----------------------------------------------------------------------------
(* Dates and times. *)

Two(n) == <<Digits[((n \div 10) % 10) + 1], Digits[(n % 10) + 1]>>

Four(n) == Two(n \div 100) \o Two(n % 100)

Dates == [year : {1970, 1999, 2000, 2023}, mon : {1, 2, 12}, day : {1, 28, 29, 31}]

DateValue(d) == IF ValidDate(d) THEN <<Days(d.year, d.mon, d.day)>> ELSE NA

Iso(d) == Four(d.year) \o <<"-">> \o Two(d.mon) \o <<"-">> \o Two(d.day)

DateColumns ==
  {One(s[1], DateValue(s[3]), "date", s[2]) :
     s \in UNION {
       {<<Iso(d), <<>>, d>>, <<Iso(d), <<"%F">>, d>>,
        <<Two(d.mon) \o <<"/">> \o Two(d.day) \o <<"/">> \o Two(d.year % 100), <<"%D">>, d>>,
        <<Two(d.year % 100) \o <<"/">> \o Two(d.mon) \o <<"/">> \o Two(d.day), <<"%x">>, d>>,
        <<Two(d.day) \o <<Months[d.mon]>> \o Four(d.year), <<"%d", "%b", "%Y">>, d>>,
        <<Two(d.day) \o <<".", "x">> \o Two(d.mon) \o <<".", " ">> \o Two(d.year % 100),
          <<"%e", "%+", "%m", "%.", " ", "%y", "%*">>, d>>} :
       d \in Dates}}

Clock == [hour : {0, 1, 11, 12, 13, 23}, min : {0, 30}, sec : {0, 7}]

HalfDay(t) == IF t.hour < 12 THEN <<"am">> ELSE <<"pm">>

OnTwelve(t) == Two(((t.hour + 11) % 12) + 1)

InSeconds(t) == t.hour * 3600 + t.min * 60 + t.sec

TimeColumns ==
  {One(s[1], <<InSeconds(s[3]), 1, <<>>>>, "time", s[2]) :
     s \in UNION {
       {<<Two(t.hour) \o <<":">> \o Two(t.min) \o <<":">> \o Two(t.sec), <<>>, t>>,
        <<OnTwelve(t) \o <<":">> \o Two(t.min) \o <<":">> \o Two(t.sec) \o <<" ">>
            \o HalfDay(t), <<>>, t>>,
        <<<<"+", "0">> \o Two(t.hour) \o <<"h">> \o Two(t.min) \o Two(t.sec),
          <<"%h", "h", "%M", "%OS">>, t>>,
        <<OnTwelve(t) \o Two(t.min) \o Two(t.sec) \o HalfDay(t),
          <<"%I", "%M", "%S", "%p">>, t>>} :
       t \in Clock}}

Paris == <<"Europe/Paris">>

(* The ways to write an offset, in minutes; and none, after a part of a     *)
(* second.                                                                  *)
Offsets ==
  {<<<<"Z">>, 0, <<>>, Utc>>, <<<<"+", "0", "5", ":", "3", "0">>, 330, <<>>, Utc>>,
   <<<<"-", "0", "8", "3", "0">>, -510, <<>>, Utc>>, <<<<"-", "0", "3">>, -180, <<>>, Utc>>,
   <<<<".", "2", "5">>, 0, <<"2", "5">>, TimeZone>>, <<<<>>, 0, <<>>, TimeZone>>}

Instant(d, t, offset) ==
  IF ValidDate(d)
  THEN Moment(Days(d.year, d.mon, d.day), InSeconds(t) - offset[2] * 60, offset[3], offset[4])
  ELSE NA

DateTimeColumns ==
  {One(Iso(d) \o <<"T">> \o Two(t.hour) \o <<":">> \o Two(t.min) \o <<":">> \o Two(t.sec)
         \o offset[1], Instant(d, t, offset), "datetime", <<>>) :
     d \in {d \in Dates : d.mon = 2}, t \in {t \in Clock : t.min = t.sec},
     offset \in Offsets}
  \union
  {One(<<" ">> \o Iso(d) \o <<" ">> \o Two(t.hour) \o <<":">> \o Two(t.min) \o <<" ">> \o Paris,
       Instant(d, [t EXCEPT !.sec = 0], <<<<>>, 0, <<>>, Paris>>), "datetime",
       <<"%F", " ", "%R", "%Z">>) :
     d \in {d \in Dates : d.year = 2000}, t \in Clock}

----------------------------------------------------------------------------
(* Columns of several cells, whose values nothing is said about. *)

Anything(cells) == [row \in DOMAIN cells |-> {}]

TimeTexts ==
  {<<"1", "2", ":", "3", "0", "pm">>, <<"1", "1", ":", "3", "0">>,
   <<"1", ":", "0", "5", ":", "9", "9">>, <<"-", "3">>, <<"NA">>}

StampTexts ==
  {Iso([year |-> 2023, mon |-> 2, day |-> 28]),
   Four(2023) \o Two(2) \o Two(28) \o <<"T", "0", "1", ":", "0", "2", ":", "7", ".", "5">>,
   Iso([year |-> 2023, mon |-> 2, day |-> 28]) \o <<" ", "0", "1", "+", "0", "2">>,
   <<"2", "0", "2", "3", "-">>}

Sharing ==
  {[column EXCEPT !.num_threads = threads, !.lazy = lazy] :
     column \in
       {Column(cells, Anything(cells), "time", format) :
          cells \in [1 .. 3 -> TimeTexts], format \in {<<>>, <<"%h">>, <<"%T">>}}
       \union
       {Column(cells, Anything(cells), "datetime", <<>>) : cells \in [1 .. 3 -> StampTexts]},
     threads \in {2}, lazy \in BOOLEAN}

GuessTexts ==
  {<<"NA">>, <<>>, <<"TRUE">>, <<"1">>, <<"0", "1">>, <<"2", "e", "5">>, <<"$", "5">>,
   <<"1", ",", "0">>, <<"1", "2", ":", "3", "0">>, <<"1", ":", "7", "7">>,
   Iso([year |-> 2023, mon |-> 2, day |-> 28]), Iso([year |-> 2023, mon |-> 2, day |-> 31]),
   Iso([year |-> 2023, mon |-> 2, day |-> 28]) \o <<"T", "0", "1">>}

(* A word among numbers, somewhere in a longer column. *)
WithAWord(n, row) == [r \in 1 .. n |-> IF r = row THEN <<"x">> ELSE <<"7">>]

Guessed ==
  {[column EXCEPT !.guess_max = max, !.na = na] :
     column \in
       {Column(cells, Anything(cells), "guess", <<>>) :
          cells \in UNION {[1 .. n -> GuessTexts] : n \in 0 .. 2}}
       \union
       {Column(WithAWord(n, row), Anything(WithAWord(n, row)), "guess", <<>>) :
          n \in 4 .. 8, row \in 1 .. 8},
     max \in 0 .. 5, na \in {{<<"NA">>}, {<<"NA">>, <<>>}}}

Columns ==
  UNION {NumberColumns, DateColumns, TimeColumns, DateTimeColumns, Sharing, Guessed}

FarColumns == UNION {LargeColumns, NumberColumns}

AbbreviatedMonths ==
  <<"Jan", "Feb", "Mar", "Apr", "May", "Jun", "Jul", "Aug", "Sep", "Oct", "Nov", "Dec">>

AbbreviatedDays == <<"Sun", "Mon", "Tue", "Wed", "Thu", "Fri", "Sat">>

Chicago == <<"America/Chicago">>

AutoDate == <<"%AD">>
AutoTime == <<"%AT">>

=============================================================================
