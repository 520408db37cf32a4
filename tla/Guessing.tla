------------------------------ MODULE Guessing ------------------------------
(***************************************************************************)
(* A column from its cells to its values: the rows that are sampled, the   *)
(* type that is guessed from them (resolve_collectors, guess_type__), and  *)
(* the cells read by the threads of parallel_for or one at a time when the *)
(* column is lazy.                                                         *)
(*                                                                         *)
(* An input is the texts of the cells, the values that they spell (a set   *)
(* for each row, empty where nothing is expected), the type that was asked *)
(* for ("guess" if none) with its format, the texts that stand for NA,     *)
(* guess_max, and how the column is read.                                  *)
(***************************************************************************)
EXTENDS DateTimes

CONSTANT Inputs

ASSUME GuessingAssumption ==
  \A i \in Inputs :
    /\ Len(i.spells) = Len(i.cells)
    /\ i.guess_max \in Nat
    /\ i.num_threads \in Nat \ {0}
    /\ i.lazy \in BOOLEAN

VARIABLES
  input,
  pc,       \* "resolve" or "read"
  sampled,  \* the rows whose cells the type is guessed from
  type,     \* the type of the column
  parsers,  \* the parser of each thread, or of the lazy column
  out,      \* the values that have been read, by row
  errors    \* the rows that are reported

vars == <<input, pc, sampled, type, parsers, out, errors>>

Rows == DOMAIN input.cells

Cell(row) == input.cells[row]

----------------------------------------------------------------------------
(* resolve_collectors: rows at equal distances, and always the last one. *)

GuessNum == Min({Len(input.cells), input.guess_max})

(* A mistake: the rows end where the distances take them. *)
SampledRows_NotTheLast ==
  LET step == Len(input.cells) \div GuessNum
  IN  {1 + j * step : j \in 0 .. GuessNum - 1}

SampledRows ==
  IF GuessNum = 0 THEN {}
  ELSE LET step == Len(input.cells) \div GuessNum
       IN  {1 + j * step : j \in 0 .. GuessNum - 2} \union {Len(input.cells)}

----------------------------------------------------------------------------
(* guess_type__. *)

Logical(s) ==
  CASE s \in {<<"TRUE">>, <<"1">>}  -> <<1>>
    [] s \in {<<"FALSE">>, <<"0">>} -> <<0>>
    [] OTHER -> NA

IsLogical(s) == s \in {<<"TRUE">>, <<"FALSE">>}

(* A zero that leads something other than the places of a number. *)
LeadingZero(s) == Len(s) > 1 /\ s[1] = "0" /\ s[2] # DecimalMark

IsDouble(s) == ~LeadingZero(s) /\ BsdStrtod(s) # NA

IsNumber(s) == ~LeadingZero(s) /\ ParseNum(s, TRUE) # NA

IsTime(s) == Found(Parse(s, NewParser, TimeFormat))

(* A mistake: dates that only the ISO 8601 parser reads are dates as well. *)
IsDate_Iso(s) ==
  Found(Parse(s, NewParser, DateFormat)) \/ Found(ParseIso(s, NewParser))

IsDate(s) == Found(Parse(s, NewParser, DateFormat))

IsDateTime(s) ==
  \E p \in {ParseIso(s, NewParser)} : Found(p) /\ ValidDate(p) /\ ValidTime(p)

(* What the guess looks at: the cells that are neither NA nor empty.        *)
Texts(rows) == {Cell(row) : row \in rows} \ (input.na \union {<<>>})

GuessType(rows) ==
  IF rows = {} THEN "character"
  ELSE IF \A row \in rows : Cell(row) = <<>> THEN "logical"
  ELSE IF \A s \in Texts(rows) : IsLogical(s) THEN "logical"
  ELSE IF \A s \in Texts(rows) : IsDouble(s) THEN "double"
  ELSE IF \A s \in Texts(rows) : IsNumber(s) THEN "number"
  ELSE IF \A s \in Texts(rows) : IsTime(s) THEN "time"
  ELSE IF \A s \in Texts(rows) : IsDate(s) THEN "date"
  ELSE IF \A s \in Texts(rows) : IsDateTime(s) THEN "datetime"
  ELSE "character"

----------------------------------------------------------------------------
(* The readers of the types: a value, and the parser that is left. *)

Read(s, parser) ==
  CASE type = "logical"     -> <<Logical(s), parser>>
    [] type = "integer"     -> <<Strtoi(s), parser>>
    [] type = "big_integer" -> <<Strtoll(s), parser>>
    [] type = "double"      -> <<BsdStrtod(s), parser>>
    [] type = "number"      -> <<ParseNum(s, FALSE), parser>>
    [] type = "time"        -> ReadTime(s, parser, input.format)
    [] type = "date"        -> ReadDate(s, parser, input.format)
    [] type = "datetime"    -> ReadDateTime(s, parser, input.format)
    [] type = "character"   -> <<s, parser>>

(* A mistake: the rows that are left over belong to no thread. *)
Batch_NoRemainder(t) ==
  LET size == Len(input.cells) \div input.num_threads
  IN  (t - 1) * size + 1 .. t * size

(* parallel_for: the last thread takes what is left over. *)
Batch(t) ==
  LET size == Len(input.cells) \div input.num_threads
  IN  (t - 1) * size + 1 .. IF t = input.num_threads THEN Len(input.cells) ELSE t * size

Threads == IF input.lazy THEN {1} ELSE 1 .. input.num_threads

----------------------------------------------------------------------------
Init ==
  /\ input \in Inputs
  /\ pc = "resolve" /\ sampled = {} /\ type = input.type
  /\ parsers = <<>> /\ out = <<>> /\ errors = {}

Resolve ==
  /\ pc = "resolve"
  /\ pc' = "read"
  /\ IF input.type = "guess"
     THEN sampled' = SampledRows /\ type' = GuessType(SampledRows)
     ELSE UNCHANGED <<sampled, type>>
  /\ parsers' = [t \in Threads |-> NewParser]
  /\ UNCHANGED <<input, out, errors>>

(* parse_value: a cell that stands for NA is not parsed. *)
ReadCell(t, row) ==
  /\ IF Cell(row) \in input.na
     THEN /\ out' = out @@ (row :> NA)
          /\ UNCHANGED <<parsers, errors>>
     ELSE \E read \in {Read(Cell(row), parsers[t])} :
            /\ out' = out @@ (row :> read[1])
            /\ parsers' = [parsers EXCEPT ![t] = read[2]]
            /\ errors' = IF read[1] = NA /\ type # "character" THEN errors \union {row}
                         ELSE errors
  /\ UNCHANGED <<input, pc, sampled, type>>

(* A thread reads the next cell of its batch. *)
ReadNext(t) ==
  /\ pc = "read" /\ ~input.lazy
  /\ \E row \in Batch(t) \ DOMAIN out :
       /\ \A before \in Batch(t) : before < row => before \in DOMAIN out
       /\ ReadCell(t, row)

(* An element of a lazy column: in any order, all with one parser. *)
ReadElement ==
  /\ pc = "read" /\ input.lazy
  /\ \E row \in Rows \ DOMAIN out : ReadCell(1, row)

AllRead ==
  /\ pc = "read"
  /\ IF input.lazy THEN Rows \subseteq DOMAIN out
     ELSE \A t \in Threads : Batch(t) \subseteq DOMAIN out

Done == AllRead /\ UNCHANGED vars

Next == Resolve \/ (\E t \in Threads : ReadNext(t)) \/ ReadElement \/ Done

Spec == Init /\ [][Next]_vars

----------------------------------------------------------------------------
(* Properties.                                                             *)

(* The sample has as many rows as guess_max allows, the first and the last  *)
(* among them when it has two: resolve_collectors' arithmetic of distances  *)
(* neither repeats a row nor passes over the end of the column.             *)
SampleIsSpread ==
  pc = "read" /\ input.type = "guess" =>
    /\ Cardinality(sampled) = GuessNum
    /\ GuessNum > 0 => Len(input.cells) \in sampled
    /\ GuessNum > 1 => 1 \in sampled

(* A type is guessed only if the column's reader, which is other code than  *)
(* the guess, reads every cell of the sample: no cell that was looked at is *)
(* reported.  Two exceptions are the code's: a guess of a date or a time    *)
(* does not ask whether there is such a day or minute, and an empty cell    *)
(* fits every type but is a value only if it stands for NA.                 *)
GuessReadsTheSample ==
  input.type = "guess" =>
    \A row \in errors \intersect sampled :
      \/ Cell(row) = <<>>
      \/ type = "date" /\ ~ValidDate(ReadDate(Cell(row), NewParser, <<>>)[2])
      \/ type = "time" /\ Duration(ReadTime(Cell(row), NewParser, <<>>)[2]) = NA

(* Each row holds what a parser that has read nothing before finds in its   *)
(* cell: what a parser keeps of the cells before (setDate resets it) does   *)
(* not get into the next value, in whatever order rows are read and however *)
(* they are shared among threads; and at the end there is every row.        *)
ReadsAlone ==
  /\ \A row \in DOMAIN out :
       out[row] = IF Cell(row) \in input.na THEN NA ELSE Read(Cell(row), NewParser)[1]
  /\ AllRead => DOMAIN out = Rows

(* A numeral, a date or a time that is written in one of the ways the       *)
(* format allows is read as what was written.                               *)
ReadsWhatIsSpelled ==
  \A row \in DOMAIN out : input.spells[row] # {} => out[row] \in input.spells[row]

=============================================================================
