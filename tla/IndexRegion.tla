---------------------------- MODULE IndexRegion ----------------------------
(***************************************************************************)
(* delimited_index::index_region, the loop that finds the fields of a      *)
(* region of a delimited file, and the helpers it is built from            *)
(* (src/delimited_index.h, src/utils.h).                                   *)
(*                                                                         *)
(* A file is a sequence of characters, abstracted to the classes that the  *)
(* loop tells apart; the delimiter and the comment string are one          *)
(* character long.  Positions count from 0, as in the code: a file src has *)
(* the positions 0 .. Len(src)-1.                                          *)
(*                                                                         *)
(* A call of index_region is a record p of its arguments and a record r of *)
(* its local variables; IndexStep(src, p, r) is one iteration of the loop. *)
(***************************************************************************)
EXTENDS Integers, SequencesExt

CONSTANTS
  EscapeBackslash,  \* the option escape_backslash
  HasQuote,         \* quote is not the empty string
  HasComment,       \* comment is not the empty string
  SkipEmptyRows     \* the option skip_empty_rows

ASSUME OptionsAssumption ==
  {EscapeBackslash, HasQuote, HasComment, SkipEmptyRows} \subseteq BOOLEAN

Char == {"delim", "quote", "lf", "cr", "bslash", "hash", "blank", "x"}

Blank == {"blank", "cr"}

(* n_max = -1: no limit on the number of lines. *)
Unlimited == -1

Below(n, limit) == limit = Unlimited \/ n < limit

At(src, pos) == IF pos < Len(src) THEN src[pos + 1] ELSE "eof"

(* strcspn, memchr: the first position from pos on that holds one of chars, *)
(* or the end of the file.                                                  *)
FirstOf(src, pos, chars) ==
  CHOOSE q \in pos .. Len(src) :
    /\ q = Len(src) \/ At(src, q) \in chars
    /\ \A k \in pos .. (q - 1) : At(src, k) \notin chars

(* The same, for the characters that are in none of the classes of chars. *)
FirstNotOf(src, pos, chars) == FirstOf(src, pos, Char \ chars)

SkipRestOfLine(src, pos) == FirstOf(src, pos, {"lf"})

IsComment(src, pos, end) ==
  HasComment /\ end - pos > 1 /\ At(src, pos) = "hash"

IsEmptyLine(src, pos, end) ==
  LET q == FirstNotOf(src, pos, Blank)
  IN  SkipEmptyRows /\ At(src, IF q < end THEN q ELSE end) = "lf"

(* What is left between begin and end without the blanks at both ends. *)
TrimWhitespace(src, begin, end) ==
  LET inked == {q \in begin .. (end - 1) : At(src, q) \notin Blank}
  IN  IF inked = {} THEN <<end, end>> ELSE <<Min(inked), Max(inked) + 1>>

(* is_blank_or_comment_line, which only find_first_line uses. *)
IsBlankLine(src, pos) ==
  SkipEmptyRows /\ At(src, FirstNotOf(src, pos, {"blank"})) \in {"lf", "cr"}

IsCommentLine(src, pos) ==
  HasComment /\ At(src, FirstNotOf(src, pos, {"blank"})) = "hash"

----------------------------------------------------------------------------
(* The position of a newline and the character that ends the lines of a     *)
(* region (newline_type: CR, or any of LF, CRLF and NA).                    *)

NewlineAt(src, pos, end) ==
  IF At(src, pos) # "cr"                              THEN <<pos, "lf">>
  ELSE IF pos + 1 < end /\ At(src, pos + 1) = "lf"    THEN <<pos + 1, "lf">>
  ELSE                                                     <<pos, "cr">>

(* find_next_newline with embedded_nl false: quotes are not looked at. *)
FindNextNewline(src, pos) ==
  IF pos >= Len(src) THEN <<Len(src) - 1, "lf">>
  ELSE NewlineAt(src, FirstOf(src, pos, {"lf", "cr"}), Len(src))

(* Has the loop that starts at pos passed an odd number of quotes at q? *)
InQuote(src, pos, q) ==
  Cardinality({k \in pos .. (q - 1) : At(src, k) = "quote"}) % 2 = 1

(* The next newline outside quotes, or the end of the file.  The loop       *)
(* stops before the last position when it gets there one step at a time.    *)
FindNextNonQuotedNewline(src, pos, quoted) ==
  LET last == Len(src) - 1
      hits == {q \in pos .. last :
                 /\ At(src, q) \in {"lf", "cr"}
                 /\ quoted => ~InQuote(src, pos, q)
                 /\ q = last =>
                      q > pos /\ At(src, q - 1) \notin {"lf", "cr", "quote"}}
  IN  IF hits = {} THEN <<last, "lf">>
      ELSE NewlineAt(src, Min(hits), last)

(* find_next_newline with embedded_nl = has_quoted_newlines. *)
FindNewline(src, pos) ==
  IF HasQuote THEN FindNextNonQuotedNewline(src, pos, TRUE)
  ELSE FindNextNewline(src, pos)

(* The loop of find_first_line: it goes over the lines of the skip         *)
(* parameter, blank lines and comments.  Quotes in a comment line are not  *)
(* looked at.                                                              *)
SkipsLine(src, pos, skip) ==
  /\ pos < Len(src) - 1
  /\ skip > 0 \/ IsBlankLine(src, pos) \/ IsCommentLine(src, pos)

NextLine(src, pos) ==
  1 + IF HasQuote
      THEN FindNextNonQuotedNewline(src, pos, ~IsCommentLine(src, pos))[1]
      ELSE FindNextNewline(src, pos)[1]

(* find_first_line, all of its loop. *)
FindFirstLine(src, skip) ==
  LET next(pos, n) == IF SkipsLine(src, pos, skip - n) THEN NextLine(src, pos) ELSE pos
      line[n \in 0 .. Len(src)] ==
        IF n = 0 THEN 0
        ELSE CHOOSE pos \in {next(before, n - 1) : before \in {line[n - 1]}} : TRUE
  IN  line[Len(src)]

----------------------------------------------------------------------------
(* csv_state and its transitions. *)

CsvState == {"RECORD_START", "FIELD_START", "UNQUOTED_FIELD", "QUOTED_FIELD",
             "QUOTED_END"}

QuotedState(in) ==
  CASE in \in {"RECORD_START", "FIELD_START", "QUOTED_END"} -> "QUOTED_FIELD"
    [] in = "UNQUOTED_FIELD"                                -> "UNQUOTED_FIELD"
    [] in = "QUOTED_FIELD"                                  -> "QUOTED_END"

CommaState(in) == IF in = "QUOTED_FIELD" THEN in ELSE "FIELD_START"

NewlineState(in) == IF in = "QUOTED_FIELD" THEN in ELSE "RECORD_START"

OtherState(in) ==
  IF in \in {"RECORD_START", "FIELD_START"} THEN "UNQUOTED_FIELD" ELSE in

----------------------------------------------------------------------------
(* One call of index_region: its arguments, and its locals, destination     *)
(* and result.  cols and state are references in the code, and may come     *)
(* from an earlier call.                                                    *)

Region(start, end, nl, n_max, num_cols, num_threads, update_size) ==
  [start |-> start, end |-> end, nl |-> nl, n_max |-> n_max,
   num_cols |-> num_cols, num_threads |-> num_threads,
   update_size |-> update_size, file_offset |-> 0]

Enter(p, state, cols, destination) ==
  [pos |-> p.start, state |-> state, cols |-> cols,
   destination |-> destination, lines_read |-> 0, last_tick |-> p.start,
   out |-> "running"]

CallType ==
  [start : Nat, end : Nat, nl : {"lf", "cr"}, n_max : Nat \union {Unlimited},
   num_cols : Nat, num_threads : Nat \ {0}, update_size : Nat,
   file_offset : Nat]

LocalsType ==
  [pos : Nat, state : CsvState, cols : Nat, destination : Seq(Nat),
   lines_read : Nat, last_tick : Nat,
   out : {"idle", "running", "end", "n_max", "newline_error"}]

(* buf[pos] starts a quote of a quoted field, if there are quotes at all. *)
IsQuote(c) == HasQuote /\ c = "quote"

(* The characters that other_state's strcspn stops at. *)
Query(nl) ==
  {"delim", nl, "bslash"} \union (IF HasQuote THEN {"quote"} ELSE {})
                          \union (IF HasComment THEN {"hash"} ELSE {})

Push(r, pos) == [r EXCEPT !.destination = Append(@, pos)]

(* A mistake: one separator too few is dropped.                             *)
ResolveColumns_KeepsOne(p, r) ==
  IF p.num_cols = 0 \/ r.pos <= p.start THEN r
  ELSE IF r.cols >= p.num_cols
  THEN [r EXCEPT !.destination = SubSeq(@, 1, Len(@) - (r.cols - p.num_cols))]
  ELSE [r EXCEPT !.destination =
                   @ \o [k \in 1 .. (p.num_cols - 1 - r.cols) |-> r.pos]]

(* resolve_columns drops the separators of extra columns, and repeats the   *)
(* end of the record for the missing ones.                                  *)
ResolveColumns(p, r) ==
  IF p.num_cols = 0 \/ r.pos <= p.start THEN r
  ELSE IF r.cols >= p.num_cols
  THEN [r EXCEPT !.destination =
                   SubSeq(@, 1, Len(@) - (r.cols - p.num_cols + 1))]
  ELSE [r EXCEPT !.destination =
                   @ \o [k \in 1 .. (p.num_cols - 1 - r.cols) |->
                           r.pos + p.file_offset]]

BadColumns(p, r) ==
  p.num_cols > 0 /\ r.pos > p.start /\ r.cols # p.num_cols - 1

Escape(p, r) ==
  LET s == IF r.state = "RECORD_START"
           THEN [Push(r, r.pos + 1 + p.file_offset) EXCEPT !.state = "FIELD_START"]
           ELSE r
  IN  [s EXCEPT !.pos = r.pos + 2]

SkipComment(src, p, r) ==
  LET s == IF r.state = "RECORD_START" THEN r
           ELSE Push(ResolveColumns(p, r), r.pos + p.file_offset)
  IN  [s EXCEPT !.cols = 0, !.pos = SkipRestOfLine(src, r.pos) + 1,
                !.state = NewlineState(r.state)]

SkipEmptyLine(src, r) == [r EXCEPT !.pos = SkipRestOfLine(src, r.pos) + 1]

(* A record starts where the loop is in state RECORD_START. *)
StartRecord(p, r) ==
  IF r.state = "RECORD_START" THEN Push(r, r.pos + p.file_offset) ELSE r

Delimiter(p, r) ==
  [Push(StartRecord(p, r), r.pos + p.file_offset) EXCEPT
     !.state = CommaState(r.state), !.cols = @ + 1, !.pos = @ + 1]

(* A mistake: several threads go on as one does. *)
QuotedNewline_GoesOn(p, r) == [r EXCEPT !.pos = @ + 1]

(* A newline in a quoted field: only one thread can go on. *)
QuotedNewline(p, r) ==
  IF p.num_threads # 1 THEN [r EXCEPT !.out = "newline_error"]
  ELSE [r EXCEPT !.pos = @ + 1]

EndRecord(p, r) ==
  LET s == [Push(ResolveColumns(p, StartRecord(p, r)), r.pos + p.file_offset)
              EXCEPT !.state = NewlineState(r.state), !.cols = 0,
                     !.lines_read = @ + 1]
  IN  IF ~Below(s.lines_read, p.n_max) THEN [s EXCEPT !.out = "n_max"]
      ELSE [s EXCEPT !.pos = @ + 1,
                     !.last_tick = IF r.pos - @ > p.update_size THEN r.pos ELSE @]

QuoteChar(p, r) ==
  [StartRecord(p, r) EXCEPT !.state = QuotedState(r.state), !.pos = @ + 1]

OtherChars(src, p, r) ==
  [StartRecord(p, r) EXCEPT
     !.state = OtherState(r.state),
     !.pos = IF @ + 1 < p.end THEN FirstOf(src, @ + 1, Query(p.nl)) ELSE @ + 1]

(* What the next iteration does: the loop's conditions, in their order. *)
Kind(src, p, r) ==
  LET c        == At(src, r.pos)
      unquoted == r.state # "QUOTED_FIELD"
  IN  IF r.pos >= p.end \/ ~Below(r.lines_read, p.n_max)           THEN "return"
      ELSE IF EscapeBackslash /\ c = "bslash"                      THEN "escape"
      ELSE IF unquoted /\ IsComment(src, r.pos, p.end)             THEN "comment"
      ELSE IF r.state = "RECORD_START" /\ IsEmptyLine(src, r.pos, p.end)
                                                                   THEN "empty"
      ELSE IF unquoted /\ c = "delim"                              THEN "delim"
      ELSE IF c = p.nl /\ unquoted                                 THEN "newline"
      ELSE IF c = p.nl                                             THEN "quoted_nl"
      ELSE IF IsQuote(c)                                           THEN "quote"
      ELSE                                                              "other"

(* One iteration of the loop, or the tick and the return after it. *)
IndexStep(src, p, r) ==
  LET kind == Kind(src, p, r)
  IN  CASE kind = "return"    -> [r EXCEPT !.last_tick = p.end, !.out = "end"]
        [] kind = "escape"    -> Escape(p, r)
        [] kind = "comment"   -> SkipComment(src, p, r)
        [] kind = "empty"     -> SkipEmptyLine(src, r)
        [] kind = "delim"     -> Delimiter(p, r)
        [] kind = "newline"   -> EndRecord(p, r)
        [] kind = "quoted_nl" -> QuotedNewline(p, r)
        [] kind = "quote"     -> QuoteChar(p, r)
        [] kind = "other"     -> OtherChars(src, p, r)

(* The parse error that the next iteration reports, if any: a record that   *)
(* ends, at a newline or at a comment, with a wrong number of columns.     *)
ParseErrors(src, p, r) ==
  LET kind == Kind(src, p, r)
      ends == kind = "newline" \/ (kind = "comment" /\ r.state # "RECORD_START")
  IN  IF ends /\ BadColumns(p, r)
      THEN <<[position |-> r.pos + p.file_offset, column |-> r.cols]>>
      ELSE <<>>

(* A whole call: the locals at its end, and the errors it reported.  (A     *)
(* bound variable is evaluated once by TLC, an operator's argument is not.) *)
RunRegion(src, p, entry) ==
  LET step(call) ==
        IF call.locals.out # "running" THEN call
        ELSE [locals |-> IndexStep(src, p, call.locals),
              errors |-> call.errors \o ParseErrors(src, p, call.locals)]
      run[n \in 0 .. (p.end - p.start + 1)] ==
        IF n = 0 THEN [locals |-> entry, errors |-> <<>>]
        ELSE CHOOSE after \in {step(before) : before \in {run[n - 1]}} : TRUE
  IN  run[p.end - p.start + 1]

=============================================================================
