----------------------------- MODULE DateTimes -----------------------------
(***************************************************************************)
(* DateTimeParser (src/DateTimeParser.h) and the values that are made of   *)
(* what it finds (DateTime.h, vroom_dttm.cc, vroom_date.cc, vroom_time.cc). *)
(*                                                                         *)
(* A parser is a record of its members; one parser serves many cells.  A   *)
(* format is a sequence of directives: those that the user can write, and  *)
(* the steps of the formats that are built in.  AM, PM and the names of    *)
(* months and weekdays are one character each.                             *)
(***************************************************************************)
EXTENDS Numbers

CONSTANTS
  Months, Weekdays,        \* the names of the locale, in their order
  DateFormat, TimeFormat,  \* date_format and time_format of the locale
  TimeZone                 \* tz of the locale

Utc == <<"UTC">>

HalfDays == <<"am", "pm">>

(* A mistake: reset() leaves a member out. *)
SetDate_KeepsHalfDay(parser) ==
  [at |-> 1, out |-> "parsing", sign |-> 1, year |-> -1, mon |-> 1, day |-> 1,
   hour |-> 0, min |-> 0, sec |-> 0, psec |-> <<>>, amPm |-> parser.amPm,
   compact |-> TRUE, tz_hours |-> 0, tz_minutes |-> 0, tz |-> TimeZone]

(* setDate: the parser is reset, and starts with a new text.                *)
SetDate(parser) ==
  [at |-> 1, out |-> "parsing", sign |-> 1, year |-> -1, mon |-> 1, day |-> 1,
   hour |-> 0, min |-> 0, sec |-> 0, psec |-> <<>>, amPm |-> -1, compact |-> TRUE,
   tz_hours |-> 0, tz_minutes |-> 0, tz |-> TimeZone]

NewParser == SetDate([amPm |-> -1])

----------------------------------------------------------------------------
(* What the consume functions take from the text. *)

Complete(s, p) == p.at > Len(s)

Rest(s, p) == From(s, p.at)

Next1(s, p) == IF Complete(s, p) THEN "end" ELSE s[p.at]

Fail(p) == [p EXCEPT !.out = "failed"]

Skip(p, n) == [p EXCEPT !.at = @ + n]

(* What is consumed stays so when the outcome is not looked at. *)
Maybe(q) == [q EXCEPT !.out = "parsing"]

This(s, p, chars) == IF Next1(s, p) \in chars THEN Skip(p, 1) ELSE Fail(p)

Spaces(s, p) == Skip(p, Len(Run(Rest(s, p), {" "})))

(* A long that is cast to int. *)
AsInt(n) == ((n + IntMax + 1) % (2 * (IntMax + 1))) - (IntMax + 1)

(* strtol: without a digit it is 0, and nothing is used. *)
Strtol(s) ==
  LET spaces == Run(s, {" "})
      signed == From(s, Len(spaces) + 1)
      digits == Run(Unsigned(signed, {"-", "+"}), Digit)
  IN  IF digits = <<>> THEN [value |-> 0, used |-> 0]
      ELSE [value |-> Sign(signed) * NatValue(digits),
            used |-> Len(s) - Len(Unsigned(signed, {"-", "+"})) + Len(digits)]

(* consumeInteger: up to n characters, all of them if exact. *)
Integer(s, p, n, member, exact) ==
  LET window == SubSeq(s, p.at, Min({p.at + n - 1, Len(s)}))
      put(r) == [Skip(p, r.used) EXCEPT
                   ![member] = AsInt(r.value),
                   !.out = IF AsInt(r.value) = -IntMax - 1 \/ (exact /\ r.used # n)
                           THEN "failed" ELSE @]
  IN  IF Next1(s, p) \in {"end", "-", "+"} THEN Fail(p)
      ELSE CHOOSE q \in {put(r) : r \in {Strtol(window)}} : TRUE

(* consumeSeconds: strtod reads 0 where there is no number.  (Of what it    *)
(* reads, seconds without a sign or an exponent.)                           *)
Seconds(s, p, partial) ==
  LET spaces == Len(Run(Rest(s, p), {" "}))
      whole  == Run(From(s, p.at + spaces), Digit)
      after  == From(s, p.at + spaces + Len(whole))
      point  == after # <<>> /\ after[1] = "."
      places == IF point THEN Run(Tail(after), Digit) ELSE <<>>
      used   == spaces + Len(whole) + IF point THEN 1 + Len(places) ELSE 0
  IN  IF Next1(s, p) \in {"end", "-", "+"} THEN Fail(p)
      ELSE [Skip(p, IF whole \o places = <<>> THEN 0 ELSE used) EXCEPT
              !.sec = NatValue(whole), !.psec = IF partial THEN places ELSE @]

(* consumeString looks for the names anywhere in what is left.              *)
String(s, p, names, member) ==
  LET found == {k \in DOMAIN names : names[k] \in ToSet(Rest(s, p))}
  IN  IF found = {} THEN Fail(p) ELSE [Skip(p, 1) EXCEPT ![member] = Min(found)]

Hours(s, p) ==
  LET signed == Next1(s, p) \in {"-", "+"}
      hours  == Integer(s, IF signed THEN Skip(p, 1) ELSE p, 10, "hour", FALSE)
  IN  IF hours.out = "failed" THEN hours
      ELSE [hours EXCEPT !.sign = IF Next1(s, p) = "-" THEN -1 ELSE 1]

(* A mistake: the sign is for the hours only. *)
TzOffset_HoursSigned(s, p) ==
  LET mult    == IF Next1(s, p) = "-" THEN -1 ELSE 1
      hours   == Integer(s, IF Next1(s, p) \in {"-", "+"} THEN Skip(p, 1) ELSE p, 2,
                         "tz_hours", TRUE)
      minutes == Maybe(Integer(s, Maybe(This(s, hours, {":"})), 2, "tz_minutes", TRUE))
  IN  IF Next1(s, p) = "Z" THEN Skip(p, 1)
      ELSE IF hours.out = "failed" THEN hours
      ELSE [minutes EXCEPT !.tz_hours = mult * @]

TzOffset(s, p) ==
  LET mult    == IF Next1(s, p) = "-" THEN -1 ELSE 1
      hours   == Integer(s, IF Next1(s, p) \in {"-", "+"} THEN Skip(p, 1) ELSE p, 2,
                         "tz_hours", TRUE)
      minutes == Maybe(Integer(s, Maybe(This(s, hours, {":"})), 2, "tz_minutes", TRUE))
  IN  IF Next1(s, p) = "Z" THEN Skip(p, 1)
      ELSE IF hours.out = "failed" THEN hours
      ELSE [minutes EXCEPT !.tz_hours = mult * @, !.tz_minutes = mult * @]

NonDigits(s, p) == Run(Rest(s, p), {c \in ToSet(s) : c \notin Digit})

TzName(s, p) ==
  LET name == Run(Rest(s, p), {c \in ToSet(s) : c # " "})
  IN  IF name = <<>> THEN Fail(p) ELSE [Skip(p, Len(name)) EXCEPT !.tz = name]

(* An outcome that also needs the member to be in a range. *)
InRange(p, member, range) ==
  IF p.out = "parsing" /\ p[member] \notin range THEN Fail(p) ELSE p

(* What %y and %I make of the number they found. *)
Century(p) ==
  IF p.out = "failed" THEN p
  ELSE [p EXCEPT !.year = IF @ < 69 THEN @ + 2000 ELSE @ + 1900]

HalfDayHour(p) == IF p.out = "failed" THEN p ELSE [p EXCEPT !.hour = @ % 12]

----------------------------------------------------------------------------
(* The formats that are built in: parseDate, parseTime and parseISO8601.   *)

DateSteps == <<"%Y", "-/", "2m", "-/", "2d", "complete">>

TimeSteps == <<"1H", ":", "%M", ":?", "S?", " ", "p?", " ", "complete">>

IsoSteps ==
  <<"%Y", "-?", "2m", "-!", "2d", "end?", "T", "2H", ":?", "M?", ":?", "OS?", "end?",
    "%z", "complete">>

(* The compound formats: their outcome is not looked at. *)
Compound ==
  [c \in {"%D", "%F", "%R", "%T", "%X", "%x"} |->
     CASE c = "%D" -> <<"%m", "/", "%d", "/", "%y">>
       [] c = "%F" -> <<"%Y", "-", "%m", "-", "%d">>
       [] c = "%R" -> <<"%H", ":", "%M">>
       [] c \in {"%T", "%X"} -> <<"%H", ":", "%M", ":", "%S">>
       [] c = "%x" -> <<"%y", "/", "%m", "/", "%d">>]

(* A directive, or a step. *)
Directive(s, p, c) ==
  CASE c = "%Y"  -> Integer(s, p, 4, "year", TRUE)
    [] c = "%y"  -> Century(Integer(s, p, 2, "year", TRUE))
    [] c = "%m"  -> Integer(s, p, 2, "mon", FALSE)
    [] c = "2m"  -> Integer(s, p, 2, "mon", TRUE)
    [] c = "%b"  -> String(s, p, Months, "mon")
    [] c = "%d"  -> Integer(s, p, 2, "day", FALSE)
    [] c = "2d"  -> Integer(s, p, 2, "day", TRUE)
    [] c = "%a"  -> String(s, p, Weekdays, "day")
    [] c = "%e"  -> IF Next1(s, p) = " " THEN Integer(s, Skip(p, 1), 1, "day", TRUE)
                    ELSE Integer(s, p, 2, "day", TRUE)
    [] c = "%h"  -> Hours(s, p)
    [] c = "%H"  -> InRange(Integer(s, p, 2, "hour", FALSE), "hour", 0 .. 23)
    [] c = "%I"  -> HalfDayHour(InRange(Integer(s, p, 2, "hour", FALSE), "hour", 1 .. 12))
    [] c = "1H"  -> Integer(s, p, 2, "hour", FALSE)
    [] c = "2H"  -> Integer(s, p, 2, "hour", TRUE)
    [] c = "%M"  -> Integer(s, p, 2, "min", TRUE)
    [] c = "M?"  -> Maybe(Integer(s, p, 2, "min", TRUE))
    [] c = "%S"  -> Seconds(s, p, FALSE)
    [] c = "%OS" -> Seconds(s, p, TRUE)
    [] c = "S?"  -> Maybe(Seconds(s, p, FALSE))
    [] c = "OS?" -> Maybe(Seconds(s, p, TRUE))
    [] c = "%p"  -> String(s, p, HalfDays, "amPm")
    [] c = "p?"  -> Maybe(String(s, p, HalfDays, "amPm"))
    [] c = "%z"  -> TzOffset(s, [p EXCEPT !.tz = Utc])
    [] c = "%Z"  -> TzName(s, p)
    [] c = "%."  -> IF NonDigits(s, p) = <<>> THEN Fail(p) ELSE Skip(p, 1)
    [] c = "%+"  -> IF NonDigits(s, p) = <<>> THEN Fail(p)
                    ELSE Skip(p, Len(NonDigits(s, p)))
    [] c = "%*"  -> Skip(p, Len(NonDigits(s, p)))
    [] c = " "   -> Spaces(s, p)
    [] c = "-/"  -> This(s, p, {"-", "/"})
    [] c = "-?"  -> IF Next1(s, p) = "-" THEN [Skip(p, 1) EXCEPT !.compact = FALSE] ELSE p
    [] c = "-!"  -> IF p.compact THEN p ELSE This(s, p, {"-"})
    [] c = ":?"  -> Maybe(This(s, p, {":"}))
    [] c = "T"   -> This(s, p, {"T", " "})
    [] c = "end?"     -> IF Complete(s, p) THEN [p EXCEPT !.out = "parsed"] ELSE p
    [] c = "complete" -> IF Complete(s, p) THEN p ELSE Fail(p)
    [] OTHER     -> This(s, p, {c})

(* The steps in their order, until one fails or ends the parse.  (A bound   *)
(* variable is evaluated once by TLC, an operator's argument is not.)       *)
Steps(step(_, _, _), s, start, steps) ==
  LET next(p, c) == IF p.out = "parsing" THEN step(s, p, c) ELSE p
      parser[n \in 0 .. Len(steps)] ==
        IF n = 0 THEN start
        ELSE CHOOSE p \in {next(before, steps[n]) : before \in {parser[n - 1]}} : TRUE
  IN  parser[Len(steps)]

(* parse(format): white space is skipped at both ends. *)
Around(steps) == <<" ">> \o steps \o <<" ", "complete">>

Format(s, p, c) ==
  IF c \in DOMAIN Compound THEN Maybe(Steps(Directive, s, p, Around(Compound[c])))
  ELSE IF c = "%AD" THEN Steps(Directive, s, p, DateSteps)
  ELSE IF c = "%AT" THEN Steps(Directive, s, p, TimeSteps)
  ELSE Directive(s, p, c)

Parse(s, p, format) == Steps(Format, s, p, Around(format))

ParseIso(s, p) == Steps(Directive, s, p, IsoSteps)

----------------------------------------------------------------------------
(* DateTime: a value is made of the members of the parser. *)

LeapYear(y) == y % 4 = 0 /\ (y % 100 # 0 \/ y % 400 = 0)

MonthDays(y, m) ==
  IF m = 2 THEN IF LeapYear(y) THEN 29 ELSE 28 ELSE IF m \in {4, 6, 9, 11} THEN 30 ELSE 31

ValidDate(p) == p.year >= 0 /\ p.mon \in 1 .. 12 /\ p.day \in 1 .. MonthDays(p.year, p.mon)

(* The days since 1970-01-01, as the date library counts them. *)
Days(y, m, d) ==
  LET year == IF m <= 2 THEN y - 1 ELSE y
      era  == year \div 400
      of   == year - era * 400
  IN  era * 146097 + of * 365 + of \div 4 - of \div 100
        + (153 * ((m + 9) % 12) + 2) \div 5 + d - 1 - 719468

(* A mistake: noon is taken for midnight. *)
Hour_NoNoon(p) == IF p.amPm = 2 THEN p.hour + 12 ELSE p.hour

(* hour(): in the half of the day that AM or PM says. *)
Hour(p) ==
  IF p.hour = 12 THEN IF p.amPm = 1 THEN 0 ELSE 12
  ELSE IF p.amPm = 2 THEN p.hour + 12 ELSE p.hour

ValidTime(p) == p.sec \in 0 .. 60 /\ p.min \in 0 .. 59 /\ Hour(p) \in 0 .. 23

TimeOf(p) == Hour(p) * 3600 + p.min * 60 + p.sec

(* A moment: its day and second, the part of a second, and its time zone.   *)
Moment(days, seconds, psec, tz) ==
  <<days + seconds \div 86400, seconds % 86400, psec, tz>>

DateTime(p) ==
  LET offset == IF p.tz = Utc THEN p.tz_hours * 3600 + p.tz_minutes * 60 ELSE 0
  IN  IF ValidDate(p) /\ ValidTime(p)
      THEN Moment(Days(p.year, p.mon, p.day), TimeOf(p) - offset, p.psec, p.tz)
      ELSE NA

Date(p) == IF ValidDate(p) THEN <<Days(p.year, p.mon, p.day)>> ELSE NA

Duration(p) ==
  IF {p.sec, p.min} \subseteq -59 .. 59
  THEN <<p.sign * TimeOf(p), IF p.psec = <<>> THEN 1 ELSE p.sign, p.psec>>
  ELSE NA

Found(p) == p.out # "failed"

(* parse_dttm, parse_date and parse_time, after setDate: what they return,  *)
(* and the parser they leave.  %s is read without the parser.               *)
ReadDateTime(s, p, format) ==
  IF format = <<"%s">>
  THEN <<Moment(0, Strtol(s).value, <<>>, Utc), p>>
  ELSE CHOOSE r \in {<<IF Found(q) THEN DateTime(q) ELSE NA, q>> :
                       q \in {IF format = <<>> THEN ParseIso(s, SetDate(p))
                              ELSE Parse(s, SetDate(p), format)}} : TRUE

ReadDate(s, p, format) ==
  CHOOSE r \in {<<IF Found(q) THEN Date(q) ELSE NA, q>> :
                  q \in {Parse(s, SetDate(p), IF format = <<>> THEN DateFormat ELSE format)}} :
    TRUE

ReadTime(s, p, format) ==
  CHOOSE r \in {<<IF Found(q) THEN Duration(q) ELSE NA, q>> :
                  q \in {Parse(s, SetDate(p), IF format = <<>> THEN TimeFormat ELSE format)}} :
    TRUE

=============================================================================
