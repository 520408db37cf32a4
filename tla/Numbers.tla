------------------------------ MODULE Numbers ------------------------------
(***************************************************************************)
(* The parsers that turn the text of a cell into a number: strtoi          *)
(* (src/vroom_int.cc), vroom_strtoll (src/vroom_big_int.cc), bsd_strtod    *)
(* (src/vroom_dbl.cc) and parse_num (src/vroom_num.cc); and what a numeral *)
(* means, which they are compared with.                                    *)
(*                                                                         *)
(* A text is a sequence of characters.  A number is <<m, e>>, for m * 10^e *)
(* with m not divisible by 10: a double is as exact as its decimal         *)
(* mantissa and exponent, which the code computes in integers.             *)
(***************************************************************************)
EXTENDS Integers, SequencesExt

CONSTANTS
  IntMax,          \* INT_MAX
  LongMax,         \* LLONG_MAX
  MantissaDigits,  \* the digits that bsd_strtod looks at, 18
  MaxExponent,     \* maxExponent, 307
  DecimalMark, GroupingMark  \* of the locale

ASSUME NumbersAssumption ==
  /\ {IntMax, LongMax, MantissaDigits, MaxExponent} \subseteq Nat \ {0}
  /\ DecimalMark # GroupingMark

Digits == <<"0", "1", "2", "3", "4", "5", "6", "7", "8", "9">>

Digit == ToSet(Digits)

DigitValue == [c \in Digit |-> (CHOOSE k \in 1 .. 10 : Digits[k] = c) - 1]

(* The number that a sequence of digits spells.                             *)
NatValue(s) ==
  LET value[n \in 0 .. Len(s)] ==
        IF n = 0 THEN 0 ELSE 10 * value[n - 1] + DigitValue[s[n]]
  IN  value[Len(s)]

(* The characters from position k on, and the longest run of them that is   *)
(* in a set.                                                                *)
From(s, k) == SubSeq(s, k, Len(s))

Run(s, chars) ==
  SubSeq(s, 1, Min({n \in 0 .. Len(s) : n = Len(s) \/ s[n + 1] \notin chars}))

(* NA, not a number, and the infinities. *)
NA       == <<>>
NaN      == <<"nan">>
Infinity == [sign \in {-1, 1} |-> IF sign = 1 THEN <<"inf">> ELSE <<"-inf">>]

Number(m, e) ==
  IF m = 0 THEN <<0, 0>>
  ELSE LET zeros == Max({k \in 0 .. 9 : m % (10 ^ k) = 0})
       IN  <<m \div (10 ^ zeros), e + zeros>>

Sign(s) == IF s # <<>> /\ s[1] = "-" THEN -1 ELSE 1

Unsigned(s, signs) == IF s # <<>> /\ s[1] \in signs THEN Tail(s) ELSE s

----------------------------------------------------------------------------
(* strtoi.  A minus sign on its own is 0. *)
Strtoi(s) ==
  LET digits == Unsigned(s, {"-"})
  IN  IF s = <<>> \/ Run(digits, Digit) # digits \/ NatValue(digits) > IntMax THEN NA
      ELSE Number(Sign(s) * NatValue(digits), 0)

(* vroom_strtoll: the digits are added up modulo 2 * (LLONG_MAX + 1). *)
Strtoll(s) ==
  LET digits == Unsigned(s, {"-"})
      value  == NatValue(Run(digits, Digit)) % (2 * (LongMax + 1))
  IN  IF s = <<>> \/ value > LongMax \/ Run(digits, Digit) # digits THEN NA
      ELSE Number(Sign(s) * value, 0)

----------------------------------------------------------------------------
(* bsd_strtod. *)

(* Digits with one decimal mark among them. *)
Mantissa(p) ==
  SubSeq(p, 1, Max({n \in 0 .. Len(p) :
                      /\ \A k \in 1 .. n : p[k] \in Digit \union {DecimalMark}
                      /\ Cardinality({k \in 1 .. n : p[k] = DecimalMark}) <= 1}))

(* The exponent after the mantissa.  It may have no digits. *)
Exponent(p) ==
  LET after == Tail(p)
  IN  IF p = <<>> THEN 0 ELSE Sign(after) * NatValue(Unsigned(after, {"-", "+"}))

IsExponent(p) ==
  p # <<>> => /\ p[1] = "e"
              /\ LET digits == Unsigned(Tail(p), {"-", "+"})
                 IN  Run(digits, Digit) = digits

Clamp(exp) ==
  IF exp > MaxExponent THEN MaxExponent ELSE IF exp < -MaxExponent THEN -MaxExponent
  ELSE exp

(* A mistake: the digits that are dropped are not made up for. *)
Scale_OfAll(before, kept) == IF before > kept THEN 0 ELSE before - kept

(* fracExp: the digits kept are an integer, the mark was after some.        *)
Scale(before, kept) == before - kept

Decimal(p) ==
  LET mantissa == Mantissa(p)
      digits   == SelectSeq(mantissa, LAMBDA c : c \in Digit)
      before   == Len(Run(mantissa, Digit))
      kept     == SubSeq(digits, 1, Min({Len(digits), MantissaDigits}))
      exponent == From(p, Len(mantissa) + 1)
  IN  IF digits = <<>> \/ ~IsExponent(exponent) THEN NA
      ELSE Number(NatValue(kept), Clamp(Scale(before, Len(kept)) + Exponent(exponent)))

Negated(x) == <<-x[1], x[2]>>

BsdStrtod(s) ==
  LET p == Unsigned(s, {"-", "+"})
  IN  IF p = <<"nan">> THEN NaN
      ELSE IF p = <<"inf">> THEN Infinity[Sign(s)]
      ELSE IF Decimal(p) # NA /\ Sign(s) = -1 THEN Negated(Decimal(p))
      ELSE Decimal(p)

----------------------------------------------------------------------------
(* parse_num: the loop of parseNumber, which is a state machine of its own. *)

StartsNumber(c) == c \in Digit \union {"-", DecimalMark}

NumberInit ==
  [state |-> "INIT", sign |-> 1, sum |-> 0, places |-> 0, exp |-> 0, exp_sign |-> 1,
   exp_init |-> TRUE, seen |-> FALSE, used |-> 0]

More(r) == [r EXCEPT !.used = @ + 1]

(* A mistake: a grouping mark ends the number. *)
NumberStep_NoGroups(r, c) ==
  CASE r.state = "INIT" /\ c = "-" -> [More(r) EXCEPT !.state = "LHS", !.sign = -1]
    [] r.state \in {"INIT", "LHS"} /\ c = DecimalMark -> [More(r) EXCEPT !.state = "RHS"]
    [] r.state \in {"INIT", "LHS", "RHS"} /\ c \in Digit ->
         [More(r) EXCEPT !.state = IF @ = "INIT" THEN "LHS" ELSE @, !.seen = TRUE,
                         !.sum = 10 * @ + DigitValue[c],
                         !.places = IF r.state = "RHS" THEN @ + 1 ELSE @]
    [] r.state \in {"LHS", "RHS"} /\ r.seen /\ c = "e" -> [More(r) EXCEPT !.state = "EXP"]
    [] OTHER -> [r EXCEPT !.state = "FIN"]

NumberStep(r, c) ==
  CASE r.state = "INIT" /\ c = "-" -> [More(r) EXCEPT !.state = "LHS", !.sign = -1]
    [] r.state \in {"LHS", "RHS"} /\ c = GroupingMark -> More(r)
    [] r.state \in {"INIT", "LHS"} /\ c = DecimalMark -> [More(r) EXCEPT !.state = "RHS"]
    [] r.state \in {"INIT", "LHS", "RHS"} /\ c \in Digit ->
         [More(r) EXCEPT !.state = IF @ = "INIT" THEN "LHS" ELSE @, !.seen = TRUE,
                         !.sum = 10 * @ + DigitValue[c],
                         !.places = IF r.state = "RHS" THEN @ + 1 ELSE @]
    [] r.state \in {"LHS", "RHS"} /\ r.seen /\ c = "e" -> [More(r) EXCEPT !.state = "EXP"]
    [] r.state = "EXP" /\ c \in {"-", "+"} /\ r.exp_init ->
         [More(r) EXCEPT !.exp_sign = IF c = "-" THEN -1 ELSE 1, !.exp_init = FALSE]
    [] r.state = "EXP" /\ c \in Digit ->
         [More(r) EXCEPT !.exp = 10 * @ + DigitValue[c], !.exp_init = FALSE]
    [] OTHER -> [r EXCEPT !.state = "FIN"]

(* A number in a text, which must be all of it if strict. *)
ParseNum(s, strict) ==
  LET start  == Len(Run(s, {c \in ToSet(s) : ~StartsNumber(c)}))
      number == From(s, start + 1)
      loop[n \in 0 .. Len(number)] ==
        IF n = 0 THEN NumberInit
        ELSE CHOOSE after \in {NumberStep(before, number[n]) : before \in {loop[n - 1]}} :
               TRUE
      value(r) ==
        IF ~r.seen \/ (strict /\ r.used < Len(s)) THEN NA
        ELSE Number(r.sign * r.sum, r.exp_sign * r.exp - r.places)
  IN  CHOOSE x \in {value(r) : r \in {loop[Len(number)]}} : TRUE

----------------------------------------------------------------------------
(* A numeral: a sign, digits before and after the decimal mark, and maybe   *)
(* an exponent with its sign.                                               *)

Spell(n) ==
  n.sign \o n.whole \o (IF n.places = <<>> THEN <<>> ELSE <<DecimalMark>> \o n.places)
         \o n.exponent

Amount(n) ==
  Number(Sign(n.sign) * NatValue(n.whole \o n.places),
         (IF n.exponent = <<>> THEN 0 ELSE Exponent(n.exponent)) - Len(n.places))

(* What a column of some type should hold for it. *)
Within(n, limit) ==
  IF n.places = <<>> /\ n.exponent = <<>> /\ NatValue(n.whole) <= limit THEN Amount(n)
  ELSE NA

=============================================================================
