------------------------- MODULE IndexRegion_proofs -------------------------
(***************************************************************************)
(* Facts about the operators of IndexRegion, for every file and every      *)
(* option: where the searches for a newline may end, what an iteration of  *)
(* index_region leaves of its locals, what a whole call does, how a call   *)
(* for a part of a region compares with one for all of it, and one with a  *)
(* limit with one without, and what a buffer with the beginning of a file  *)
(* tells of its first row.                                                 *)
(***************************************************************************)
EXTENDS IndexRegion, LeastElements, SequenceTheorems, TLAPS

(* The files that the constructor of delimited_index does not refuse: not   *)
(* empty, and with a newline at the end.                                    *)
File ==
  {f \in Seq(Char) : Len(f) > 0 /\ f[Len(f)] \in {"lf", "cr"}}

(* strcspn and memchr stop at the first character that they look for, or at *)
(* the end of the file.                                                     *)
LEMMA FirstOfStops ==
  ASSUME NEW src, Len(src) \in Nat, NEW pos \in Nat, pos <= Len(src), NEW chars
  PROVE  LET q == FirstOf(src, pos, chars)
         IN  /\ q \in pos .. Len(src)
             /\ q = Len(src) \/ At(src, q) \in chars
             /\ \A k \in pos .. (q - 1) : At(src, k) \notin chars
<1> DEFINE Stop == {q \in pos .. Len(src) : q = Len(src) \/ At(src, q) \in chars}
<1>1. Len(src) \in Stop /\ Stop \in SUBSET Nat
  OBVIOUS
<1>2. PICK first \in Stop : \A q \in Stop : first <= q
  BY <1>1, LeastElement
<1>3. \A k \in pos .. (first - 1) : At(src, k) \notin chars
  <2> SUFFICES ASSUME NEW k \in pos .. (first - 1), At(src, k) \in chars
               PROVE  FALSE
    OBVIOUS
  <2>1. first \in pos .. Len(src)
    OBVIOUS
  <2>2. k \in Stop /\ k < first
    BY <2>1
  <2>3. QED  BY <1>2, <2>1, <2>2
<1>4. QED  BY <1>3 DEF FirstOf

(* find_next_newline, when it does not look at quotes, finds a position of  *)
(* the file, and not one before the position it starts from.                *)
LEMMA FindNextNewlineInFile ==
  ASSUME NEW src \in File, NEW pos \in Nat
  PROVE  /\ FindNextNewline(src, pos) \in Nat \X {"lf", "cr"}
         /\ FindNextNewline(src, pos)[1] < Len(src)
         /\ pos < Len(src) => FindNextNewline(src, pos)[1] >= pos
         /\ At(src, FindNextNewline(src, pos)[1]) \in {"lf", "cr"}
<1>0. At(src, Len(src) - 1) \in {"lf", "cr"}
  BY DEF File, At
<1>1. CASE pos >= Len(src)
  BY <1>0, <1>1 DEF FindNextNewline, File
<1>2. CASE pos < Len(src)
  <2> DEFINE q == FirstOf(src, pos, {"lf", "cr"})
  <2>1. /\ q \in pos .. Len(src)
        /\ q = Len(src) \/ At(src, q) \in {"lf", "cr"}
        /\ \A k \in pos .. (q - 1) : At(src, k) \notin {"lf", "cr"}
    BY <1>2, FirstOfStops DEF File
  <2>3. q < Len(src) /\ At(src, q) \in {"lf", "cr"}
    BY <1>0, <1>2, <2>1 DEF File
  <2>4. NewlineAt(src, q, Len(src)) \in {<<q, "lf">>, <<q + 1, "lf">>, <<q, "cr">>}
    BY DEF NewlineAt
  <2>5. NewlineAt(src, q, Len(src)) = <<q + 1, "lf">> =>
          q + 1 < Len(src) /\ At(src, q + 1) = "lf"
    BY <2>1, <2>3 DEF NewlineAt
  <2> HIDE DEF q
  <2>6. FindNextNewline(src, pos) = NewlineAt(src, q, Len(src))
    BY <1>2 DEF FindNextNewline, q, File
  <2>7. QED  BY <1>2, <2>1, <2>3, <2>4, <2>5, <2>6 DEF File
<1>3. QED  BY <1>1, <1>2 DEF File

(* It finds the newline itself when it starts from one; a line feed after a *)
(* carriage return counts with it.                                         *)
LEMMA FindNextNewlineAtNewline ==
  ASSUME NEW src \in File, NEW pos \in 0 .. (Len(src) - 1)
  PROVE  /\ At(src, pos) = "lf" => FindNextNewline(src, pos)[1] = pos
         /\ At(src, pos) = "cr" =>
              FindNextNewline(src, pos)[1] =
                IF pos + 1 < Len(src) /\ At(src, pos + 1) = "lf" THEN pos + 1 ELSE pos
<1> DEFINE q == FirstOf(src, pos, {"lf", "cr"})
<1>1. /\ q \in pos .. Len(src)
      /\ \A k \in pos .. (q - 1) : At(src, k) \notin {"lf", "cr"}
  BY FirstOfStops DEF File
<1>2. At(src, pos) \in {"lf", "cr"} => q = pos
  BY <1>1 DEF File
<1> HIDE DEF q
<1>3. FindNextNewline(src, pos) = NewlineAt(src, q, Len(src))
  BY DEF FindNextNewline, q, File
<1>4. QED  BY <1>2, <1>3 DEF NewlineAt

(* What starts later does not end earlier, so that no batch ends before it  *)
(* starts.                                                                  *)
LEMMA FindNextNewlineMonotonic ==
  ASSUME NEW src \in File, NEW pos \in Nat, NEW later \in Nat, pos <= later
  PROVE  FindNextNewline(src, pos)[1] <= FindNextNewline(src, later)[1]
<1>1. CASE later >= Len(src)
  <2>1. FindNextNewline(src, later)[1] = Len(src) - 1
    BY <1>1 DEF FindNextNewline
  <2>2. FindNextNewline(src, pos)[1] \in Nat /\ FindNextNewline(src, pos)[1] < Len(src)
    BY FindNextNewlineInFile
  <2>3. QED  BY <2>1, <2>2 DEF File
<1>2. CASE later < Len(src)
  <2> DEFINE q(p) == FirstOf(src, p, {"lf", "cr"})
  <2>1. \A p \in {pos, later} :
          /\ q(p) \in p .. Len(src)
          /\ q(p) = Len(src) \/ At(src, q(p)) \in {"lf", "cr"}
          /\ \A k \in p .. (q(p) - 1) : At(src, k) \notin {"lf", "cr"}
    BY <1>2, FirstOfStops DEF File
  <2>2. \A p \in {pos, later} : FindNextNewline(src, p) = NewlineAt(src, q(p), Len(src))
    BY <1>2 DEF FindNextNewline, File
  <2> HIDE DEF q
  <2>3. q(pos) = q(later) \/ q(pos) < later
    BY <2>1 DEF File
  <2>4. \A p \in {pos, later} :
          /\ NewlineAt(src, q(p), Len(src))[1] \in {q(p), q(p) + 1}
          /\ q(p) <= NewlineAt(src, q(p), Len(src))[1]
    BY <2>1 DEF NewlineAt
  <2>5. QED  BY <2>1, <2>2, <2>3, <2>4
<1>3. QED  BY <1>1, <1>2 DEF File

(* The search that looks at quotes ends at a newline of the file too, and   *)
(* not before the position it starts from.                                  *)
LEMMA NonQuotedNewlineInFile ==
  ASSUME NEW src \in File, NEW pos \in Nat, NEW quoted \in BOOLEAN
  PROVE  LET nl == FindNextNonQuotedNewline(src, pos, quoted)
         IN  /\ nl \in Nat \X {"lf", "cr"}
             /\ nl[1] < Len(src)
             /\ pos < Len(src) => nl[1] >= pos
             /\ At(src, nl[1]) \in {"lf", "cr"}
<1> DEFINE last == Len(src) - 1
           hits == {q \in pos .. last :
                      /\ At(src, q) \in {"lf", "cr"}
                      /\ quoted => ~InQuote(src, pos, q)
                      /\ q = last =>
                           q > pos /\ At(src, q - 1) \notin {"lf", "cr", "quote"}}
<1>1. last \in Nat /\ At(src, last) \in {"lf", "cr"}
  BY DEF File, At
<1>2. CASE hits = {}
  BY <1>1, <1>2 DEF FindNextNonQuotedNewline, File
<1>3. CASE hits # {}
  <2>1. hits \in SUBSET Nat
    BY <1>1
  <2>2. PICK first \in hits : \A q \in hits : first <= q
    BY <1>3, <2>1, LeastElement
  <2>3. Min(hits) \in hits
    BY <2>2 DEF Min
  <2>4. Min(hits) \in pos .. last /\ At(src, Min(hits)) \in {"lf", "cr"}
    BY <2>3
  <2>5. FindNextNonQuotedNewline(src, pos, quoted) = NewlineAt(src, Min(hits), last)
    BY <1>3 DEF FindNextNonQuotedNewline
  <2> HIDE DEF hits
  <2>6. QED  BY <1>1, <2>4, <2>5 DEF NewlineAt
<1>4. QED  BY <1>2, <1>3

(* The same of find_next_newline with the option quote or without.          *)
LEMMA FindNewlineInFile ==
  ASSUME NEW src \in File, NEW pos \in Nat
  PROVE  /\ FindNewline(src, pos) \in Nat \X {"lf", "cr"}
         /\ FindNewline(src, pos)[1] < Len(src)
         /\ pos < Len(src) => FindNewline(src, pos)[1] >= pos
         /\ At(src, FindNewline(src, pos)[1]) \in {"lf", "cr"}
BY FindNextNewlineInFile, NonQuotedNewlineInFile DEF FindNewline

(* A search from the newline that ends the first row finds that newline,    *)
(* except for a carriage return before the line feed that ends the file,    *)
(* which the search that looks at quotes takes for the newline itself.      *)
LEMMA SearchAgain ==
  ASSUME NEW src \in File, NEW pos \in Nat
  PROVE  LET to == FindNewline(src, pos)[1]
         IN  FindNextNewline(src, to)[1] \in {to, Len(src) - 1} /\
             (FindNextNewline(src, to)[1] # to => to + 1 = Len(src) - 1)
<1> DEFINE to   == FindNewline(src, pos)[1]
           last == Len(src) - 1
           Follows == to + 1 < Len(src) /\ At(src, to) = "cr" /\ At(src, to + 1) = "lf"
<1>1. to \in Nat /\ to < Len(src) /\ At(src, to) \in {"lf", "cr"} /\ Len(src) \in Nat
  BY FindNewlineInFile DEF File
<1>2. Follows => to + 1 = last
  <2>1. \/ to = last
        \/ \E q : \E end \in {last, Len(src)} : to = NewlineAt(src, q, end)[1]
    BY DEF FindNewline, FindNextNonQuotedNewline, FindNextNewline
  <2>2. CASE to = last
    BY <1>1, <2>2
  <2>3. ASSUME NEW q, NEW end \in {last, Len(src)}, to = NewlineAt(src, q, end)[1]
        PROVE  Follows => to + 1 = last
    <3>1. \/ At(src, q) # "cr" /\ to = q
          \/ to = q + 1 /\ At(src, q + 1) = "lf"
          \/ to = q /\ ~(q + 1 < end /\ At(src, q + 1) = "lf")
      BY <2>3 DEF NewlineAt
    <3> HIDE DEF to
    <3>2. QED  BY <1>1, <3>1
  <2>4. QED  BY <2>1, <2>2, <2>3
<1> HIDE DEF to
<1>3. FindNextNewline(src, to)[1] = IF Follows THEN to + 1 ELSE to
  BY <1>1, FindNextNewlineAtNewline
<1>4. QED  BY <1>1, <1>2, <1>3 DEF to

(* find_first_line goes forward.                                            *)
LEMMA NextLineForward ==
  ASSUME NEW src \in File, NEW pos \in Nat
  PROVE  NextLine(src, pos) \in Nat /\ (pos < Len(src) => pos < NextLine(src, pos))
<1>1. PICK q \in Nat : NextLine(src, pos) = 1 + q /\ (pos < Len(src) => q >= pos)
  <2>1. IsCommentLine(src, pos) \in BOOLEAN
    BY DEF IsCommentLine
  <2>2. CASE HasQuote
    <3>1. PICK quoted \in BOOLEAN :
            NextLine(src, pos) = 1 + FindNextNonQuotedNewline(src, pos, quoted)[1]
      BY <2>1, <2>2 DEF NextLine
    <3>2. QED  BY <3>1, NonQuotedNewlineInFile
  <2>3. CASE ~HasQuote
    <3>1. NextLine(src, pos) = 1 + FindNextNewline(src, pos)[1]
      BY <2>3 DEF NextLine
    <3>2. QED  BY <3>1, FindNextNewlineInFile
  <2>4. QED  BY <2>2, <2>3
<1>2. Len(src) \in Nat
  BY DEF File
<1>3. QED  BY <1>1, <1>2

----------------------------------------------------------------------------
(* index_region. *)

(* The locals of a call are positions, counts and a state.                 *)
LEMMA LocalsFields ==
  ASSUME NEW r \in LocalsType
  PROVE  /\ r.pos \in Nat /\ r.cols \in Nat /\ r.lines_read \in Nat
         /\ r.last_tick \in Nat /\ r.destination \in Seq(Nat) /\ r.state \in CsvState
         /\ r.pos + 1 \in Nat /\ r.pos + 2 \in Nat
         /\ r.cols + 1 \in Nat /\ r.lines_read + 1 \in Nat
BY DEF LocalsType

(* The arguments of a call that the loop computes with are numbers.         *)
LEMMA CallFields ==
  ASSUME NEW p \in CallType
  PROVE  /\ p.start \in Nat /\ p.end \in Nat /\ p.num_cols \in Nat
         /\ p.file_offset \in Nat /\ p.update_size \in Nat
BY DEF CallType

(* What an iteration writes to the destination is a sequence of positions.  *)
Rewritten(r) == {[r EXCEPT !.destination = d] : d \in Seq(Nat)}

(* Writing to the destination changes no other local.                       *)
LEMMA RewrittenType ==
  ASSUME NEW r \in LocalsType, NEW s \in Rewritten(r)
  PROVE  /\ s \in LocalsType
         /\ s.pos = r.pos /\ s.cols = r.cols /\ s.lines_read = r.lines_read
         /\ s.last_tick = r.last_tick /\ s.state = r.state /\ s.out = r.out
<1>1. PICK d \in Seq(Nat) : s = [r EXCEPT !.destination = d]
  BY DEF Rewritten
<1>2. QED  BY <1>1 DEF LocalsType

(* destination.push_back(pos) writes to the destination only,               *)
LEMMA PushType ==
  ASSUME NEW r \in LocalsType, NEW pos \in Nat
  PROVE  r \in Rewritten(r) /\ Push(r, pos) \in Rewritten(r)
<1>1. Append(r.destination, pos) \in Seq(Nat)
  BY DEF LocalsType
<1>2. r.destination \in Seq(Nat) /\ r = [r EXCEPT !.destination = r.destination]
  BY DEF LocalsType
<1>3. QED  BY <1>1, <1>2 DEF Push, Rewritten

(* and so it does after other writes.                                       *)
LEMMA PushAfter ==
  ASSUME NEW r \in LocalsType, NEW s \in Rewritten(r), NEW pos \in Nat
  PROVE  Push(s, pos) \in Rewritten(r)
<1>1. PICK d \in Seq(Nat) : s = [r EXCEPT !.destination = d]
  BY DEF Rewritten
<1>2. s.destination = d /\ Append(d, pos) \in Seq(Nat)
  BY <1>1 DEF LocalsType
<1>3. Push(s, pos) = [r EXCEPT !.destination = Append(d, pos)]
  BY <1>1, <1>2 DEF Push
<1>4. QED  BY <1>2, <1>3 DEF Rewritten

(* resolve_columns takes from the destination, or adds to it.               *)
LEMMA ResolveColumnsType ==
  ASSUME NEW p \in CallType, NEW r \in LocalsType, NEW s \in Rewritten(r)
  PROVE  ResolveColumns(p, s) \in Rewritten(r)
<1>1. PICK d \in Seq(Nat) : s = [r EXCEPT !.destination = d]
  BY DEF Rewritten
<1>2. s.destination = d /\ s.pos \in Nat /\ s.cols \in Nat
  BY <1>1 DEF LocalsType
<1>3. p.num_cols \in Nat /\ p.file_offset \in Nat
  BY CallFields
<1>4. CASE p.num_cols = 0 \/ s.pos <= p.start
  BY <1>4 DEF ResolveColumns
<1>5. CASE ~(p.num_cols = 0 \/ s.pos <= p.start) /\ s.cols >= p.num_cols
  <2> DEFINE n == Len(d) - (s.cols - p.num_cols + 1)
  <2>1. SubSeq(d, 1, n) \in Seq(Nat)
    <3>1. n \in Int /\ n <= Len(d)
      BY <1>2, <1>3, <1>5
    <3>2. QED  BY <3>1
  <2>2. ResolveColumns(p, s) = [s EXCEPT !.destination = SubSeq(d, 1, n)]
    BY <1>2, <1>5 DEF ResolveColumns
  <2>3. ResolveColumns(p, s) = [r EXCEPT !.destination = SubSeq(d, 1, n)]
    BY <1>1, <2>2
  <2>4. QED  BY <2>1, <2>3 DEF Rewritten
<1>6. CASE ~(p.num_cols = 0 \/ s.pos <= p.start) /\ ~(s.cols >= p.num_cols)
  <2> DEFINE pad == [k \in 1 .. (p.num_cols - 1 - s.cols) |-> s.pos + p.file_offset]
  <2>1. pad \in Seq(Nat)
    <3>1. p.num_cols - 1 - s.cols \in Nat /\ s.pos + p.file_offset \in Nat
      BY <1>2, <1>3, <1>6
    <3>2. PICK n, x \in Nat : n = p.num_cols - 1 - s.cols /\ x = s.pos + p.file_offset
      BY <3>1
    <3>3. [k \in 1 .. n |-> x] \in Seq(Nat)
      OBVIOUS
    <3>4. QED  BY <3>2, <3>3
  <2>2. ResolveColumns(p, s) = [s EXCEPT !.destination = d \o pad]
    BY <1>2, <1>6 DEF ResolveColumns
  <2> HIDE DEF pad
  <2>3. ResolveColumns(p, s) = [r EXCEPT !.destination = d \o pad]
    BY <1>1, <2>2
  <2>4. d \o pad \in Seq(Nat)
    BY <2>1
  <2>5. QED  BY <2>3, <2>4 DEF Rewritten
<1>7. QED  BY <1>4, <1>5, <1>6

(* The first separator of a record is a write to the destination.           *)
LEMMA StartRecordType ==
  ASSUME NEW p \in CallType, NEW r \in LocalsType
  PROVE  StartRecord(p, r) \in Rewritten(r)
<1>1. r.pos + p.file_offset \in Nat
  BY LocalsFields, CallFields
<1>2. QED  BY <1>1, PushType DEF StartRecord

(* The transitions of csv_state stay within its values.                     *)
LEMMA StateType ==
  ASSUME NEW in \in CsvState
  PROVE  /\ QuotedState(in) \in CsvState /\ CommaState(in) \in CsvState
         /\ NewlineState(in) \in CsvState /\ OtherState(in) \in CsvState
BY DEF CsvState, QuotedState, CommaState, NewlineState, OtherState

(* The locals after r that an iteration may leave.                          *)
After(p, r) ==
  {s \in LocalsType : r.last_tick <= s.last_tick /\ s.last_tick <= p.end}

(* Assignments to the locals that keep to their types and to the region.    *)
LEMMA AfterUpdates ==
  ASSUME NEW p, NEW r, NEW s \in After(p, r)
  PROVE  /\ \A n \in Nat : [s EXCEPT !.pos = n] \in After(p, r)
         /\ \A n \in Nat : [s EXCEPT !.cols = n] \in After(p, r)
         /\ \A n \in Nat : [s EXCEPT !.lines_read = n] \in After(p, r)
         /\ \A n \in Nat : r.last_tick <= n /\ n <= p.end =>
                           [s EXCEPT !.last_tick = n] \in After(p, r)
         /\ \A state \in CsvState : [s EXCEPT !.state = state] \in After(p, r)
         /\ \A out \in {"end", "n_max", "newline_error"} :
              [s EXCEPT !.out = out] \in After(p, r)
BY DEF After, LocalsType

(* An iteration keeps the types of the locals, and reports no more progress *)
(* than there is up to the end of the region.                               *)
LEMMA IndexStepType ==
  ASSUME NEW src, Len(src) \in Nat, NEW p \in CallType, NEW r \in LocalsType,
         p.end <= Len(src), r.last_tick <= p.end
  PROVE  IndexStep(src, p, r) \in After(p, r)
<1> DEFINE kind == Kind(src, p, r)
<1>1. /\ r.pos \in Nat /\ r.cols \in Nat /\ r.lines_read \in Nat
      /\ r.last_tick \in Nat /\ r.state \in CsvState
  BY LocalsFields
<1>2. p.start \in Nat /\ p.end \in Nat /\ p.file_offset \in Nat /\ p.update_size \in Nat
  BY CallFields
<1>3. /\ r.pos + 1 \in Nat /\ r.pos + 2 \in Nat
      /\ r.pos + p.file_offset \in Nat /\ r.pos + 1 + p.file_offset \in Nat
      /\ r.cols + 1 \in Nat /\ r.lines_read + 1 \in Nat
  <2>1. r.pos + p.file_offset \in Nat /\ r.pos + 1 + p.file_offset \in Nat
    BY <1>1, <1>2
  <2>2. QED  BY <2>1, LocalsFields
<1>4. /\ QuotedState(r.state) \in CsvState /\ CommaState(r.state) \in CsvState
      /\ NewlineState(r.state) \in CsvState /\ OtherState(r.state) \in CsvState
  BY <1>1, StateType
<1>5. kind # "return" => r.pos < p.end
  BY <1>1, <1>2 DEF Kind
<1>6. kind # "return" => SkipRestOfLine(src, r.pos) + 1 \in Nat
  <2>1. CASE kind # "return"
    <3>1. r.pos <= Len(src)
      BY <1>1, <1>2, <1>5, <2>1
    <3>2. FirstOf(src, r.pos, {"lf"}) \in r.pos .. Len(src)
      BY <1>1, <3>1, FirstOfStops
    <3>3. QED  BY <1>1, <3>1, <3>2 DEF SkipRestOfLine
  <2>2. QED  BY <2>1
<1>7. \A s \in Rewritten(r) : s \in After(p, r) /\ s.pos = r.pos /\ s.cols = r.cols
  BY <1>1, RewrittenType DEF After
<1>8. r \in Rewritten(r) /\ r \in After(p, r)
  BY <1>7, PushType
<1>9. CASE kind = "return"
  <2>1. IndexStep(src, p, r) = [[r EXCEPT !.last_tick = p.end] EXCEPT !.out = "end"]
    BY <1>9 DEF IndexStep
  <2>2. [r EXCEPT !.last_tick = p.end] \in After(p, r)
    <3>1. r.last_tick <= p.end /\ p.end <= p.end
      BY <1>1, <1>2
    <3>2. QED  BY <1>2, <1>8, <3>1, AfterUpdates
  <2>3. [[r EXCEPT !.last_tick = p.end] EXCEPT !.out = "end"] \in After(p, r)
    BY <2>2, AfterUpdates
  <2>4. QED  BY <2>1, <2>3
<1>10. CASE kind = "escape"
  <2>1. IndexStep(src, p, r) = Escape(p, r)
    BY <1>10 DEF IndexStep
  <2>2. Push(r, r.pos + 1 + p.file_offset) \in After(p, r)
    BY <1>3, <1>7, PushType
  <2>3. [Push(r, r.pos + 1 + p.file_offset) EXCEPT !.state = "FIELD_START"] \in After(p, r)
    BY <2>2, AfterUpdates DEF CsvState
  <2>4. Escape(p, r) \in After(p, r)
    BY <1>3, <1>8, <2>3, AfterUpdates DEF Escape
  <2>5. QED  BY <2>1, <2>4
<1>11. CASE kind = "comment"
  <2>1. IndexStep(src, p, r) = SkipComment(src, p, r)
    BY <1>11 DEF IndexStep
  <2>2. PICK s \in Rewritten(r) :
          SkipComment(src, p, r) =
            [[[s EXCEPT !.cols = 0] EXCEPT !.pos = SkipRestOfLine(src, r.pos) + 1]
               EXCEPT !.state = NewlineState(r.state)]
    BY <1>3, <1>8, PushAfter, ResolveColumnsType DEF SkipComment
  <2>3. [s EXCEPT !.cols = 0] \in After(p, r)
    BY <1>7, AfterUpdates
  <2>4. [[s EXCEPT !.cols = 0] EXCEPT !.pos = SkipRestOfLine(src, r.pos) + 1]
          \in After(p, r)
    BY <1>6, <1>11, <2>3, AfterUpdates
  <2>5. [[[s EXCEPT !.cols = 0] EXCEPT !.pos = SkipRestOfLine(src, r.pos) + 1]
           EXCEPT !.state = NewlineState(r.state)] \in After(p, r)
    BY <1>4, <2>4, AfterUpdates
  <2>6. QED  BY <2>1, <2>2, <2>5
<1>12. CASE kind = "empty"
  <2>1. IndexStep(src, p, r) = SkipEmptyLine(src, r)
    BY <1>12 DEF IndexStep
  <2>2. SkipEmptyLine(src, r) \in After(p, r)
    BY <1>6, <1>8, <1>12, AfterUpdates DEF SkipEmptyLine
  <2>3. QED  BY <2>1, <2>2
<1>13. CASE kind = "delim"
  <2>1. IndexStep(src, p, r) = Delimiter(p, r)
    BY <1>13 DEF IndexStep
  <2>2. PICK s \in Rewritten(r) :
          Delimiter(p, r) =
            [s EXCEPT !.state = CommaState(r.state), !.cols = @ + 1, !.pos = @ + 1]
    BY <1>3, StartRecordType, PushAfter DEF Delimiter
  <2>3. Delimiter(p, r) =
          [[[s EXCEPT !.state = CommaState(r.state)] EXCEPT !.cols = r.cols + 1]
             EXCEPT !.pos = r.pos + 1]
    BY <1>7, <2>2
  <2>4. [s EXCEPT !.state = CommaState(r.state)] \in After(p, r)
    BY <1>4, <1>7, AfterUpdates
  <2>5. [[s EXCEPT !.state = CommaState(r.state)] EXCEPT !.cols = r.cols + 1]
          \in After(p, r)
    BY <1>3, <2>4, AfterUpdates
  <2>6. [[[s EXCEPT !.state = CommaState(r.state)] EXCEPT !.cols = r.cols + 1]
           EXCEPT !.pos = r.pos + 1] \in After(p, r)
    BY <1>3, <2>5, AfterUpdates
  <2>7. QED  BY <2>1, <2>3, <2>6
<1>14. CASE kind = "newline"
  <2>1. IndexStep(src, p, r) = EndRecord(p, r)
    BY <1>14 DEF IndexStep
  <2> DEFINE ended(s) ==
        [[[s EXCEPT !.state = NewlineState(r.state)] EXCEPT !.cols = 0]
           EXCEPT !.lines_read = r.lines_read + 1]
      pushed == Push(ResolveColumns(p, StartRecord(p, r)), r.pos + p.file_offset)
  <2>2. pushed \in Rewritten(r)
    BY <1>3, StartRecordType, ResolveColumnsType, PushAfter
  <2>3. ended(pushed) \in After(p, r)
    <3>1. [pushed EXCEPT !.state = NewlineState(r.state)] \in After(p, r)
      BY <1>4, <1>7, <2>2, AfterUpdates
    <3>2. [[pushed EXCEPT !.state = NewlineState(r.state)] EXCEPT !.cols = 0]
            \in After(p, r)
      BY <3>1, AfterUpdates
    <3>3. QED  BY <1>3, <3>2, AfterUpdates
  <2> DEFINE last == IF r.pos - r.last_tick > p.update_size THEN r.pos ELSE r.last_tick
  <2> HIDE DEF pushed
  <2>4. /\ [ended(pushed) EXCEPT !.out = "n_max"] \in After(p, r)
        /\ [[ended(pushed) EXCEPT !.pos = r.pos + 1] EXCEPT !.last_tick = last]
             \in After(p, r)
    <3>1. [ended(pushed) EXCEPT !.pos = r.pos + 1] \in After(p, r)
      BY <1>3, <2>3, AfterUpdates
    <3>2. last \in Nat /\ r.last_tick <= last /\ last <= p.end
      BY <1>1, <1>2, <1>5, <1>14
    <3>3. QED  BY <2>3, <3>1, <3>2, AfterUpdates
  <2>5. EndRecord(p, r) \in
          {[ended(pushed) EXCEPT !.out = "n_max"],
           [[ended(pushed) EXCEPT !.pos = r.pos + 1] EXCEPT !.last_tick = last]}
    <3> DEFINE t == [pushed EXCEPT !.state = NewlineState(r.state), !.cols = 0,
                                   !.lines_read = @ + 1]
    <3>1. /\ pushed.lines_read = r.lines_read /\ pushed.pos = r.pos
          /\ pushed.last_tick = r.last_tick /\ pushed \in LocalsType
      BY <2>2, RewrittenType
    <3>2. t = ended(pushed)
      BY <3>1
    <3>3. t.pos = r.pos /\ t.last_tick = r.last_tick
      BY <3>1 DEF LocalsType
    <3>4. EndRecord(p, r) \in
            {[t EXCEPT !.out = "n_max"],
             [t EXCEPT !.pos = @ + 1,
                       !.last_tick = IF r.pos - @ > p.update_size THEN r.pos ELSE @]}
      BY DEF EndRecord, pushed
    <3> HIDE DEF t
    <3>5. QED  BY <3>2, <3>3, <3>4
  <2>6. EndRecord(p, r) \in After(p, r)
    BY <2>4, <2>5
  <2>7. QED  BY <2>1, <2>6
<1>15. CASE kind = "quoted_nl"
  <2>1. IndexStep(src, p, r) = QuotedNewline(p, r)
    BY <1>15 DEF IndexStep
  <2>2. QuotedNewline(p, r) \in After(p, r)
    BY <1>3, <1>8, AfterUpdates DEF QuotedNewline
  <2>3. QED  BY <2>1, <2>2
<1>16. CASE kind = "quote"
  <2>1. IndexStep(src, p, r) = QuoteChar(p, r)
    BY <1>16 DEF IndexStep
  <2>2. PICK s \in Rewritten(r) :
          QuoteChar(p, r) = [s EXCEPT !.state = QuotedState(r.state), !.pos = @ + 1]
    BY StartRecordType DEF QuoteChar
  <2>3. QuoteChar(p, r) =
          [[s EXCEPT !.state = QuotedState(r.state)] EXCEPT !.pos = r.pos + 1]
    BY <1>7, <2>2
  <2>4. [s EXCEPT !.state = QuotedState(r.state)] \in After(p, r)
    BY <1>4, <1>7, AfterUpdates
  <2>5. [[s EXCEPT !.state = QuotedState(r.state)] EXCEPT !.pos = r.pos + 1]
          \in After(p, r)
    BY <1>3, <2>4, AfterUpdates
  <2>6. QED  BY <2>1, <2>3, <2>5
<1>17. CASE kind = "other"
  <2>1. IndexStep(src, p, r) = OtherChars(src, p, r)
    BY <1>17 DEF IndexStep
  <2>2. PICK s \in Rewritten(r) : s = StartRecord(p, r)
    BY StartRecordType
  <2>3. PICK n \in Nat :
          OtherChars(src, p, r) = [[s EXCEPT !.state = OtherState(r.state)] EXCEPT !.pos = n]
    <3>1. r.pos + 1 < p.end => FirstOf(src, r.pos + 1, Query(p.nl)) \in Nat
      <4>1. CASE r.pos + 1 < p.end
        <5>1. r.pos + 1 <= Len(src)
          BY <1>1, <1>2, <4>1
        <5>2. FirstOf(src, r.pos + 1, Query(p.nl)) \in (r.pos + 1) .. Len(src)
          BY <1>3, <5>1, FirstOfStops
        <5>3. QED  BY <1>3, <5>1, <5>2
      <4>2. QED  BY <4>1
    <3>2. QED  BY <1>3, <1>7, <2>2, <3>1 DEF OtherChars
  <2>4. [s EXCEPT !.state = OtherState(r.state)] \in After(p, r)
    BY <1>4, <1>7, AfterUpdates
  <2>5. [[s EXCEPT !.state = OtherState(r.state)] EXCEPT !.pos = n] \in After(p, r)
    BY <2>4, AfterUpdates
  <2>6. QED  BY <2>1, <2>3, <2>5
<1>18. kind \in {"return", "escape", "comment", "empty", "delim", "newline",
                 "quoted_nl", "quote", "other"}
  BY DEF Kind
<1>19. QED
  BY <1>9, <1>10, <1>11, <1>12, <1>13, <1>14, <1>15, <1>16, <1>17, <1>18

(* A parse error has a position and a column.                               *)
LEMMA ParseErrorsType ==
  ASSUME NEW src, NEW p \in CallType, NEW r \in LocalsType
  PROVE  ParseErrors(src, p, r) \in Seq([position : Nat, column : Nat])
<1>1. r.pos + p.file_offset \in Nat /\ r.cols \in Nat
  BY LocalsFields, CallFields
<1>2. [position |-> r.pos + p.file_offset, column |-> r.cols]
        \in [position : Nat, column : Nat]
  BY <1>1
<1>3. <<[position |-> r.pos + p.file_offset, column |-> r.cols]>>
        \in Seq([position : Nat, column : Nat])
  BY <1>2
<1>4. << >> \in Seq([position : Nat, column : Nat])
  OBVIOUS
<1>5. ParseErrors(src, p, r) \in
        {<<[position |-> r.pos + p.file_offset, column |-> r.cols]>>, << >>}
  BY DEF ParseErrors
<1>6. QED  BY <1>3, <1>4, <1>5

----------------------------------------------------------------------------
(* The rows of a call that begins with a record and that ends with a line   *)
(* feed: index_region leaves whole rows, of num_cols + 1 separators each.   *)

(* A call of one of several threads for lines that end with line feeds.     *)
LineFeedCall(src, p) ==
  /\ p \in CallType
  /\ 0 < p.end /\ p.end <= Len(src) /\ At(src, p.end - 1) = "lf" /\ p.nl = "lf"
  /\ p.n_max = Unlimited /\ p.num_threads # 1

(* So many separators make whole rows. *)
WholeRows(p, n) == n % (p.num_cols + 1) = 0

(* Between two records the destination has whole rows; within a record it   *)
(* has, after them, the start of the record and a separator for each of its *)
(* columns so far, and the end of the call is still to come.               *)
RowsSoFar(p, r) ==
  /\ p.start <= r.pos /\ r.pos <= p.end
  /\ IF r.state = "RECORD_START"
     THEN r.cols = 0 /\ WholeRows(p, Len(r.destination))
     ELSE /\ p.start < r.pos /\ r.pos < p.end
          /\ \E whole \in Nat : WholeRows(p, whole) /\ Len(r.destination) = whole + 1 + r.cols

(* One more row after whole rows makes whole rows.                          *)
LEMMA OneMoreRow ==
  ASSUME NEW p \in CallType, NEW n \in Nat, WholeRows(p, n)
  PROVE  WholeRows(p, n + p.num_cols + 1)
<1> DEFINE d == p.num_cols + 1
           m == n \div d
<1>1. d \in Nat \ {0}
  BY CallFields
<1>2. n = m * d /\ m \in Nat
  <2>1. n % d = 0
    BY DEF WholeRows
  <2> HIDE DEF d
  <2>2. QED  BY <1>1, <2>1
<1> HIDE DEF m
<1>3. n + d = (m + 1) * d /\ m + 1 \in Nat
  <2> HIDE DEF d
  <2>1. QED  BY <1>1, <1>2
<1>4. ((m + 1) * d) % d = 0
  <2> HIDE DEF d
  <2>1. \A k \in Nat : (k * d) % d = 0
    BY <1>1
  <2>2. QED  BY <1>3, <2>1
<1>5. n + p.num_cols + 1 = n + d
  BY CallFields
<1>6. QED  BY <1>3, <1>4, <1>5 DEF WholeRows

(* push_back makes the destination longer by one.                           *)
LEMMA PushLength ==
  ASSUME NEW r \in LocalsType, NEW pos \in Nat
  PROVE  Len(Push(r, pos).destination) = Len(r.destination) + 1
<1>1. r.destination \in Seq(Nat)
  BY LocalsFields
<1>2. Push(r, pos).destination = Append(r.destination, pos)
  BY DEF Push, LocalsType
<1>3. QED  BY <1>1, <1>2

(* resolve_columns makes num_cols - 1 separators of those of a record.      *)
LEMMA ResolvedLength ==
  ASSUME NEW p \in CallType, NEW r \in LocalsType,
         p.num_cols > 0, p.start < r.pos, r.cols < Len(r.destination)
  PROVE  Len(ResolveColumns(p, r).destination) = Len(r.destination) - r.cols + p.num_cols - 1
<1>1. PICK d : d = r.destination
  OBVIOUS
<1>2. /\ d \in Seq(Nat) /\ Len(d) \in Nat /\ r.cols \in Nat /\ r.pos \in Nat
      /\ p.num_cols \in Nat /\ p.start \in Nat /\ p.file_offset \in Nat
      /\ r.cols < Len(d)
  BY <1>1, LocalsFields, CallFields
<1>3. ~(p.num_cols = 0 \/ r.pos <= p.start)
  BY <1>2
<1>4. \A e \in Seq(Nat) : [r EXCEPT !.destination = e].destination = e
  BY DEF LocalsType
<1>5. CASE r.cols >= p.num_cols
  <2> DEFINE n == Len(d) - (r.cols - p.num_cols + 1)
  <2>1. ResolveColumns(p, r) = [r EXCEPT !.destination = SubSeq(d, 1, n)]
    BY <1>1, <1>3, <1>5 DEF ResolveColumns
  <2>2. n \in Nat /\ n <= Len(d) /\ n = Len(d) - r.cols + p.num_cols - 1
    <3>1. PICK len, cols, num_cols \in Nat :
            len = Len(d) /\ cols = r.cols /\ num_cols = p.num_cols
      BY <1>2
    <3>2. num_cols > 0 /\ cols < len /\ cols >= num_cols
      BY <1>2, <1>3, <1>5, <3>1
    <3>3. LET m == len - (cols - num_cols + 1)
          IN  m \in Nat /\ m <= len /\ m = len - cols + num_cols - 1
      BY <3>2
    <3>4. QED  BY <3>1, <3>3
  <2> HIDE DEF n
  <2>3. SubSeq(d, 1, n) \in Seq(Nat) /\ Len(SubSeq(d, 1, n)) = n
    <3>1. \A e \in Seq(Nat), m \in Nat :
            m <= Len(e) => SubSeq(e, 1, m) \in Seq(Nat) /\ Len(SubSeq(e, 1, m)) = m
      OBVIOUS
    <3>2. QED  BY <1>2, <2>2, <3>1
  <2>4. QED  BY <1>1, <1>4, <2>1, <2>2, <2>3
<1>6. CASE r.cols < p.num_cols
  <2> DEFINE n   == p.num_cols - 1 - r.cols
             pad == [k \in 1 .. n |-> r.pos + p.file_offset]
  <2>1. ResolveColumns(p, r) = [r EXCEPT !.destination = d \o pad]
    BY <1>1, <1>2, <1>3, <1>6 DEF ResolveColumns
  <2>2. n \in Nat /\ r.pos + p.file_offset \in Nat
    BY <1>2, <1>6
  <2> HIDE DEF n
  <2>3. pad \in Seq(Nat) /\ Len(pad) = n
    BY <2>2
  <2> HIDE DEF pad
  <2>4. d \o pad \in Seq(Nat) /\ Len(d \o pad) = Len(d) + n
    <3>1. \A e, f \in Seq(Nat) : e \o f \in Seq(Nat) /\ Len(e \o f) = Len(e) + Len(f)
      OBVIOUS
    <3>2. QED  BY <1>2, <2>3, <3>1
  <2>5. Len(ResolveColumns(p, r).destination) = Len(d) + n
    BY <1>4, <2>1, <2>4
  <2>6. QED  BY <1>1, <1>2, <2>5 DEF n
<1>7. QED  BY <1>2, <1>5, <1>6

(* Where a record has been started, there are whole rows and the separators *)
(* of the record.                                                           *)
LEMMA RecordStarted ==
  ASSUME NEW p \in CallType, NEW r \in LocalsType, RowsSoFar(p, r)
  PROVE  \E whole \in Nat :
           WholeRows(p, whole) /\ Len(StartRecord(p, r).destination) = whole + 1 + r.cols
<1>1. r.pos + p.file_offset \in Nat /\ Len(r.destination) \in Nat
  BY LocalsFields, CallFields
<1>2. CASE r.state = "RECORD_START"
  <2>1. Len(StartRecord(p, r).destination) = Len(r.destination) + 1
    BY <1>1, <1>2, PushLength DEF StartRecord
  <2>2. r.cols = 0 /\ WholeRows(p, Len(r.destination))
    BY <1>2 DEF RowsSoFar
  <2>3. QED  BY <1>1, <2>1, <2>2
<1>3. CASE r.state # "RECORD_START"
  BY <1>3 DEF RowsSoFar, StartRecord
<1>4. QED  BY <1>2, <1>3

(* Ending a record, with or without the right number of columns, leaves     *)
(* whole rows.                                                              *)
LEMMA RecordEnded ==
  ASSUME NEW p \in CallType, NEW r \in LocalsType, RowsSoFar(p, r),
         r.state # "RECORD_START"
  PROVE  WholeRows(p, Len(Push(ResolveColumns(p, r), r.pos + p.file_offset).destination))
<1>1. PICK whole \in Nat : WholeRows(p, whole) /\ Len(r.destination) = whole + 1 + r.cols
  BY DEF RowsSoFar
<1>2. /\ p.start < r.pos /\ r.cols \in Nat /\ r.pos + p.file_offset \in Nat
      /\ p.num_cols \in Nat
  <2>1. p.start < r.pos
    BY DEF RowsSoFar
  <2>2. QED  BY <2>1, LocalsFields, CallFields
<1>3. r.cols < Len(r.destination)
  BY <1>1, <1>2
<1>4. p.num_cols > 0 => Len(ResolveColumns(p, r).destination) = whole + p.num_cols
  <2> SUFFICES ASSUME p.num_cols > 0
               PROVE  Len(ResolveColumns(p, r).destination) = whole + p.num_cols
    OBVIOUS
  <2>1. Len(ResolveColumns(p, r).destination) = Len(r.destination) - r.cols + p.num_cols - 1
    BY <1>2, <1>3, ResolvedLength
  <2>2. \A w, cols, num_cols \in Nat : (w + 1 + cols) - cols + num_cols - 1 = w + num_cols
    OBVIOUS
  <2>3. (whole + 1 + r.cols) - r.cols + p.num_cols - 1 = whole + p.num_cols
    BY <1>2, <2>2
  <2>4. QED  BY <1>1, <2>1, <2>3
<1>5. ResolveColumns(p, r) \in LocalsType
  <2>1. ResolveColumns(p, r) \in Rewritten(r)
    BY PushType, ResolveColumnsType
  <2>2. QED  BY <2>1, RewrittenType
<1> DEFINE n == Len(Push(ResolveColumns(p, r), r.pos + p.file_offset).destination)
<1>6. n = Len(ResolveColumns(p, r).destination) + 1 /\ n \in Nat
  <2>1. n = Len(ResolveColumns(p, r).destination) + 1
    BY <1>2, <1>5, PushLength
  <2>2. Len(ResolveColumns(p, r).destination) \in Nat
    BY <1>5, LocalsFields
  <2>3. QED  BY <2>1, <2>2
<1> HIDE DEF n
<1>7. CASE p.num_cols > 0
  <2>1. n = whole + p.num_cols + 1
    BY <1>2, <1>4, <1>6, <1>7
  <2>2. QED  BY <1>1, <2>1, OneMoreRow DEF n
<1>8. CASE p.num_cols = 0
  <2>1. \A m \in Nat : m % (0 + 1) = 0
    OBVIOUS
  <2>2. QED  BY <1>6, <1>8, <2>1 DEF WholeRows, n
<1>9. QED  BY <1>2, <1>7, <1>8

(* At the end of such a call there is a line feed that searches stop at.    *)
LEMMA StopsAtLineFeed ==
  ASSUME NEW src \in File, NEW p, LineFeedCall(src, p),
         NEW pos \in Nat, pos < p.end, NEW chars, "lf" \in chars
  PROVE  FirstOf(src, pos, chars) \in pos .. (p.end - 1)
<1>1. p.end \in Nat /\ p.end <= Len(src) /\ Len(src) \in Nat /\ src \in Seq(Char)
  BY CallFields DEF LineFeedCall, File
<1> DEFINE q == FirstOf(src, pos, chars)
<1>2. q \in pos .. Len(src) /\ \A k \in pos .. (q - 1) : At(src, k) \notin chars
  BY <1>1, FirstOfStops
<1> HIDE DEF q
<1>3. ~(p.end - 1 \in pos .. (q - 1))
  BY <1>2 DEF LineFeedCall
<1>4. QED  BY <1>1, <1>2, <1>3 DEF q

(* At a line feed a record does not begin: the line is taken for empty.     *)
LEMMA LineFeedIsEmpty ==
  ASSUME NEW src \in File, NEW pos \in Nat, NEW end \in Nat, pos < end, end <= Len(src),
         SkipEmptyRows, At(src, pos) = "lf"
  PROVE  IsEmptyLine(src, pos, end)
<1> DEFINE q == FirstOf(src, pos, Char \ Blank)
<1>1. q \in pos .. Len(src) /\ \A k \in pos .. (q - 1) : At(src, k) \notin Char \ Blank
  BY FirstOfStops DEF File
<1>2. "lf" \in Char \ Blank
  BY DEF Char, Blank
<1> HIDE DEF q
<1>3. q = pos
  <2>1. ~(pos \in pos .. (q - 1))
    BY <1>1, <1>2
  <2>2. Len(src) \in Nat
    BY DEF File
  <2>3. QED  BY <1>1, <2>1, <2>2
<1>4. QED  BY <1>3 DEF IsEmptyLine, FirstNotOf, q

(* An iteration of such a call keeps the rows whole, unless it gives up.    *)
LEMMA StepKeepsRows ==
  ASSUME NEW src \in File, NEW p, LineFeedCall(src, p), NEW r \in LocalsType,
         SkipEmptyRows, ~EscapeBackslash, RowsSoFar(p, r), r.out = "running"
  PROVE  LET s == IndexStep(src, p, r)
         IN  \/ s.out = "newline_error"
             \/ s.out = "running" /\ RowsSoFar(p, s)
             \/ s.out = "end" /\ s.state = "RECORD_START" /\ RowsSoFar(p, s) /\ r.pos = p.end
<1> DEFINE kind == Kind(src, p, r)
           c    == At(src, r.pos)
           s    == IndexStep(src, p, r)
<1>1. /\ p \in CallType /\ p.end \in Nat /\ p.start \in Nat /\ p.num_cols \in Nat
      /\ p.file_offset \in Nat
      /\ r.pos \in Nat /\ r.cols \in Nat /\ r.state \in CsvState /\ r.pos + p.file_offset \in Nat
      /\ r.destination \in Seq(Nat)
  BY LocalsFields, CallFields DEF LineFeedCall
<1>2. kind # "return" => r.pos < p.end
  BY <1>1 DEF Kind
<1>3. r.pos < p.end /\ c # "lf" => r.pos + 1 < p.end
  <2>1. At(src, p.end - 1) = "lf"
    BY DEF LineFeedCall
  <2>2. c # "lf" => r.pos # p.end - 1
    BY <2>1
  <2>3. QED  BY <1>1, <2>2
<1>4. p.start <= r.pos
  BY <1>1 DEF RowsSoFar
<1>5. kind \in {"return", "escape", "comment", "empty", "delim", "newline", "quoted_nl",
                "quote", "other"}
  BY DEF Kind
<1>6. CASE kind = "return"
  <2>1. r.pos >= p.end
    BY <1>6 DEF Kind, Below, LineFeedCall, Unlimited
  <2>2. r.state = "RECORD_START" /\ r.pos = p.end
    BY <1>1, <2>1 DEF RowsSoFar
  <2>3. s = [r EXCEPT !.last_tick = p.end, !.out = "end"]
    BY <1>6 DEF IndexStep
  <2> HIDE DEF s
  <2>4. /\ s.out = "end" /\ s.state = r.state /\ s.pos = r.pos /\ s.cols = r.cols
        /\ s.destination = r.destination
    BY <2>3 DEF LocalsType
  <2>5. QED  BY <2>2, <2>4 DEF RowsSoFar, s
<1>7. CASE kind = "comment"
  <2>1. s = SkipComment(src, p, r)
    BY <1>7 DEF IndexStep
  <2>2. r.pos < p.end /\ r.state # "QUOTED_FIELD" /\ NewlineState(r.state) = "RECORD_START"
    BY <1>2, <1>7 DEF Kind, NewlineState
  <2>3. SkipRestOfLine(src, r.pos) \in r.pos .. (p.end - 1)
    BY <1>1, <2>2, StopsAtLineFeed DEF SkipRestOfLine
  <2> DEFINE t == IF r.state = "RECORD_START" THEN r
                  ELSE Push(ResolveColumns(p, r), r.pos + p.file_offset)
  <2>4. s = [t EXCEPT !.cols = 0, !.pos = SkipRestOfLine(src, r.pos) + 1,
                      !.state = "RECORD_START"]
    BY <2>1, <2>2 DEF SkipComment
  <2>5. t \in LocalsType /\ t.out = "running" /\ WholeRows(p, Len(t.destination))
    <3>1. t \in Rewritten(r)
      BY <1>1, PushType, ResolveColumnsType, PushAfter
    <3>2. CASE r.state = "RECORD_START"
      BY <3>1, <3>2, RewrittenType DEF RowsSoFar
    <3>3. CASE r.state # "RECORD_START"
      BY <1>1, <3>1, <3>3, RewrittenType, RecordEnded
    <3>4. QED  BY <3>2, <3>3
  <2> HIDE DEF t, s
  <2>6. /\ s.out = "running" /\ s.state = "RECORD_START" /\ s.cols = 0
        /\ s.pos = SkipRestOfLine(src, r.pos) + 1 /\ s.destination = t.destination
    BY <2>4, <2>5 DEF LocalsType
  <2>7. p.start <= s.pos /\ s.pos <= p.end
    BY <1>1, <1>4, <2>3, <2>6
  <2>8. QED  BY <2>5, <2>6, <2>7 DEF RowsSoFar, s
<1>8. CASE kind = "empty"
  <2>1. s = [r EXCEPT !.pos = SkipRestOfLine(src, r.pos) + 1]
    BY <1>8 DEF IndexStep, SkipEmptyLine
  <2>2. r.pos < p.end /\ r.state = "RECORD_START"
    BY <1>2, <1>8 DEF Kind
  <2>3. SkipRestOfLine(src, r.pos) \in r.pos .. (p.end - 1)
    BY <1>1, <2>2, StopsAtLineFeed DEF SkipRestOfLine
  <2> HIDE DEF s
  <2>4. /\ s.out = "running" /\ s.state = "RECORD_START" /\ s.cols = r.cols
        /\ s.pos = SkipRestOfLine(src, r.pos) + 1 /\ s.destination = r.destination
    BY <2>1, <2>2 DEF LocalsType
  <2>5. p.start <= s.pos /\ s.pos <= p.end
    BY <1>1, <1>4, <2>3, <2>4
  <2>6. QED  BY <2>2, <2>4, <2>5 DEF RowsSoFar, s
<1>9. CASE kind = "delim"
  <2>1. s = Delimiter(p, r)
    BY <1>9 DEF IndexStep
  <2>2. r.state # "QUOTED_FIELD" /\ c = "delim"
    BY <1>9 DEF Kind
  <2> DEFINE t == Push(StartRecord(p, r), r.pos + p.file_offset)
  <2>3. PICK whole \in Nat :
          WholeRows(p, whole) /\ Len(StartRecord(p, r).destination) = whole + 1 + r.cols
    BY <1>1, RecordStarted
  <2>4. /\ t \in LocalsType /\ t.cols = r.cols /\ t.pos = r.pos /\ t.out = "running"
        /\ Len(t.destination) = whole + 1 + (r.cols + 1)
    <3>1. StartRecord(p, r) \in LocalsType
      BY <1>1, StartRecordType, RewrittenType
    <3>2. Len(t.destination) = Len(StartRecord(p, r).destination) + 1
      BY <1>1, <3>1, PushLength
    <3>3. t \in Rewritten(r)
      BY <1>1, StartRecordType, PushAfter
    <3>4. r \in LocalsType /\ r.cols \in Nat /\ r.out = "running"
      BY <1>1, LocalsFields
    <3> HIDE DEF t
    <3>5. /\ t \in LocalsType /\ t.cols = r.cols /\ t.pos = r.pos /\ t.out = "running"
      BY <3>3, <3>4, RewrittenType
    <3>6. QED  BY <2>3, <3>2, <3>4, <3>5
  <2>5. s = [t EXCEPT !.state = "FIELD_START", !.cols = @ + 1, !.pos = @ + 1]
    BY <2>1, <2>2 DEF Delimiter, CommaState
  <2> HIDE DEF t, s
  <2>6. /\ s.state = "FIELD_START" /\ s.out = "running" /\ s.cols = r.cols + 1
        /\ s.pos = r.pos + 1 /\ s.destination = t.destination
    BY <2>4, <2>5 DEF LocalsType
  <2>7. s.pos < p.end /\ p.start < s.pos
    BY <1>1, <1>2, <1>3, <1>4, <1>9, <2>2, <2>6
  <2>8. \E n \in Nat : WholeRows(p, n) /\ Len(s.destination) = n + 1 + s.cols
    BY <2>3, <2>4, <2>6
  <2>9. p.start <= s.pos /\ s.pos <= p.end
    BY <1>1, <1>4, <2>6, <2>7
  <2>10. s.state # "RECORD_START"
    BY <2>6
  <2>11. QED  BY <2>6, <2>7, <2>8, <2>9, <2>10 DEF RowsSoFar, s
<1>10. CASE kind = "newline"
  <2>1. s = EndRecord(p, r) /\ r.pos < p.end
    BY <1>2, <1>10 DEF IndexStep
  <2>2. c = "lf" /\ r.state # "QUOTED_FIELD"
    BY <1>10 DEF Kind, LineFeedCall
  <2>3. r.state # "RECORD_START"
    <3>1. c = "lf" => IsEmptyLine(src, r.pos, p.end)
      BY <1>1, <2>1, LineFeedIsEmpty DEF LineFeedCall
    <3>2. QED  BY <1>10, <2>2, <3>1 DEF Kind
  <2> DEFINE t == Push(ResolveColumns(p, r), r.pos + p.file_offset)
  <2>4. t \in LocalsType /\ t.pos = r.pos /\ t.out = "running" /\ t.lines_read \in Nat
    <3>1. t \in Rewritten(r)
      BY <1>1, PushType, ResolveColumnsType, PushAfter
    <3>2. QED  BY <3>1, RewrittenType, LocalsFields
  <2>5. WholeRows(p, Len(t.destination))
    BY <1>1, <2>3, RecordEnded
  <2> DEFINE u == [t EXCEPT !.state = "RECORD_START", !.cols = 0, !.lines_read = @ + 1]
             tick == IF r.pos - t.last_tick > p.update_size THEN r.pos ELSE t.last_tick
  <2>6. s = [u EXCEPT !.pos = @ + 1,
                      !.last_tick = IF r.pos - @ > p.update_size THEN r.pos ELSE @]
    BY <2>1, <2>2, <2>3 DEF EndRecord, StartRecord, NewlineState, Below, LineFeedCall, Unlimited
  <2> HIDE DEF t, s
  <2>7. /\ s.out = "running" /\ s.state = "RECORD_START" /\ s.cols = 0 /\ s.pos = r.pos + 1
        /\ s.destination = t.destination
    BY <2>4, <2>6 DEF LocalsType
  <2>8. p.start <= s.pos /\ s.pos <= p.end
    BY <1>1, <1>4, <2>1, <2>7
  <2>9. QED  BY <2>5, <2>7, <2>8 DEF RowsSoFar, s
<1>11. CASE kind = "quoted_nl"
  <2>1. s = [r EXCEPT !.out = "newline_error"]
    BY <1>11 DEF IndexStep, QuotedNewline, LineFeedCall
  <2>2. s.out = "newline_error"
    BY <2>1 DEF LocalsType
  <2>3. QED  BY <2>2
<1>12. CASE kind = "quote"
  <2>1. s = QuoteChar(p, r) /\ c = "quote"
    BY <1>12 DEF IndexStep, Kind, IsQuote
  <2> DEFINE t == StartRecord(p, r)
  <2>2. PICK whole \in Nat : WholeRows(p, whole) /\ Len(t.destination) = whole + 1 + r.cols
    BY <1>1, RecordStarted
  <2>3. t \in LocalsType /\ t.cols = r.cols /\ t.pos = r.pos /\ t.out = "running"
    BY <1>1, StartRecordType, RewrittenType
  <2>4. s = [t EXCEPT !.state = QuotedState(r.state), !.pos = @ + 1]
    BY <2>1 DEF QuoteChar
  <2>5. QuotedState(r.state) # "RECORD_START"
    BY <1>1 DEF QuotedState, CsvState
  <2> HIDE DEF t, s
  <2>6. /\ s.state = QuotedState(r.state) /\ s.out = "running" /\ s.cols = r.cols
        /\ s.pos = r.pos + 1 /\ s.destination = t.destination
    BY <2>3, <2>4 DEF LocalsType
  <2>7. s.pos < p.end /\ p.start < s.pos
    BY <1>1, <1>2, <1>3, <1>4, <1>12, <2>1, <2>6
  <2>8. \E n \in Nat : WholeRows(p, n) /\ Len(s.destination) = n + 1 + s.cols
    BY <2>2, <2>6
  <2>9. p.start <= s.pos /\ s.pos <= p.end
    BY <1>1, <1>4, <2>6, <2>7
  <2>10. s.state # "RECORD_START"
    BY <2>5, <2>6
  <2>11. QED  BY <2>6, <2>7, <2>8, <2>9, <2>10 DEF RowsSoFar, s
<1>13. CASE kind = "other"
  <2>1. s = OtherChars(src, p, r) /\ c # "lf" /\ r.pos < p.end
    BY <1>2, <1>13 DEF IndexStep, Kind, LineFeedCall
  <2> DEFINE t == StartRecord(p, r)
             to == FirstOf(src, r.pos + 1, Query(p.nl))
  <2>2. PICK whole \in Nat : WholeRows(p, whole) /\ Len(t.destination) = whole + 1 + r.cols
    BY <1>1, RecordStarted
  <2>3. t \in LocalsType /\ t.cols = r.cols /\ t.pos = r.pos /\ t.out = "running"
    BY <1>1, StartRecordType, RewrittenType
  <2>4. r.pos + 1 < p.end
    BY <1>3, <2>1
  <2>5. to \in (r.pos + 1) .. (p.end - 1)
    <3>1. "lf" \in Query(p.nl)
      BY DEF Query, LineFeedCall
    <3>2. QED  BY <1>1, <2>4, <3>1, StopsAtLineFeed
  <2>6. s = [t EXCEPT !.state = OtherState(r.state), !.pos = to]
    BY <2>1, <2>3, <2>4 DEF OtherChars
  <2>7. OtherState(r.state) # "RECORD_START"
    BY <1>1 DEF OtherState, CsvState
  <2> HIDE DEF t, s, to
  <2>8. /\ s.state = OtherState(r.state) /\ s.out = "running" /\ s.cols = r.cols
        /\ s.pos = to /\ s.destination = t.destination
    BY <2>3, <2>6 DEF LocalsType
  <2>9. s.pos < p.end /\ p.start < s.pos
    BY <1>1, <1>4, <2>5, <2>8
  <2>10. \E n \in Nat : WholeRows(p, n) /\ Len(s.destination) = n + 1 + s.cols
    BY <2>2, <2>8
  <2>11. p.start <= s.pos /\ s.pos <= p.end
    BY <1>1, <1>4, <2>5, <2>8
  <2>12. s.state # "RECORD_START"
    BY <2>7, <2>8
  <2>13. QED  BY <2>8, <2>9, <2>10, <2>11, <2>12 DEF RowsSoFar, s
<1>14. kind # "escape"
  BY DEF Kind
<1>15. QED
  BY <1>5, <1>6, <1>7, <1>8, <1>9, <1>10, <1>11, <1>12, <1>13, <1>14

----------------------------------------------------------------------------
(* The fields of such a call: no line feed is passed within one.            *)

NoLineFeed(src, from, to) == \A q \in from .. to : At(src, q) # "lf"

(* There is none between two separators of the same row. *)
Fields(src, p, seps) ==
  \A k \in 1 .. (Len(seps) - 1) :
    k % (p.num_cols + 1) # 0 => NoLineFeed(src, seps[k] + 1, seps[k + 1] - 1)

(* There is none between the separators of the last row, which are cols + 1 *)
(* in number, and pos.                                                      *)
OpenRow(src, seps, cols, pos) ==
  \A k \in (Len(seps) - cols) .. Len(seps) : NoLineFeed(src, seps[k], pos - 1)

FieldsSoFar(src, p, r) ==
  /\ Fields(src, p, r.destination)
  /\ r.state # "RECORD_START" => OpenRow(src, r.destination, r.cols, r.pos)

(* One more separator: of a new row, or after a field without a line feed.  *)
LEMMA FieldsAppended ==
  ASSUME NEW src, NEW p, NEW seps \in Seq(Nat), NEW pos \in Nat, Fields(src, p, seps),
         \/ Len(seps) % (p.num_cols + 1) = 0
         \/ Len(seps) > 0 /\ NoLineFeed(src, seps[Len(seps)] + 1, pos - 1)
  PROVE  Fields(src, p, Append(seps, pos))
<1> DEFINE a == Append(seps, pos)
<1>1. /\ Len(a) = Len(seps) + 1 /\ Len(seps) \in Nat /\ a[Len(seps) + 1] = pos
      /\ \A k \in 1 .. Len(seps) : a[k] = seps[k]
  OBVIOUS
<1> HIDE DEF a
<1>2. ASSUME NEW k \in 1 .. (Len(a) - 1), k % (p.num_cols + 1) # 0
      PROVE  NoLineFeed(src, a[k] + 1, a[k + 1] - 1)
  <2>1. k \in 1 .. Len(seps)
    BY <1>1
  <2>2. CASE k = Len(seps)
    BY <1>1, <1>2, <2>1, <2>2
  <2>3. CASE k # Len(seps)
    <3>1. k \in 1 .. (Len(seps) - 1) /\ k + 1 \in 1 .. Len(seps)
      BY <1>1, <2>1, <2>3
    <3>2. a[k] = seps[k] /\ a[k + 1] = seps[k + 1]
      BY <1>1, <2>1, <3>1
    <3>3. QED  BY <1>2, <3>1, <3>2 DEF Fields
  <2>4. QED  BY <2>2, <2>3
<1>3. QED  BY <1>2 DEF Fields, a

(* Fewer separators. *)
LEMMA FieldsCut ==
  ASSUME NEW src, NEW p, NEW seps \in Seq(Nat), NEW n \in 0 .. Len(seps), Fields(src, p, seps)
  PROVE  Fields(src, p, SubSeq(seps, 1, n))
<1> DEFINE a == SubSeq(seps, 1, n)
<1>1. Len(a) = n /\ n \in Nat /\ Len(seps) \in Nat /\ \A k \in 1 .. n : a[k] = seps[k]
  OBVIOUS
<1> HIDE DEF a
<1>2. ASSUME NEW k \in 1 .. (n - 1), k % (p.num_cols + 1) # 0
      PROVE  NoLineFeed(src, a[k] + 1, a[k + 1] - 1)
  <2>1. k \in 1 .. n /\ k + 1 \in 1 .. n /\ k \in 1 .. (Len(seps) - 1)
    BY <1>1
  <2>2. a[k] = seps[k] /\ a[k + 1] = seps[k + 1]
    BY <1>1, <2>1
  <2>3. QED  BY <1>2, <2>1, <2>2 DEF Fields
<1>3. QED  BY <1>1, <1>2 DEF Fields, a

(* The same separator again and again, for columns that are missing.        *)
LEMMA FieldsPadded ==
  ASSUME NEW src, NEW p, NEW seps \in Seq(Nat), NEW pad \in Seq(Nat), NEW pos \in Nat,
         Fields(src, p, seps), Len(seps) > 0, NoLineFeed(src, seps[Len(seps)] + 1, pos - 1),
         \A k \in 1 .. Len(pad) : pad[k] = pos
  PROVE  Fields(src, p, seps \o pad)
<1>1. PICK n \in Nat : Len(pad) = n /\ \A k \in 1 .. n : pad[k] = pos
  OBVIOUS
<1>2. PICK a : a = seps \o pad
  OBVIOUS
<1>3. /\ Len(a) = Len(seps) + n /\ Len(seps) \in Nat
      /\ \A k \in 1 .. Len(seps) : a[k] = seps[k]
      /\ \A k \in (Len(seps) + 1) .. (Len(seps) + n) : a[k] = pos
  <2>1. Len(a) = Len(seps) + Len(pad) /\ Len(seps) \in Nat
    BY <1>2
  <2>2. ASSUME NEW k \in 1 .. Len(seps) PROVE a[k] = seps[k]
    BY <1>1, <1>2, <2>2
  <2>3. ASSUME NEW k \in (Len(seps) + 1) .. (Len(seps) + n) PROVE a[k] = pos
    <3>1. a[k] = pad[k - Len(seps)] /\ k - Len(seps) \in 1 .. n
      BY <1>1, <1>2, <2>1, <2>3
    <3>2. QED  BY <1>1, <3>1
  <2>4. QED  BY <1>1, <2>1, <2>2, <2>3
<1>4. ASSUME NEW k \in 1 .. (Len(a) - 1), k % (p.num_cols + 1) # 0
      PROVE  NoLineFeed(src, a[k] + 1, a[k + 1] - 1)
  <2>1. CASE k < Len(seps)
    <3>1. k \in 1 .. (Len(seps) - 1) /\ k \in 1 .. Len(seps) /\ k + 1 \in 1 .. Len(seps)
      BY <1>3, <2>1
    <3>2. a[k] = seps[k] /\ a[k + 1] = seps[k + 1]
      BY <1>3, <3>1
    <3>3. QED  BY <1>4, <3>1, <3>2 DEF Fields
  <2>2. CASE k = Len(seps)
    <3>1. k \in 1 .. Len(seps) /\ k + 1 \in (Len(seps) + 1) .. (Len(seps) + n)
      BY <1>3, <2>2
    <3>2. a[k] = seps[Len(seps)] /\ a[k + 1] = pos
      BY <1>3, <2>2, <3>1
    <3>3. QED  BY <3>2
  <2>3. CASE k > Len(seps)
    <3>1. /\ k \in (Len(seps) + 1) .. (Len(seps) + n)
          /\ k + 1 \in (Len(seps) + 1) .. (Len(seps) + n)
      BY <1>3, <2>3
    <3>2. a[k] = pos /\ a[k + 1] = pos
      BY <1>3, <3>1
    <3>3. (pos + 1) .. (pos - 1) = {}
      OBVIOUS
    <3>4. QED  BY <3>2, <3>3 DEF NoLineFeed
  <2>4. QED  BY <1>3, <2>1, <2>2, <2>3
<1>5. QED  BY <1>1, <1>2, <1>4 DEF Fields

(* Where a record has been started, its separators have no line feed after  *)
(* them so far.                                                             *)
LEMMA FieldsStarted ==
  ASSUME NEW src, NEW p \in CallType, p.file_offset = 0, NEW r \in LocalsType,
         RowsSoFar(p, r), FieldsSoFar(src, p, r)
  PROVE  LET d == StartRecord(p, r).destination
         IN  /\ d \in Seq(Nat) /\ r.cols < Len(d)
             /\ Fields(src, p, d) /\ OpenRow(src, d, r.cols, r.pos)
<1>1. r.pos \in Nat /\ r.cols \in Nat /\ r.destination \in Seq(Nat) /\ p.num_cols \in Nat
  BY LocalsFields, CallFields
<1>2. CASE r.state = "RECORD_START"
  <2> DEFINE d == Append(r.destination, r.pos)
  <2>1. StartRecord(p, r).destination = d
    BY <1>1, <1>2 DEF StartRecord, Push, LocalsType
  <2>2. d \in Seq(Nat) /\ Len(d) = Len(r.destination) + 1 /\ d[Len(d)] = r.pos /\ Len(d) \in Nat
    BY <1>1
  <2>3. Fields(src, p, d)
    BY <1>1, <1>2, FieldsAppended DEF RowsSoFar, WholeRows, FieldsSoFar
  <2>4. r.cols = 0 /\ r.pos .. (r.pos - 1) = {} /\ (Len(d) - 0) .. Len(d) = {Len(d)}
    BY <1>1, <1>2, <2>2 DEF RowsSoFar
  <2> HIDE DEF d
  <2>5. OpenRow(src, d, r.cols, r.pos)
    BY <2>2, <2>4 DEF OpenRow, NoLineFeed
  <2>6. QED  BY <1>1, <2>1, <2>2, <2>3, <2>4, <2>5
<1>3. CASE r.state # "RECORD_START"
  <2>1. StartRecord(p, r) = r
    BY <1>3 DEF StartRecord
  <2>2. r.cols < Len(r.destination)
    BY <1>1, <1>3 DEF RowsSoFar
  <2>3. QED  BY <1>1, <1>3, <2>1, <2>2 DEF FieldsSoFar
<1>4. QED  BY <1>2, <1>3

(* Ending a record adds no field with a line feed.                          *)
LEMMA FieldsEnded ==
  ASSUME NEW src, NEW p \in CallType, p.file_offset = 0, NEW r \in LocalsType,
         RowsSoFar(p, r), FieldsSoFar(src, p, r), p.num_cols > 0, r.state # "RECORD_START"
  PROVE  Fields(src, p, Push(ResolveColumns(p, r), r.pos).destination)
<1>1. PICK d : d = r.destination
  OBVIOUS
<1>2. /\ d \in Seq(Nat) /\ Len(d) \in Nat /\ r.cols \in Nat /\ r.pos \in Nat
      /\ p.num_cols \in Nat /\ r.cols < Len(d) /\ p.start < r.pos /\ p.start \in Nat
  <2>1. PICK whole \in Nat : p.start < r.pos /\ Len(d) = whole + 1 + r.cols
    BY <1>1 DEF RowsSoFar
  <2>2. /\ d \in Seq(Nat) /\ r.cols \in Nat /\ r.pos \in Nat
        /\ p.num_cols \in Nat /\ p.start \in Nat
    BY <1>1, LocalsFields, CallFields
  <2>3. r.cols < Len(d)
    BY <2>1, <2>2
  <2>4. QED  BY <2>1, <2>2, <2>3
<1>3. ~(p.num_cols = 0 \/ r.pos <= p.start)
  BY <1>2
<1>4. \A e \in Seq(Nat) : Push([r EXCEPT !.destination = e], r.pos).destination = Append(e, r.pos)
  BY DEF LocalsType, Push
<1>5. Fields(src, p, d) /\ \A k \in (Len(d) - r.cols) .. Len(d) : NoLineFeed(src, d[k], r.pos - 1)
  BY <1>1 DEF FieldsSoFar, OpenRow
<1>6. \A k \in (Len(d) - r.cols) .. Len(d) : NoLineFeed(src, d[k] + 1, r.pos - 1)
  <2>1. \A k \in (Len(d) - r.cols) .. Len(d) : d[k] \in Nat
    BY <1>2
  <2>2. QED  BY <1>2, <1>5, <2>1 DEF NoLineFeed
<1>7. CASE r.cols >= p.num_cols
  <2> DEFINE n == Len(d) - (r.cols - p.num_cols + 1)
  <2>1. ResolveColumns(p, r) = [r EXCEPT !.destination = SubSeq(d, 1, n)]
    BY <1>1, <1>3, <1>7 DEF ResolveColumns
  <2>2. n \in (Len(d) - r.cols) .. Len(d) /\ n \in 1 .. Len(d)
    <3>1. \A len, cols, num_cols \in Nat :
            num_cols > 0 /\ cols < len /\ cols >= num_cols =>
              LET m == len - (cols - num_cols + 1)
              IN  m \in (len - cols) .. len /\ m \in 1 .. len
      OBVIOUS
    <3>2. QED  BY <1>2, <1>7, <3>1
  <2> HIDE DEF n
  <2>3. PICK e \in Seq(Nat) : e = SubSeq(d, 1, n) /\ Len(e) = n /\ e[n] = d[n]
    <3>1. SubSeq(d, 1, n) \in Seq(Nat) /\ Len(SubSeq(d, 1, n)) = n
      BY <1>2, <2>2
    <3>2. SubSeq(d, 1, n)[n] = d[n]
      BY <1>2, <2>2
    <3>3. QED  BY <3>1, <3>2
  <2>4. Fields(src, p, e)
    BY <1>2, <1>5, <2>2, <2>3, FieldsCut
  <2>5. Len(e) > 0 /\ NoLineFeed(src, e[Len(e)] + 1, r.pos - 1)
    BY <1>2, <1>6, <2>2, <2>3
  <2>6. Fields(src, p, Append(e, r.pos))
    BY <1>2, <2>4, <2>5, FieldsAppended
  <2>7. QED  BY <1>4, <2>1, <2>3, <2>6
<1>8. CASE r.cols < p.num_cols
  <2>1. PICK n \in Nat : n = p.num_cols - 1 - r.cols
    BY <1>2, <1>8
  <2>2. PICK pad \in Seq(Nat) :
          pad = [k \in 1 .. n |-> r.pos] /\ Len(pad) = n /\ \A k \in 1 .. n : pad[k] = r.pos
    <3> DEFINE pad == [k \in 1 .. n |-> r.pos]
    <3>1. pad \in Seq(Nat) /\ Len(pad) = n
      BY <1>2
    <3>2. QED  BY <3>1
  <2>3. Len(d) > 0 /\ NoLineFeed(src, d[Len(d)] + 1, r.pos - 1)
    <3>1. Len(d) > 0 /\ Len(d) \in (Len(d) - r.cols) .. Len(d)
      BY <1>2
    <3>2. QED  BY <1>6, <3>1
  <2>4. ResolveColumns(p, r) = [r EXCEPT !.destination = d \o pad]
    <3>1. r.pos + p.file_offset = r.pos
      BY <1>2
    <3>2. pad = [k \in 1 .. (p.num_cols - 1 - r.cols) |-> r.pos + p.file_offset]
      BY <2>1, <2>2, <3>1
    <3>3. ~(r.cols >= p.num_cols)
      BY <1>2, <1>8
    <3>4. QED  BY <1>1, <1>3, <3>2, <3>3 DEF ResolveColumns
  <2>5. Fields(src, p, d \o pad)
    <3>1. pad \in Seq(Nat) /\ \A k \in 1 .. Len(pad) : pad[k] = r.pos
      BY <2>2
    <3>2. QED  BY <1>2, <1>5, <2>3, <3>1, FieldsPadded
  <2>6. PICK e \in Seq(Nat) : e = d \o pad /\ Len(e) = Len(d) + n
    <3>1. \A f, g \in Seq(Nat) : f \o g \in Seq(Nat) /\ Len(f \o g) = Len(f) + Len(g)
      OBVIOUS
    <3>2. pad \in Seq(Nat) /\ Len(pad) = n
      BY <2>2
    <3>3. QED  BY <1>2, <3>1, <3>2
  <2>7. e[Len(e)] = IF n = 0 THEN d[Len(d)] ELSE r.pos
    <3>1. CASE n = 0
      BY <1>2, <2>2, <2>6, <3>1
    <3>2. CASE n # 0
      <4>1. Len(e) - Len(d) = n /\ n \in 1 .. n /\ Len(e) > Len(d)
        BY <1>2, <2>6, <3>2
      <4>2. e[Len(e)] = pad[Len(e) - Len(d)]
        BY <1>2, <2>2, <2>6, <4>1
      <4>3. QED  BY <2>2, <3>2, <4>1, <4>2
    <3>3. QED  BY <3>1, <3>2
  <2>8. NoLineFeed(src, e[Len(e)] + 1, r.pos - 1)
    <3>1. (r.pos + 1) .. (r.pos - 1) = {}
      BY <1>2
    <3>2. QED  BY <2>3, <2>7, <3>1 DEF NoLineFeed
  <2>9. Fields(src, p, e) /\ Len(e) > 0
    BY <1>2, <2>3, <2>5, <2>6
  <2>10. Fields(src, p, Append(e, r.pos))
    BY <1>2, <2>8, <2>9, FieldsAppended
  <2>11. QED  BY <1>4, <2>4, <2>6, <2>10
<1>9. QED  BY <1>2, <1>7, <1>8

(* More of a field without a line feed. *)
LEMMA OpenRowGrows ==
  ASSUME NEW src, NEW seps \in Seq(Nat), NEW cols \in Nat, cols < Len(seps),
         NEW pos \in Nat, NEW to \in Nat, OpenRow(src, seps, cols, pos),
         NoLineFeed(src, pos, to - 1)
  PROVE  OpenRow(src, seps, cols, to)
<1>1. ASSUME NEW k \in (Len(seps) - cols) .. Len(seps)
      PROVE  NoLineFeed(src, seps[k], to - 1)
  <2>1. seps[k] \in Nat /\ NoLineFeed(src, seps[k], pos - 1)
    <3>1. Len(seps) \in Nat /\ k \in 1 .. Len(seps)
      OBVIOUS
    <3>2. QED  BY <3>1 DEF OpenRow
  <2>2. QED  BY <2>1 DEF NoLineFeed
<1>2. QED  BY <1>1 DEF OpenRow

(* One more separator in a row, at a delimiter. *)
LEMMA OpenRowDelimited ==
  ASSUME NEW src, NEW seps \in Seq(Nat), NEW cols \in Nat, cols < Len(seps),
         NEW pos \in Nat, OpenRow(src, seps, cols, pos), At(src, pos) # "lf"
  PROVE  OpenRow(src, Append(seps, pos), cols + 1, pos + 1)
<1> DEFINE a == Append(seps, pos)
<1>1. /\ Len(a) = Len(seps) + 1 /\ Len(seps) \in Nat /\ a[Len(seps) + 1] = pos
      /\ \A k \in 1 .. Len(seps) : a[k] = seps[k]
  OBVIOUS
<1>2. NoLineFeed(src, pos, (pos + 1) - 1)
  BY DEF NoLineFeed
<1>3. OpenRow(src, seps, cols, pos + 1)
  BY <1>2, OpenRowGrows
<1> HIDE DEF a
<1>4. ASSUME NEW k \in (Len(a) - (cols + 1)) .. Len(a)
      PROVE  NoLineFeed(src, a[k], (pos + 1) - 1)
  <2>1. CASE k = Len(seps) + 1
    BY <1>1, <1>2, <2>1
  <2>2. CASE k # Len(seps) + 1
    <3>1. k \in (Len(seps) - cols) .. Len(seps) /\ k \in 1 .. Len(seps)
      BY <1>1, <2>2
    <3>2. QED  BY <1>1, <1>3, <3>1 DEF OpenRow
  <2>3. QED  BY <2>1, <2>2
<1>5. QED  BY <1>4 DEF OpenRow, a

(* An iteration of such a call passes no line feed within a field, unless   *)
(* it gives up.                                                             *)
LEMMA StepPassesNoLineFeed ==
  ASSUME NEW src \in File, NEW p, LineFeedCall(src, p), p.num_cols > 0, p.file_offset = 0,
         NEW r \in LocalsType, SkipEmptyRows, ~EscapeBackslash,
         RowsSoFar(p, r), FieldsSoFar(src, p, r), r.out = "running"
  PROVE  LET s == IndexStep(src, p, r)
         IN  s.out = "newline_error" \/ FieldsSoFar(src, p, s)
<1> DEFINE kind == Kind(src, p, r)
           c    == At(src, r.pos)
           s    == IndexStep(src, p, r)
           t    == StartRecord(p, r)
           d    == t.destination
<1>1. /\ p \in CallType /\ p.end \in Nat /\ p.num_cols > 0
      /\ r.pos \in Nat /\ r.cols \in Nat /\ r.state \in CsvState
      /\ r.pos + p.file_offset = r.pos /\ r.destination \in Seq(Nat)
  BY LocalsFields, CallFields DEF LineFeedCall
<1>2. kind # "return" => r.pos < p.end
  BY <1>1 DEF Kind
<1>3. /\ d \in Seq(Nat) /\ r.cols < Len(d)
      /\ Fields(src, p, d) /\ OpenRow(src, d, r.cols, r.pos)
  BY <1>1, FieldsStarted
<1>4. t \in LocalsType /\ t.cols = r.cols /\ t.pos = r.pos /\ t.out = "running"
  BY <1>1, StartRecordType, RewrittenType
<1>5. r.state # "RECORD_START" =>
        Fields(src, p, Push(ResolveColumns(p, r), r.pos + p.file_offset).destination)
  <2>1. r.state # "RECORD_START" => Fields(src, p, Push(ResolveColumns(p, r), r.pos).destination)
    BY <1>1, FieldsEnded
  <2>2. QED  BY <1>1, <2>1
<1>6. kind \in {"return", "escape", "comment", "empty", "delim", "newline", "quoted_nl",
                "quote", "other"}
  BY DEF Kind
<1> HIDE DEF kind, s, t, d
<1>7. CASE kind = "return"
  <2>1. s = [r EXCEPT !.last_tick = p.end, !.out = "end"]
    BY <1>7 DEF IndexStep, kind, s
  <2>2. s.state = r.state /\ s.destination = r.destination /\ s.cols = r.cols /\ s.pos = r.pos
    BY <2>1 DEF LocalsType
  <2>3. QED  BY <2>2 DEF FieldsSoFar, s
<1>8. CASE kind = "comment"
  <2>1. s = SkipComment(src, p, r) /\ r.state # "QUOTED_FIELD"
    BY <1>8 DEF IndexStep, Kind, kind, s
  <2> DEFINE u == IF r.state = "RECORD_START" THEN r
                  ELSE Push(ResolveColumns(p, r), r.pos + p.file_offset)
  <2>2. s = [u EXCEPT !.cols = 0, !.pos = SkipRestOfLine(src, r.pos) + 1,
                      !.state = "RECORD_START"]
    BY <2>1 DEF SkipComment, NewlineState
  <2>3. u \in LocalsType /\ Fields(src, p, u.destination)
    <3>1. u \in LocalsType
      BY <1>1, PushType, ResolveColumnsType, PushAfter, RewrittenType
    <3>2. QED  BY <1>5, <3>1 DEF FieldsSoFar
  <2> HIDE DEF u
  <2>4. s.state = "RECORD_START" /\ s.destination = u.destination
    BY <2>2, <2>3 DEF LocalsType
  <2>5. QED  BY <2>3, <2>4 DEF FieldsSoFar, s
<1>9. CASE kind = "empty"
  <2>1. s = [r EXCEPT !.pos = SkipRestOfLine(src, r.pos) + 1] /\ r.state = "RECORD_START"
    BY <1>9 DEF IndexStep, SkipEmptyLine, Kind, kind, s
  <2>2. s.state = "RECORD_START" /\ s.destination = r.destination
    BY <2>1 DEF LocalsType
  <2>3. QED  BY <2>2 DEF FieldsSoFar, s
<1>10. CASE kind = "delim"
  <2>1. s = Delimiter(p, r) /\ c # "lf"
    BY <1>10 DEF IndexStep, Kind, kind, s
  <2>2. s = [[t EXCEPT !.destination = Append(d, r.pos)] EXCEPT
               !.state = CommaState(r.state), !.cols = @ + 1, !.pos = @ + 1]
    BY <1>1, <2>1 DEF Delimiter, Push, t, d
  <2>3. s.destination = Append(d, r.pos) /\ s.cols = r.cols + 1 /\ s.pos = r.pos + 1
    BY <1>4, <2>2 DEF LocalsType
  <2>4. Fields(src, p, Append(d, r.pos))
    <3>1. Len(d) > 0 /\ NoLineFeed(src, d[Len(d)] + 1, r.pos - 1)
      <4>1. Len(d) \in (Len(d) - r.cols) .. Len(d) /\ d[Len(d)] \in Nat /\ Len(d) > 0
        BY <1>1, <1>3
      <4>2. NoLineFeed(src, d[Len(d)], r.pos - 1)
        BY <1>3, <4>1 DEF OpenRow
      <4>3. QED  BY <1>1, <4>1, <4>2 DEF NoLineFeed
    <3>2. QED  BY <1>1, <1>3, <3>1, FieldsAppended
  <2>5. OpenRow(src, Append(d, r.pos), r.cols + 1, r.pos + 1)
    BY <1>1, <1>3, <2>1, OpenRowDelimited
  <2>6. QED  BY <2>3, <2>4, <2>5 DEF FieldsSoFar, s
<1>11. CASE kind = "newline"
  <2>1. s = EndRecord(p, r) /\ r.pos < p.end /\ c = "lf" /\ r.state # "QUOTED_FIELD"
    BY <1>2, <1>11 DEF IndexStep, Kind, kind, s, LineFeedCall
  <2>2. r.state # "RECORD_START"
    <3>1. IsEmptyLine(src, r.pos, p.end)
      BY <1>1, <2>1, LineFeedIsEmpty DEF LineFeedCall
    <3>2. QED  BY <1>11, <2>1, <3>1 DEF Kind, kind
  <2> DEFINE u == Push(ResolveColumns(p, r), r.pos + p.file_offset)
  <2>3. u \in LocalsType
    BY <1>1, PushType, ResolveColumnsType, PushAfter, RewrittenType
  <2>4. s = [[u EXCEPT !.state = "RECORD_START", !.cols = 0, !.lines_read = @ + 1]
               EXCEPT !.pos = @ + 1,
                      !.last_tick = IF r.pos - @ > p.update_size THEN r.pos ELSE @]
    BY <2>1, <2>2 DEF EndRecord, StartRecord, NewlineState, Below, LineFeedCall, Unlimited
  <2>5. Fields(src, p, u.destination)
    BY <1>5, <2>2
  <2> HIDE DEF u
  <2>6. s.state = "RECORD_START" /\ s.destination = u.destination
    BY <2>3, <2>4 DEF LocalsType
  <2>7. QED  BY <2>5, <2>6 DEF FieldsSoFar, s
<1>12. CASE kind = "quoted_nl"
  <2>1. s = [r EXCEPT !.out = "newline_error"]
    BY <1>12 DEF IndexStep, QuotedNewline, LineFeedCall, kind, s
  <2>2. s.out = "newline_error"
    BY <2>1 DEF LocalsType
  <2>3. QED  BY <2>2 DEF s
<1>13. CASE kind = "quote"
  <2>1. s = [t EXCEPT !.state = QuotedState(r.state), !.pos = @ + 1] /\ c # "lf"
    BY <1>13 DEF IndexStep, QuoteChar, Kind, IsQuote, kind, s, t
  <2>2. s.destination = d /\ s.cols = r.cols /\ s.pos = r.pos + 1
    BY <1>4, <2>1 DEF LocalsType, d
  <2>3. NoLineFeed(src, r.pos, (r.pos + 1) - 1)
    BY <1>1, <2>1 DEF NoLineFeed
  <2>4. OpenRow(src, d, r.cols, r.pos + 1)
    BY <1>1, <1>3, <2>3, OpenRowGrows
  <2>5. QED  BY <1>3, <2>2, <2>4 DEF FieldsSoFar, s
<1>14. CASE kind = "other"
  <2>1. s = OtherChars(src, p, r) /\ c # "lf" /\ r.pos < p.end
    BY <1>2, <1>14 DEF IndexStep, Kind, kind, s, LineFeedCall
  <2>2. r.pos + 1 < p.end
    BY <1>1, <2>1 DEF LineFeedCall
  <2>3. PICK to \in Nat :
          to = FirstOf(src, r.pos + 1, Query(p.nl)) /\ NoLineFeed(src, r.pos + 1, to - 1)
    <3>1. src \in Seq(Char) /\ r.pos + 1 <= Len(src) /\ r.pos + 1 \in Nat /\ Len(src) \in Nat
      BY <1>1, <2>2 DEF LineFeedCall, File
    <3>2. "lf" \in Query(p.nl)
      BY DEF Query, LineFeedCall
    <3> DEFINE to == FirstOf(src, r.pos + 1, Query(p.nl))
    <3>3. /\ to \in (r.pos + 1) .. Len(src)
          /\ \A k \in (r.pos + 1) .. (to - 1) : At(src, k) \notin Query(p.nl)
      BY <3>1, FirstOfStops
    <3> HIDE DEF to
    <3>4. to \in Nat /\ NoLineFeed(src, r.pos + 1, to - 1)
      BY <1>1, <3>1, <3>2, <3>3 DEF NoLineFeed
    <3>5. QED  BY <3>4 DEF to
  <2>4. s = [t EXCEPT !.state = OtherState(r.state), !.pos = to]
    BY <1>4, <2>1, <2>2, <2>3 DEF OtherChars, t
  <2>5. s.destination = d /\ s.cols = r.cols /\ s.pos = to
    BY <1>4, <2>3, <2>4 DEF LocalsType, d
  <2>6. NoLineFeed(src, r.pos, to - 1)
    BY <1>1, <2>1, <2>3 DEF NoLineFeed
  <2>7. OpenRow(src, d, r.cols, to)
    BY <1>1, <1>3, <2>3, <2>6, OpenRowGrows
  <2>8. QED  BY <1>3, <2>5, <2>7 DEF FieldsSoFar, s
<1>15. kind # "escape"
  BY DEF Kind, kind
<1>16. QED
  BY <1>6, <1>7, <1>8, <1>9, <1>10, <1>11, <1>12, <1>13, <1>14, <1>15

----------------------------------------------------------------------------
(* Where a call of index_region looks, and what it leaves in destination.   *)

(* An iteration does not go back, and one after which the loop goes on      *)
(* goes forward.                                                            *)
LEMMA StepGoesForward ==
  ASSUME NEW src, Len(src) \in Nat, NEW p \in CallType, NEW r \in LocalsType,
         p.end <= Len(src)
  PROVE  /\ r.pos <= IndexStep(src, p, r).pos
         /\ IndexStep(src, p, r).out = "running" /\ r.out = "running" =>
              r.pos < IndexStep(src, p, r).pos /\ r.pos < p.end
<1> DEFINE kind == Kind(src, p, r)
           s    == IndexStep(src, p, r)
           t    == StartRecord(p, r)
<1>1. /\ p.end \in Nat /\ r.pos \in Nat /\ r.pos + p.file_offset \in Nat
      /\ r.pos + 1 + p.file_offset \in Nat
  BY LocalsFields, CallFields
<1>2. kind # "return" => r.pos < p.end /\ r.pos <= SkipRestOfLine(src, r.pos)
  <2>1. kind # "return" => r.pos < p.end
    BY <1>1 DEF Kind
  <2>2. r.pos < p.end => FirstOf(src, r.pos, {"lf"}) \in r.pos .. Len(src)
    BY <1>1, FirstOfStops
  <2>3. QED  BY <1>1, <2>1, <2>2 DEF SkipRestOfLine
<1>3. SkipRestOfLine(src, r.pos) \in Nat \/ kind = "return"
  <2>1. r.pos < p.end => FirstOf(src, r.pos, {"lf"}) \in r.pos .. Len(src)
    BY <1>1, FirstOfStops
  <2>2. QED  BY <1>1, <1>2, <2>1 DEF SkipRestOfLine
<1>4. t \in LocalsType /\ t.pos = r.pos
  BY StartRecordType, RewrittenType
<1>5. \A u \in Rewritten(r) : u \in LocalsType /\ u.pos = r.pos
  BY RewrittenType
<1>6. kind \in {"return", "escape", "comment", "empty", "delim", "newline", "quoted_nl",
                "quote", "other"}
  BY DEF Kind
<1> HIDE DEF kind, s, t
<1>7. CASE kind = "return"
  <2>1. s.pos = r.pos /\ s.out = "end"
    BY <1>7 DEF IndexStep, LocalsType, kind, s
  <2>2. QED  BY <1>1, <2>1 DEF s
<1>8. CASE kind = "escape"
  <2> DEFINE u == IF r.state = "RECORD_START"
                  THEN [Push(r, r.pos + 1 + p.file_offset) EXCEPT !.state = "FIELD_START"]
                  ELSE r
  <2>1. s = [u EXCEPT !.pos = r.pos + 2]
    BY <1>8 DEF IndexStep, Escape, kind, s
  <2>2. u \in LocalsType
    <3>1. Push(r, r.pos + 1 + p.file_offset) \in LocalsType
      BY <1>1, PushType, RewrittenType
    <3>2. QED  BY <3>1 DEF LocalsType, CsvState
  <2> HIDE DEF u
  <2>3. s.pos = r.pos + 2
    BY <2>1, <2>2 DEF LocalsType
  <2>4. QED  BY <1>1, <1>2, <1>8, <2>3 DEF s
<1>9. CASE kind = "comment"
  <2>1. PICK u \in Rewritten(r) :
          s = [u EXCEPT !.cols = 0, !.pos = SkipRestOfLine(src, r.pos) + 1,
                        !.state = NewlineState(r.state)]
    <3> DEFINE u == IF r.state = "RECORD_START" THEN r
                    ELSE Push(ResolveColumns(p, r), r.pos + p.file_offset)
    <3>1. s = [u EXCEPT !.cols = 0, !.pos = SkipRestOfLine(src, r.pos) + 1,
                        !.state = NewlineState(r.state)]
      BY <1>9 DEF IndexStep, SkipComment, kind, s
    <3>2. u \in Rewritten(r)
      BY <1>1, PushType, ResolveColumnsType, PushAfter
    <3>3. QED  BY <3>1, <3>2
  <2>2. s.pos = SkipRestOfLine(src, r.pos) + 1
    BY <1>5, <2>1 DEF LocalsType
  <2>3. QED  BY <1>1, <1>2, <1>3, <1>9, <2>2 DEF s
<1>10. CASE kind = "empty"
  <2>1. s.pos = SkipRestOfLine(src, r.pos) + 1
    BY <1>10 DEF IndexStep, SkipEmptyLine, LocalsType, kind, s
  <2>2. QED  BY <1>1, <1>2, <1>3, <1>10, <2>1 DEF s
<1>11. CASE kind = "delim"
  <2>1. s = [Push(t, r.pos + p.file_offset) EXCEPT
               !.state = CommaState(r.state), !.cols = @ + 1, !.pos = @ + 1]
    BY <1>11 DEF IndexStep, Delimiter, kind, s, t
  <2>2. Push(t, r.pos + p.file_offset) \in LocalsType /\ Push(t, r.pos + p.file_offset).pos = r.pos
    BY <1>1, <1>5, StartRecordType, PushAfter DEF t
  <2>3. s.pos = r.pos + 1
    BY <2>1, <2>2 DEF LocalsType
  <2>4. QED  BY <1>1, <1>2, <1>11, <2>3 DEF s
<1>12. CASE kind = "newline"
  <2>1. PICK u \in Rewritten(r) :
          s \in {[u EXCEPT !.state = NewlineState(r.state), !.cols = 0, !.lines_read = @ + 1,
                           !.out = "n_max"],
                 [[u EXCEPT !.state = NewlineState(r.state), !.cols = 0, !.lines_read = @ + 1]
                    EXCEPT !.pos = @ + 1,
                           !.last_tick = IF r.pos - @ > p.update_size THEN r.pos ELSE @]}
    <3> DEFINE u == Push(ResolveColumns(p, t), r.pos + p.file_offset)
    <3>1. u \in Rewritten(r)
      BY <1>1, StartRecordType, ResolveColumnsType, PushAfter DEF t
    <3>2. s = EndRecord(p, r)
      BY <1>12 DEF IndexStep, kind, s
    <3>3. QED  BY <3>1, <3>2 DEF EndRecord, t
  <2>2. s.pos = r.pos + 1 \/ (s.pos = r.pos /\ s.out = "n_max")
    <3>1. u \in LocalsType /\ u.pos = r.pos
      BY <1>1, RewrittenType
    <3>2. CASE s = [u EXCEPT !.state = NewlineState(r.state), !.cols = 0, !.lines_read = @ + 1,
                             !.out = "n_max"]
      BY <3>1, <3>2 DEF LocalsType
    <3>3. CASE s = [[u EXCEPT !.state = NewlineState(r.state), !.cols = 0, !.lines_read = @ + 1]
                      EXCEPT !.pos = @ + 1,
                             !.last_tick = IF r.pos - @ > p.update_size THEN r.pos ELSE @]
      BY <3>1, <3>3 DEF LocalsType
    <3>4. QED  BY <2>1, <3>2, <3>3
  <2>3. QED  BY <1>1, <1>2, <1>12, <2>2 DEF s
<1>13. CASE kind = "quoted_nl"
  <2>1. s.pos = r.pos + 1 \/ (s.pos = r.pos /\ s.out = "newline_error")
    BY <1>13 DEF IndexStep, QuotedNewline, LocalsType, kind, s
  <2>2. QED  BY <1>1, <1>2, <1>13, <2>1 DEF s
<1>14. CASE kind = "quote"
  <2>1. s.pos = r.pos + 1
    BY <1>4, <1>14 DEF IndexStep, QuoteChar, LocalsType, kind, s, t
  <2>2. QED  BY <1>1, <1>2, <1>14, <2>1 DEF s
<1>15. CASE kind = "other"
  <2>1. s.pos = IF r.pos + 1 < p.end THEN FirstOf(src, r.pos + 1, Query(p.nl)) ELSE r.pos + 1
    BY <1>4, <1>15 DEF IndexStep, OtherChars, LocalsType, kind, s, t
  <2>2. r.pos + 1 < p.end => FirstOf(src, r.pos + 1, Query(p.nl)) \in (r.pos + 1) .. Len(src)
    BY <1>1, FirstOfStops
  <2>3. QED  BY <1>1, <1>2, <1>15, <2>1, <2>2 DEF s
<1>16. QED
  BY <1>6, <1>7, <1>8, <1>9, <1>10, <1>11, <1>12, <1>13, <1>14, <1>15

(* It leaves nothing in the destination but what was there, where it is,    *)
(* and what an escape makes of that.                                        *)
LEMMA StepPushes ==
  ASSUME NEW src, NEW p \in CallType, NEW r \in LocalsType,
         NEW Places, r.destination \in Seq(Places),
         r.pos < p.end => r.pos + p.file_offset \in Places,
         r.pos < p.end /\ EscapeBackslash /\ At(src, r.pos) = "bslash" =>
           r.pos + 1 + p.file_offset \in Places
  PROVE  IndexStep(src, p, r).destination \in Seq(Places)
<1> DEFINE kind == Kind(src, p, r)
           s    == IndexStep(src, p, r)
           here == r.pos + p.file_offset
           Kept == {u \in LocalsType : /\ u.destination \in Seq(Places)
                                       /\ u.pos = r.pos /\ u.cols = r.cols}
<1>1. /\ p.end \in Nat /\ p.start \in Nat /\ p.num_cols \in Nat /\ r.pos \in Nat
      /\ r.cols \in Nat /\ here \in Nat /\ r.pos + 1 + p.file_offset \in Nat
  <2>1. /\ p.end \in Nat /\ p.start \in Nat /\ p.num_cols \in Nat /\ p.file_offset \in Nat
        /\ r.pos \in Nat /\ r.cols \in Nat
    BY LocalsFields, CallFields
  <2>2. QED  BY <2>1
<1>2. kind # "return" => here \in Places
  BY <1>1 DEF Kind
<1>3. r \in Kept
  OBVIOUS
<1>4. ASSUME NEW u \in Kept, NEW place \in Places, place \in Nat
      PROVE  Push(u, place) \in Kept
  <2>1. Append(u.destination, place) \in Seq(Places) /\ Append(u.destination, place) \in Seq(Nat)
    BY <1>4 DEF LocalsType
  <2>2. Push(u, place) = [u EXCEPT !.destination = Append(u.destination, place)]
    BY DEF Push
  <2>3. QED  BY <2>1, <2>2 DEF LocalsType
<1>5. ASSUME NEW u \in Kept, kind # "return"
      PROVE  ResolveColumns(p, u) \in Kept
  <2>1. PICK d : d = u.destination /\ d \in Seq(Places) /\ d \in Seq(Nat)
    BY DEF LocalsType
  <2>2. \A e \in Seq(Places) : e \in Seq(Nat) => [u EXCEPT !.destination = e] \in Kept
    BY DEF LocalsType
  <2>3. CASE p.num_cols = 0 \/ u.pos <= p.start
    BY <2>3 DEF ResolveColumns
  <2>4. CASE ~(p.num_cols = 0 \/ u.pos <= p.start) /\ u.cols >= p.num_cols
    <3> DEFINE n == Len(d) - (u.cols - p.num_cols + 1)
    <3>1. n \in Int /\ n <= Len(d)
      BY <1>1, <2>1, <2>4
    <3>2. ResolveColumns(p, u) = [u EXCEPT !.destination = SubSeq(d, 1, n)]
      BY <2>1, <2>4 DEF ResolveColumns
    <3> HIDE DEF n
    <3>3. SubSeq(d, 1, n) \in Seq(Places) /\ SubSeq(d, 1, n) \in Seq(Nat)
      BY <2>1, <3>1
    <3>4. QED  BY <2>2, <3>2, <3>3
  <2>5. CASE ~(p.num_cols = 0 \/ u.pos <= p.start) /\ ~(u.cols >= p.num_cols)
    <3> DEFINE pad == [k \in 1 .. (p.num_cols - 1 - u.cols) |-> u.pos + p.file_offset]
    <3>1. ResolveColumns(p, u) = [u EXCEPT !.destination = d \o pad]
      BY <2>1, <2>5 DEF ResolveColumns
    <3>2. pad \in Seq(Places) /\ pad \in Seq(Nat)
      <4>1. p.num_cols - 1 - u.cols \in Nat /\ u.pos + p.file_offset = here
        BY <1>1, <2>5
      <4>2. PICK n \in Nat : n = p.num_cols - 1 - u.cols
        BY <4>1
      <4>3. \A S : \A x \in S : [k \in 1 .. n |-> x] \in Seq(S)
        OBVIOUS
      <4>4. here \in Places /\ here \in Nat /\ pad = [k \in 1 .. n |-> here]
        BY <1>1, <1>2, <1>5, <4>1, <4>2
      <4>5. QED  BY <4>3, <4>4
    <3> HIDE DEF pad
    <3>3. d \o pad \in Seq(Places) /\ d \o pad \in Seq(Nat)
      BY <2>1, <3>2
    <3>4. QED  BY <2>2, <3>1, <3>3
  <2>6. QED  BY <2>3, <2>4, <2>5
<1>6. kind # "return" => StartRecord(p, r) \in Kept
  BY <1>1, <1>2, <1>3, <1>4 DEF StartRecord
<1>7. kind \in {"return", "escape", "comment", "empty", "delim", "newline", "quoted_nl",
                "quote", "other"}
  BY DEF Kind
<1>8. \A u \in Kept : u \in LocalsType /\ u.destination \in Seq(Places)
  OBVIOUS
<1> HIDE DEF kind, s, here, Kept
<1>9. CASE kind = "return"
  BY <1>9 DEF IndexStep, LocalsType, kind, s
<1>10. CASE kind = "escape"
  <2>1. EscapeBackslash /\ r.pos < p.end /\ At(src, r.pos) = "bslash"
    BY <1>1, <1>10 DEF Kind, kind
  <2>2. PICK u \in Kept : s = [u EXCEPT !.pos = r.pos + 2]
                          \/ s = [[u EXCEPT !.state = "FIELD_START"] EXCEPT !.pos = r.pos + 2]
    <3>1. Push(r, r.pos + 1 + p.file_offset) \in Kept
      BY <1>1, <1>3, <1>4, <2>1
    <3>2. s = Escape(p, r)
      BY <1>10 DEF IndexStep, kind, s
    <3>3. QED  BY <1>3, <3>1, <3>2 DEF Escape
  <2>3. s.destination = u.destination
    BY <1>8, <2>2 DEF LocalsType
  <2>4. QED  BY <1>8, <2>3 DEF s
<1>11. CASE kind = "comment"
  <2>1. PICK u \in Kept :
          s = [u EXCEPT !.cols = 0, !.pos = SkipRestOfLine(src, r.pos) + 1,
                        !.state = NewlineState(r.state)]
    <3>1. Push(ResolveColumns(p, r), here) \in Kept
      BY <1>1, <1>2, <1>3, <1>4, <1>5, <1>11
    <3>2. s = SkipComment(src, p, r)
      BY <1>11 DEF IndexStep, kind, s
    <3>3. QED  BY <1>3, <3>1, <3>2 DEF SkipComment, here
  <2>2. s.destination = u.destination
    BY <1>8, <2>1 DEF LocalsType
  <2>3. QED  BY <1>8, <2>2 DEF s
<1>12. CASE kind = "empty"
  BY <1>12 DEF IndexStep, SkipEmptyLine, LocalsType, kind, s
<1>13. CASE kind = "delim"
  <2>1. PICK u \in Kept :
          s = [u EXCEPT !.state = CommaState(r.state), !.cols = @ + 1, !.pos = @ + 1]
    <3>1. Push(StartRecord(p, r), here) \in Kept
      BY <1>1, <1>2, <1>4, <1>6, <1>13
    <3>2. s = Delimiter(p, r)
      BY <1>13 DEF IndexStep, kind, s
    <3>3. QED  BY <3>1, <3>2 DEF Delimiter, here
  <2>2. s.destination = u.destination
    BY <1>8, <2>1 DEF LocalsType
  <2>3. QED  BY <1>8, <2>2 DEF s
<1>14. CASE kind = "newline"
  <2>1. PICK u \in Kept :
          s \in {[u EXCEPT !.state = NewlineState(r.state), !.cols = 0, !.lines_read = @ + 1,
                           !.out = "n_max"],
                 [[u EXCEPT !.state = NewlineState(r.state), !.cols = 0, !.lines_read = @ + 1]
                    EXCEPT !.pos = @ + 1,
                           !.last_tick = IF r.pos - @ > p.update_size THEN r.pos ELSE @]}
    <3> DEFINE u == Push(ResolveColumns(p, StartRecord(p, r)), here)
    <3>1. u \in Kept
      BY <1>1, <1>2, <1>4, <1>5, <1>6, <1>14
    <3>2. s = EndRecord(p, r)
      BY <1>14 DEF IndexStep, kind, s
    <3>3. QED  BY <3>1, <3>2 DEF EndRecord, here
  <2>2. s.destination = u.destination
    BY <1>8, <2>1 DEF LocalsType
  <2>3. QED  BY <1>8, <2>2 DEF s
<1>15. CASE kind = "quoted_nl"
  BY <1>15 DEF IndexStep, QuotedNewline, LocalsType, kind, s
<1>16. CASE kind = "quote"
  <2>1. PICK u \in Kept : s = [u EXCEPT !.state = QuotedState(r.state), !.pos = @ + 1]
    BY <1>6, <1>16 DEF IndexStep, QuoteChar, kind, s
  <2>2. s.destination = u.destination
    BY <1>8, <2>1 DEF LocalsType
  <2>3. QED  BY <1>8, <2>2 DEF s
<1>17. CASE kind = "other"
  <2>1. PICK u \in Kept, to \in {r.pos + 1, FirstOf(src, r.pos + 1, Query(p.nl))} :
          s = [u EXCEPT !.state = OtherState(r.state), !.pos = to]
    <3>1. StartRecord(p, r) \in Kept /\ StartRecord(p, r).pos = r.pos
      BY <1>6, <1>17 DEF Kept
    <3>2. s = OtherChars(src, p, r)
      BY <1>17 DEF IndexStep, kind, s
    <3>3. QED  BY <3>1, <3>2 DEF OtherChars
  <2>2. s.destination = u.destination
    BY <1>8, <2>1 DEF LocalsType
  <2>3. QED  BY <1>8, <2>2 DEF s
<1>18. QED
  BY <1>7, <1>9, <1>10, <1>11, <1>12, <1>13, <1>14, <1>15, <1>16, <1>17

----------------------------------------------------------------------------
(* A whole call of index_region, turn by turn. *)

(* A call is its locals and the errors it has reported; this is what a turn *)
(* of the loop makes of it.                                                 *)
Turn(src, p, call) ==
  [locals |-> IndexStep(src, p, call.locals),
   errors |-> call.errors \o ParseErrors(src, p, call.locals)]

Entered(entry) == [locals |-> entry, errors |-> <<>>]

(* The call comes by what it is: every set that it begins in, and that its  *)
(* turns do not leave, has it.                                              *)
Passes(src, p, entry, call) ==
  \A Calls :
    /\ Entered(entry) \in Calls
    /\ \A c \in Calls : c.locals.out = "running" => Turn(src, p, c) \in Calls
    => call \in Calls

(* A call comes by its beginning, and by what a turn makes of what it comes *)
(* by.                                                                      *)
LEMMA PassesFirst ==
  ASSUME NEW src, NEW p, NEW entry
  PROVE  Passes(src, p, entry, Entered(entry))
BY DEF Passes

LEMMA PassesNext ==
  ASSUME NEW src, NEW p, NEW entry, NEW call, Passes(src, p, entry, call),
         call.locals.out = "running"
  PROVE  Passes(src, p, entry, Turn(src, p, call))
BY DEF Passes

(* It is a sequence of turns, each made of the one before, until it stops:  *)
(* a recursive function, if there is a set that its values are in.          *)
LEMMA RunRegionTurns ==
  ASSUME NEW src, NEW p, NEW entry, p.end - p.start + 1 \in Nat,
         NEW Calls, Entered(entry) \in Calls,
         \A call \in Calls : call.locals.out = "running" => Turn(src, p, call) \in Calls
  PROVE  \E run \in [0 .. (p.end - p.start + 1) -> Calls] :
           /\ run[0] = Entered(entry)
           /\ \A n \in 1 .. (p.end - p.start + 1) :
                run[n] = IF run[n - 1].locals.out # "running" THEN run[n - 1]
                         ELSE Turn(src, p, run[n - 1])
           /\ run[p.end - p.start + 1] = RunRegion(src, p, entry)
<1> DEFINE N    == p.end - p.start + 1
           init == Entered(entry)
           step(call) ==
             IF call.locals.out # "running" THEN call ELSE Turn(src, p, call)
           Body(f) ==
             [n \in 0 .. N |->
                IF n = 0 THEN init
                ELSE CHOOSE after \in {step(before) : before \in {f[n - 1]}} : TRUE]
           run == CHOOSE f : f = Body(f)
<1>1. RunRegion(src, p, entry) = run[N]
  BY DEF RunRegion, Entered, Turn
<1>2. \A call \in Calls : step(call) \in Calls
  OBVIOUS
<1>3. N \in Nat /\ init \in Calls
  OBVIOUS
<1> HIDE DEF N, init, step
<1>4. \A c : (CHOOSE after \in {step(before) : before \in {c}} : TRUE) = step(c)
  OBVIOUS
<1>5. \E f : f = Body(f)
  <2> DEFINE next == [x \in (1 .. N) \X Calls |-> step(x[2])]
  <2>1. next \in [(1 .. N) \X Calls -> Calls]
    BY <1>2
  <2>2. PICK f \in [0 .. N -> Calls] :
          f[0] = init /\ \A n \in 1 .. N : f[n] = next[<<n, f[n - 1]>>]
    <3> HIDE DEF next
    <3>1. Iterations(N, Calls, init, next) # {}
      BY <1>3, <2>1, Recursion
    <3>2. QED  BY <3>1 DEF Iterations
  <2>3. \A n \in 1 .. N : f[n] = step(f[n - 1])
    <3> SUFFICES ASSUME NEW n \in 1 .. N PROVE f[n] = step(f[n - 1])
      OBVIOUS
    <3>1. n - 1 \in 0 .. N
      BY <1>3
    <3>2. f[n - 1] \in Calls
      BY <2>2, <3>1
    <3>3. next[<<n, f[n - 1]>>] = step(f[n - 1])
      BY <3>2
    <3>4. QED  BY <2>2, <3>3
  <2>4. \A n \in 0 .. N : f[n] = Body(f)[n]
    <3> SUFFICES ASSUME NEW n \in 0 .. N PROVE f[n] = Body(f)[n]
      OBVIOUS
    <3>1. CASE n = 0
      BY <2>2, <3>1
    <3>2. CASE n # 0
      <4>1. f[n] = step(f[n - 1])
        BY <1>3, <2>3, <3>2
      <4>2. QED  BY <1>4, <3>2, <4>1
    <3>3. QED  BY <3>1, <3>2
  <2>5. f = [n \in 0 .. N |-> f[n]]
    BY <2>2
  <2>6. f = Body(f)
    BY <2>4, <2>5
  <2>7. QED  BY <2>6
<1>6. run = Body(run)
  BY <1>5
<1> HIDE DEF run
<1>7. run[0] = init /\ \A n \in 1 .. N : run[n] = step(run[n - 1])
  <2>1. run[0] = init
    BY <1>3, <1>6
  <2>2. ASSUME NEW n \in 1 .. N PROVE run[n] = step(run[n - 1])
    <3>1. n \in 0 .. N /\ n # 0
      BY <1>3
    <3>2. run[n] = CHOOSE after \in {step(before) : before \in {run[n - 1]}} : TRUE
      BY <1>6, <3>1
    <3>3. QED  BY <1>4, <3>2
  <2>3. QED  BY <2>1, <2>2
<1>8. \A n \in 0 .. N : run[n] \in Calls
  BY <1>2, <1>3, <1>7, Iteration
<1>9. run \in [0 .. N -> Calls]
  <2>1. run = [n \in 0 .. N |-> run[n]]
    BY <1>6
  <2>2. QED  BY <1>8, <2>1
<1>10. QED  BY <1>1, <1>7, <1>9 DEF N, init, step

(* So what holds of the beginning, and is kept by every turn, holds of its   *)
(* end.                                                                     *)
LEMMA RunRegionStays ==
  ASSUME NEW src, NEW p, NEW entry, p.end - p.start + 1 \in Nat,
         NEW Calls, Entered(entry) \in Calls,
         \A call \in Calls : call.locals.out = "running" => Turn(src, p, call) \in Calls
  PROVE  RunRegion(src, p, entry) \in Calls
<1> DEFINE N == p.end - p.start + 1
<1>1. PICK run \in [0 .. N -> Calls] :
        /\ run[0] = Entered(entry)
        /\ \A n \in 1 .. N :
             run[n] = IF run[n - 1].locals.out # "running" THEN run[n - 1]
                      ELSE Turn(src, p, run[n - 1])
        /\ run[N] = RunRegion(src, p, entry)
  BY RunRegionTurns
<1>2. N \in 0 .. N
  OBVIOUS
<1> HIDE DEF N
<1>3. QED  BY <1>1, <1>2

(* It reports no progress past the end of the region, wherever it begins.   *)
LEMMA StepLocals ==
  ASSUME NEW src, Len(src) \in Nat, NEW p \in CallType, NEW r \in LocalsType,
         p.end <= Len(src), r.pos < p.end => r.last_tick <= p.end
  PROVE  /\ IndexStep(src, p, r) \in LocalsType
         /\ IndexStep(src, p, r).pos < p.end => IndexStep(src, p, r).last_tick <= p.end
<1>1. r.pos \in Nat /\ p.end \in Nat
  BY LocalsFields, CallFields
<1>2. CASE r.pos < p.end
  <2>1. IndexStep(src, p, r) \in After(p, r)
    BY <1>2, IndexStepType
  <2>2. QED  BY <2>1 DEF After
<1>3. CASE ~(r.pos < p.end)
  <2>1. Kind(src, p, r) = "return"
    BY <1>1, <1>3 DEF Kind
  <2>2. IndexStep(src, p, r) = [r EXCEPT !.last_tick = p.end, !.out = "end"]
    BY <2>1 DEF IndexStep
  <2>3. QED  BY <1>1, <1>3, <2>2 DEF LocalsType
<1>4. QED  BY <1>2, <1>3

(* How many threads there are makes no difference to an iteration, unless   *)
(* it gives up for that reason.                                             *)
LEMMA ThreadsDoNotMatter ==
  ASSUME NEW src, NEW p, NEW q, NEW r \in LocalsType,
         p.start = q.start, p.end = q.end, p.nl = q.nl, p.n_max = q.n_max,
         p.num_cols = q.num_cols, p.update_size = q.update_size,
         p.file_offset = q.file_offset, q.num_threads = 1
  PROVE  /\ ParseErrors(src, p, r) = ParseErrors(src, q, r)
         /\ \/ IndexStep(src, p, r) = IndexStep(src, q, r)
            \/ IndexStep(src, p, r).out = "newline_error"
<1> DEFINE kind == Kind(src, p, r)
<1>1. Kind(src, q, r) = kind
  BY DEF Kind
<1>2. \A s : ResolveColumns(p, s) = ResolveColumns(q, s)
  BY DEF ResolveColumns
<1>3. \A s : StartRecord(p, s) = StartRecord(q, s)
  BY DEF StartRecord
<1>4. BadColumns(p, r) <=> BadColumns(q, r)
  BY DEF BadColumns
<1>5. ParseErrors(src, p, r) = ParseErrors(src, q, r)
  BY <1>1, <1>4 DEF ParseErrors
<1>6. kind \in {"return", "escape", "comment", "empty", "delim", "newline", "quoted_nl",
                "quote", "other"}
  BY DEF Kind
<1> SUFFICES \/ IndexStep(src, p, r) = IndexStep(src, q, r)
             \/ IndexStep(src, p, r).out = "newline_error"
  BY <1>5
<1> HIDE DEF kind
<1>7. CASE kind = "return"
  BY <1>1, <1>7 DEF IndexStep, kind
<1>8. CASE kind = "escape"
  <2>1. Escape(p, r) = Escape(q, r)
    BY DEF Escape
  <2>2. QED  BY <1>1, <1>8, <2>1 DEF IndexStep, kind
<1>9. CASE kind = "comment"
  <2>1. SkipComment(src, p, r) = SkipComment(src, q, r)
    BY <1>2 DEF SkipComment
  <2>2. QED  BY <1>1, <1>9, <2>1 DEF IndexStep, kind
<1>10. CASE kind = "empty"
  BY <1>1, <1>10 DEF IndexStep, kind
<1>11. CASE kind = "delim"
  <2>1. Delimiter(p, r) = Delimiter(q, r)
    BY <1>3 DEF Delimiter
  <2>2. QED  BY <1>1, <1>11, <2>1 DEF IndexStep, kind
<1>12. CASE kind = "newline"
  <2>1. EndRecord(p, r) = EndRecord(q, r)
    <3>1. PICK t : /\ t = Push(ResolveColumns(p, StartRecord(p, r)), r.pos + p.file_offset)
                   /\ t = Push(ResolveColumns(q, StartRecord(q, r)), r.pos + q.file_offset)
      BY <1>2, <1>3
    <3>2. QED  BY <3>1 DEF EndRecord
  <2>2. QED  BY <1>1, <1>12, <2>1 DEF IndexStep, kind
<1>13. CASE kind = "quoted_nl"
  <2>1. IndexStep(src, p, r) = QuotedNewline(p, r) /\ IndexStep(src, q, r) = QuotedNewline(q, r)
    BY <1>1, <1>13 DEF IndexStep, kind
  <2>2. CASE p.num_threads = 1
    BY <2>1, <2>2 DEF QuotedNewline
  <2>3. CASE p.num_threads # 1
    <3>1. QuotedNewline(p, r) = [r EXCEPT !.out = "newline_error"]
      BY <2>3 DEF QuotedNewline
    <3>2. QED  BY <2>1, <3>1 DEF LocalsType
  <2>4. QED  BY <2>2, <2>3
<1>14. CASE kind = "quote"
  <2>1. QuoteChar(p, r) = QuoteChar(q, r)
    BY <1>3 DEF QuoteChar
  <2>2. QED  BY <1>1, <1>14, <2>1 DEF IndexStep, kind
<1>15. CASE kind = "other"
  <2>1. OtherChars(src, p, r) = OtherChars(src, q, r)
    <3>1. PICK t : t = StartRecord(p, r) /\ t = StartRecord(q, r)
      BY <1>3
    <3>2. QED  BY <3>1 DEF OtherChars
  <2>2. QED  BY <1>1, <1>15, <2>1 DEF IndexStep, kind
<1>16. QED
  BY <1>6, <1>7, <1>8, <1>9, <1>10, <1>11, <1>12, <1>13, <1>14, <1>15

(* The calls that are well-typed, and have reported no progress past their  *)
(* end.                                                                     *)
CallsOf(p) ==
  [locals : {r \in LocalsType : r.pos < p.end => r.last_tick <= p.end},
   errors : Seq([position : Nat, column : Nat])]

LEMMA TurnType ==
  ASSUME NEW src, Len(src) \in Nat, NEW p \in CallType, p.end <= Len(src),
         NEW call \in CallsOf(p)
  PROVE  Turn(src, p, call) \in CallsOf(p)
<1>1. /\ call.locals \in LocalsType
      /\ call.locals.pos < p.end => call.locals.last_tick <= p.end
      /\ call.errors \in Seq([position : Nat, column : Nat])
  BY DEF CallsOf
<1>2. /\ IndexStep(src, p, call.locals) \in LocalsType
      /\ IndexStep(src, p, call.locals).pos < p.end =>
           IndexStep(src, p, call.locals).last_tick <= p.end
  BY <1>1, StepLocals
<1>3. ParseErrors(src, p, call.locals) \in Seq([position : Nat, column : Nat])
  BY <1>1, ParseErrorsType
<1>4. \A S : \A e, f \in Seq(S) : e \o f \in Seq(S)
  OBVIOUS
<1>5. call.errors \o ParseErrors(src, p, call.locals) \in Seq([position : Nat, column : Nat])
  BY <1>1, <1>3, <1>4
<1>6. QED  BY <1>2, <1>5 DEF Turn, CallsOf

(* A call stops within a turn for each position of its region, and one.     *)
LEMMA RunRegionStops ==
  ASSUME NEW src, Len(src) \in Nat, NEW p \in CallType, p.end <= Len(src),
         p.start <= p.end, NEW entry \in LocalsType, entry.pos = p.start,
         entry.last_tick <= p.end
  PROVE  /\ RunRegion(src, p, entry) \in CallsOf(p)
         /\ RunRegion(src, p, entry).locals.out # "running"
         /\ \E run \in [0 .. (p.end - p.start + 1) -> CallsOf(p)] :
              /\ run[0] = Entered(entry)
              /\ \A n \in 1 .. (p.end - p.start + 1) :
                   run[n] = IF run[n - 1].locals.out # "running" THEN run[n - 1]
                            ELSE Turn(src, p, run[n - 1])
              /\ run[p.end - p.start + 1] = RunRegion(src, p, entry)
<1> DEFINE N == p.end - p.start + 1
<1>1. /\ p.start \in Nat /\ p.end \in Nat /\ N \in Nat \ {0} /\ N - 1 = p.end - p.start
      /\ N - 1 \in Nat
  BY CallFields
<1>2. Entered(entry) \in CallsOf(p)
  BY DEF Entered, CallsOf
<1>3. \A call \in CallsOf(p) : Turn(src, p, call) \in CallsOf(p)
  BY TurnType
<1>4. PICK run \in [0 .. N -> CallsOf(p)] :
        /\ run[0] = Entered(entry)
        /\ \A n \in 1 .. N :
             run[n] = IF run[n - 1].locals.out # "running" THEN run[n - 1]
                      ELSE Turn(src, p, run[n - 1])
        /\ run[N] = RunRegion(src, p, entry)
  <2>1. p.end - p.start + 1 \in Nat
    BY <1>1
  <2>2. \A call \in CallsOf(p) :
          call.locals.out = "running" => Turn(src, p, call) \in CallsOf(p)
    BY <1>3
  <2>3. \E run \in [0 .. (p.end - p.start + 1) -> CallsOf(p)] :
          /\ run[0] = Entered(entry)
          /\ \A n \in 1 .. (p.end - p.start + 1) :
               run[n] = IF run[n - 1].locals.out # "running" THEN run[n - 1]
                        ELSE Turn(src, p, run[n - 1])
          /\ run[p.end - p.start + 1] = RunRegion(src, p, entry)
    BY <1>2, <2>1, <2>2, RunRegionTurns
  <2>4. QED  BY <2>3
<1> DEFINE far == {n \in 0 .. (N - 1) : run[n].locals.out = "running" =>
                                          run[n].locals.pos >= p.start + n}
<1>5. ASSUME NEW n \in 1 .. N, run[n].locals.out = "running"
      PROVE  /\ run[n - 1].locals.out = "running"
             /\ run[n - 1].locals.pos \in Nat /\ run[n].locals.pos \in Nat
             /\ run[n - 1].locals.pos < run[n].locals.pos
             /\ run[n - 1].locals.pos < p.end
  <2>1. n - 1 \in 0 .. N /\ n \in 0 .. N
    BY <1>1
  <2>2. run[n - 1].locals \in LocalsType /\ run[n].locals \in LocalsType
    BY <1>4, <2>1 DEF CallsOf
  <2>3. run[n] = IF run[n - 1].locals.out # "running" THEN run[n - 1]
                 ELSE Turn(src, p, run[n - 1])
    BY <1>4
  <2>4. run[n - 1].locals.out = "running" /\ run[n] = Turn(src, p, run[n - 1])
    BY <1>5, <2>3
  <2>5. run[n].locals = IndexStep(src, p, run[n - 1].locals)
    BY <2>4 DEF Turn
  <2>6. run[n - 1].locals.pos < run[n].locals.pos /\ run[n - 1].locals.pos < p.end
    BY <1>5, <2>2, <2>4, <2>5, StepGoesForward
  <2>7. QED  BY <2>2, <2>4, <2>6, LocalsFields
<1>6. \A n \in 0 .. (N - 1) : n \in far
  <2>1. 0 \in far
    <3>1. run[0].locals.pos = p.start
      BY <1>4 DEF Entered
    <3>2. QED  BY <1>1, <3>1
  <2>2. ASSUME NEW n \in 1 .. (N - 1), n - 1 \in far PROVE n \in far
    <3> SUFFICES ASSUME run[n].locals.out = "running"
                 PROVE  run[n].locals.pos >= p.start + n
      BY <1>1
    <3>1. n \in 1 .. N
      BY <1>1
    <3>2. /\ run[n - 1].locals.out = "running"
          /\ run[n - 1].locals.pos \in Nat /\ run[n].locals.pos \in Nat
          /\ run[n - 1].locals.pos < run[n].locals.pos
      BY <1>5, <3>1
    <3>3. run[n - 1].locals.pos >= p.start + (n - 1)
      BY <2>2, <3>2
    <3>4. \A a, b, from \in Nat : a < b /\ a >= from + (n - 1) => b >= from + n
      BY <3>1
    <3>5. QED  BY <1>1, <3>2, <3>3, <3>4
  <2> HIDE DEF far, N
  <2>3. QED  BY <1>1, <2>1, <2>2, UpTo
<1>7. run[N].locals.out # "running"
  <2> SUFFICES ASSUME run[N].locals.out = "running" PROVE FALSE
    OBVIOUS
  <2>1. N \in 1 .. N /\ N - 1 \in 0 .. (N - 1)
    BY <1>1
  <2>2. /\ run[N - 1].locals.out = "running" /\ run[N - 1].locals.pos \in Nat
        /\ run[N - 1].locals.pos < p.end
    BY <1>5, <2>1
  <2>3. N - 1 \in far
    BY <1>6, <2>1
  <2>4. run[N - 1].locals.pos >= p.start + (N - 1)
    BY <2>2, <2>3
  <2>5. QED  BY <1>1, <2>2, <2>4
<1>8. RunRegion(src, p, entry) \in CallsOf(p)
  BY <1>1, <1>4
<1>9. QED  BY <1>4, <1>7, <1>8

(* What a call comes by that has stopped is its end.                        *)
LEMMA PassesLast ==
  ASSUME NEW src, Len(src) \in Nat, NEW p \in CallType, p.end <= Len(src),
         p.start <= p.end, NEW entry \in LocalsType, entry.pos = p.start,
         entry.last_tick <= p.end,
         NEW call, Passes(src, p, entry, call), call.locals.out # "running"
  PROVE  RunRegion(src, p, entry) = call
<1> DEFINE N == p.end - p.start + 1
<1>1. N \in Nat
  BY CallFields
<1>2. PICK run \in [0 .. N -> CallsOf(p)] :
        /\ run[0] = Entered(entry)
        /\ \A n \in 1 .. N :
             run[n] = IF run[n - 1].locals.out # "running" THEN run[n - 1]
                      ELSE Turn(src, p, run[n - 1])
        /\ run[N] = RunRegion(src, p, entry)
  BY RunRegionStops
<1>3. RunRegion(src, p, entry).locals.out # "running"
  BY RunRegionStops
<1> HIDE DEF N
<1> DEFINE Calls == {run[n] : n \in 0 .. N}
<1>4. Entered(entry) \in Calls
  BY <1>1, <1>2
<1>5. ASSUME NEW c \in Calls, c.locals.out = "running" PROVE Turn(src, p, c) \in Calls
  <2>1. PICK n \in 0 .. N : c = run[n]
    OBVIOUS
  <2>2. n # N
    BY <1>2, <1>3, <1>5, <2>1
  <2>3. n + 1 \in 1 .. N /\ (n + 1) - 1 = n
    BY <1>1, <2>2
  <2>4. run[n + 1] = Turn(src, p, c)
    BY <1>2, <1>5, <2>1, <2>3
  <2>5. QED  BY <2>3, <2>4
<1>6. call \in Calls
  BY <1>4, <1>5 DEF Passes
<1>7. PICK m \in 0 .. N : call = run[m]
  BY <1>6
<1> DEFINE same == {n \in 0 .. N : n >= m => run[n] = call}
<1>8. \A n \in 0 .. N : n \in same
  <2>1. 0 \in same
    BY <1>1, <1>7
  <2>2. ASSUME NEW n \in 1 .. N, n - 1 \in same PROVE n \in same
    <3>1. CASE n <= m
      BY <1>1, <1>7, <3>1
    <3>2. CASE n > m
      <4>1. run[n - 1] = call
        BY <1>1, <1>7, <2>2, <3>2
      <4>2. QED  BY <1>1, <1>2, <4>1
    <3>3. QED  BY <1>1, <3>1, <3>2
  <2> HIDE DEF same
  <2>3. QED  BY <1>1, <2>1, <2>2, UpTo
<1>9. run[N] = call
  BY <1>1, <1>7, <1>8
<1>10. QED  BY <1>2, <1>9

----------------------------------------------------------------------------
(* A part of a call.  A call for a part of the file, that begins with a     *)
(* record, does what the call for all of it does when it is there: the one  *)
(* has in its destination what the other puts after D.                      *)

Follows(D, r, R) ==
  /\ R.pos = r.pos /\ R.state = r.state /\ R.cols = r.cols /\ R.out = r.out
  /\ R.destination = D \o r.destination

PartOf(p, q) ==
  /\ q \in CallType
  /\ q.start <= p.start /\ p.end <= q.end /\ q.nl = p.nl /\ q.n_max = Unlimited
  /\ q.num_cols = p.num_cols /\ q.num_threads = 1 /\ q.file_offset = p.file_offset

(* What there is before a sequence makes no difference at its end.          *)
LEMMA AtItsEnd ==
  ASSUME NEW D \in Seq(Nat), NEW d \in Seq(Nat)
  PROVE  /\ \A x \in Nat : Append(D \o d, x) = D \o Append(d, x)
         /\ \A n \in 0 .. Len(d) :
              SubSeq(D \o d, 1, Len(D \o d) - n) = D \o SubSeq(d, 1, Len(d) - n)
         /\ \A e \in Seq(Nat) : (D \o d) \o e = D \o (d \o e)
<1>1. /\ D \o d \in Seq(Nat) /\ Len(D \o d) = Len(D) + Len(d)
      /\ \A i \in 1 .. Len(D) + Len(d) :
           (D \o d)[i] = IF i <= Len(D) THEN D[i] ELSE d[i - Len(D)]
  BY ConcatProperties
<1>2. PICK k, m \in Nat : k = Len(D) /\ m = Len(d)
  OBVIOUS
<1> DEFINE both == D \o d
<1>3. ASSUME NEW x \in Nat PROVE Append(both, x) = D \o Append(d, x)
  <2> DEFINE e == Append(d, x)
             s == Append(both, x)
             t == D \o e
  <2>1. e \in Seq(Nat) /\ Len(e) = m + 1 /\ \A i \in 1 .. (m + 1) : e[i] = IF i = m + 1 THEN x ELSE d[i]
    BY <1>2
  <2>2. /\ t \in Seq(Nat) /\ Len(t) = k + (m + 1)
        /\ \A i \in 1 .. k + (m + 1) : t[i] = IF i <= k THEN D[i] ELSE e[i - k]
    <3> HIDE DEF e
    <3>1. e \in Seq(Nat) /\ Len(e) = m + 1 /\ Len(D) = k
      BY <1>2, <2>1
    <3>2. /\ t \in Seq(Nat) /\ Len(t) = Len(D) + Len(e)
          /\ \A i \in 1 .. Len(D) + Len(e) : t[i] = IF i <= Len(D) THEN D[i] ELSE e[i - Len(D)]
      BY <3>1, ConcatProperties
    <3> HIDE DEF t
    <3>3. QED  BY <3>1, <3>2
  <2>3. /\ s \in Seq(Nat) /\ Len(s) = k + m + 1
        /\ \A i \in 1 .. (k + m + 1) : s[i] = IF i = k + m + 1 THEN x ELSE both[i]
    <3> HIDE DEF both
    <3>1. QED  BY <1>1, <1>2 DEF both
  <2> HIDE DEF e, s, t, both
  <2>4. \A i \in 1 .. Len(s) : s[i] = t[i]
    <3> SUFFICES ASSUME NEW i \in 1 .. (k + m + 1) PROVE s[i] = t[i]
      BY <2>3
    <3>1. i \in 1 .. (k + (m + 1)) /\ s[i] = IF i = k + m + 1 THEN x ELSE both[i]
      BY <1>2, <2>3
    <3>2. CASE i = k + m + 1
      <4>1. i - k = m + 1 /\ ~(i <= k) /\ m + 1 \in 1 .. (m + 1)
        BY <1>2, <3>2
      <4>2. QED  BY <2>1, <2>2, <3>1, <3>2, <4>1
    <3>3. CASE i # k + m + 1 /\ i <= k
      <4>1. i \in 1 .. k + m
        BY <1>2, <3>3
      <4>2. QED  BY <1>1, <1>2, <2>2, <3>1, <3>3, <4>1 DEF both
    <3>4. CASE i # k + m + 1 /\ ~(i <= k)
      <4>1. i \in 1 .. k + m /\ i - k \in 1 .. (m + 1) /\ i - k # m + 1
        <5>1. \A a, b \in Nat : \A n \in 1 .. (a + b + 1) :
                n # a + b + 1 /\ ~(n <= a) =>
                  n \in 1 .. a + b /\ n - a \in 1 .. (b + 1) /\ n - a # b + 1
          OBVIOUS
        <5>2. k \in Nat /\ m \in Nat
          BY <1>2
        <5>3. QED  BY <3>4, <5>1, <5>2
      <4>2. QED  BY <1>1, <1>2, <2>1, <2>2, <3>1, <3>4, <4>1 DEF both
    <3>5. QED  BY <3>2, <3>3, <3>4
  <2>5. s \in Seq(Nat) /\ t \in Seq(Nat) /\ Len(s) = Len(t)
    BY <1>2, <2>2, <2>3
  <2>6. s = t
    BY <2>4, <2>5, SeqEqual
  <2>7. QED  BY <2>6 DEF e, s, t
<1>4. ASSUME NEW n \in 0 .. Len(d)
      PROVE  SubSeq(both, 1, Len(both) - n) = D \o SubSeq(d, 1, Len(d) - n)
  <2>1. PICK j \in 0 .. m : j = m - n
    <3>1. \A a \in Nat : \A b \in 0 .. a : a - b \in 0 .. a
      OBVIOUS
    <3>2. m \in Nat /\ n \in 0 .. m
      BY <1>2
    <3>3. QED  BY <3>1, <3>2
  <2>2. Len(both) - n = k + j /\ Len(d) - n = j
    BY <1>1, <1>2, <2>1
  <2> DEFINE e == SubSeq(d, 1, j)
             s == SubSeq(both, 1, k + j)
             t == D \o e
  <2>3. e \in Seq(Nat) /\ Len(e) = j /\ \A i \in 1 .. j : e[i] = d[i]
    BY <1>2, <2>1
  <2>4. /\ t \in Seq(Nat) /\ Len(t) = k + j
        /\ \A i \in 1 .. k + j : t[i] = IF i <= k THEN D[i] ELSE e[i - k]
    <3> HIDE DEF e
    <3>1. QED  BY <1>2, <2>3, ConcatProperties
  <2>5. s \in Seq(Nat) /\ Len(s) = k + j /\ \A i \in 1 .. k + j : s[i] = both[i]
    <3>1. both \in Seq(Nat) /\ Len(both) = k + m
      BY <1>1, <1>2
    <3> HIDE DEF both
    <3>2. k + j \in Nat /\ k + j <= k + m
      BY <1>2, <2>1
    <3>3. \A b \in Seq(Nat), n1 \in Nat :
            n1 <= Len(b) => /\ SubSeq(b, 1, n1) \in Seq(Nat) /\ Len(SubSeq(b, 1, n1)) = n1
                            /\ \A i \in 1 .. n1 : SubSeq(b, 1, n1)[i] = b[i]
      OBVIOUS
    <3>4. QED  BY <3>1, <3>2, <3>3
  <2> HIDE DEF e, s, t, both
  <2>6. \A i \in 1 .. Len(s) : s[i] = t[i]
    <3> SUFFICES ASSUME NEW i \in 1 .. k + j PROVE s[i] = t[i]
      BY <2>5
    <3>1. s[i] = both[i] /\ i \in 1 .. k + m
      BY <1>2, <2>1, <2>5
    <3>2. CASE i <= k
      BY <1>1, <1>2, <2>4, <3>1, <3>2 DEF both
    <3>3. CASE ~(i <= k)
      <4>1. i - k \in 1 .. j
        BY <1>2, <2>1, <3>3
      <4>2. QED  BY <1>1, <1>2, <2>3, <2>4, <3>1, <3>3, <4>1 DEF both
    <3>4. QED  BY <3>2, <3>3
  <2>7. s = t
    BY <2>4, <2>5, <2>6, SeqEqual
  <2>8. QED  BY <2>2, <2>7 DEF e, s, t
<1>5. ASSUME NEW e \in Seq(Nat) PROVE (D \o d) \o e = D \o (d \o e)
  <2> DEFINE S == Nat
  <2>1. D \in Seq(S)
    OBVIOUS
  <2>2. d \in Seq(S)
    OBVIOUS
  <2>3. e \in Seq(S)
    OBVIOUS
  <2> HIDE DEF S
  <2>4. QED  BY <2>1, <2>2, <2>3, ConcatAssociative
<1>6. QED  BY <1>3, <1>4, <1>5

(* push_back keeps them in step,                                            *)
LEMMA PushFollows ==
  ASSUME NEW D \in Seq(Nat), NEW r \in LocalsType, NEW R \in LocalsType, Follows(D, r, R),
         NEW pos \in Nat
  PROVE  Follows(D, Push(r, pos), Push(R, pos))
<1>1. /\ Push(r, pos).destination = Append(r.destination, pos)
      /\ Push(R, pos).destination = Append(D \o r.destination, pos)
  BY DEF Push, LocalsType, Follows
<1>2. r.destination \in Seq(Nat)
  BY LocalsFields
<1>3. Push(R, pos).destination = D \o Push(r, pos).destination
  <2>1. Append(D \o r.destination, pos) = D \o Append(r.destination, pos)
    BY <1>2, AtItsEnd
  <2>2. QED  BY <1>1, <2>1
<1>4. Push(r, pos) \in Rewritten(r) /\ Push(R, pos) \in Rewritten(R)
  BY PushType
<1>5. /\ Push(r, pos).pos = r.pos /\ Push(r, pos).state = r.state /\ Push(r, pos).cols = r.cols
      /\ Push(r, pos).out = r.out
  BY <1>4, RewrittenType
<1>6. /\ Push(R, pos).pos = R.pos /\ Push(R, pos).state = R.state /\ Push(R, pos).cols = R.cols
      /\ Push(R, pos).out = R.out
  BY <1>4, RewrittenType
<1>7. QED  BY <1>3, <1>5, <1>6 DEF Follows

(* and so does resolve_columns: it takes no more than the separators of the *)
(* record, which are all of the part.                                       *)
LEMMA ResolveColumnsFollows ==
  ASSUME NEW p \in CallType, NEW q, PartOf(p, q),
         NEW D \in Seq(Nat), NEW r \in LocalsType, NEW R \in LocalsType, Follows(D, r, R),
         p.start < r.pos, r.cols < Len(r.destination)
  PROVE  Follows(D, ResolveColumns(p, r), ResolveColumns(q, R))
<1> DEFINE d == r.destination
<1>1. /\ d \in Seq(Nat) /\ r.cols \in Nat /\ r.pos \in Nat /\ p.num_cols \in Nat
      /\ p.start \in Nat /\ p.file_offset \in Nat /\ q.start \in Nat
  BY LocalsFields, CallFields DEF PartOf
<1>2. /\ R.pos = r.pos /\ R.cols = r.cols /\ R.destination = D \o d
      /\ q.num_cols = p.num_cols /\ q.file_offset = p.file_offset /\ q.start <= p.start
  BY DEF Follows, PartOf
<1>3. ~(r.pos <= p.start) /\ ~(R.pos <= q.start)
  BY <1>1, <1>2
<1>4. ResolveColumns(p, r) \in Rewritten(r) /\ ResolveColumns(q, R) \in Rewritten(R)
  BY PushType, ResolveColumnsType DEF PartOf
<1>5. ResolveColumns(q, R).destination = D \o ResolveColumns(p, r).destination
  <2>1. /\ \A e : [r EXCEPT !.destination = e].destination = e
        /\ \A e : [R EXCEPT !.destination = e].destination = e
    BY DEF LocalsType
  <2>2. CASE p.num_cols = 0
    BY <1>2, <2>2 DEF ResolveColumns
  <2>3. CASE p.num_cols # 0 /\ r.cols >= p.num_cols
    <3>1. PICK n \in Nat : n = r.cols - p.num_cols + 1 /\ n \in 0 .. Len(d)
      <4>1. PICK len, cols, num_cols \in Nat :
              len = Len(d) /\ cols = r.cols /\ num_cols = p.num_cols
        BY <1>1
      <4>2. cols < len /\ cols >= num_cols /\ num_cols > 0
        BY <1>1, <2>3, <4>1
      <4>3. cols - num_cols + 1 \in Nat /\ cols - num_cols + 1 \in 0 .. len
        BY <4>2
      <4>4. QED  BY <4>1, <4>3
    <3>2. ResolveColumns(p, r).destination = SubSeq(d, 1, Len(d) - n)
      BY <1>3, <2>1, <2>3, <3>1 DEF ResolveColumns
    <3>3. ResolveColumns(q, R).destination = SubSeq(D \o d, 1, Len(D \o d) - n)
      BY <1>2, <1>3, <2>1, <2>3, <3>1 DEF ResolveColumns
    <3> HIDE DEF d
    <3>4. SubSeq(D \o d, 1, Len(D \o d) - n) = D \o SubSeq(d, 1, Len(d) - n)
      BY <1>1, <3>1, AtItsEnd
    <3>5. QED  BY <3>2, <3>3, <3>4
  <2>4. CASE p.num_cols # 0 /\ ~(r.cols >= p.num_cols)
    <3> DEFINE pad == [k \in 1 .. (p.num_cols - 1 - r.cols) |-> r.pos + p.file_offset]
    <3>1. ResolveColumns(p, r).destination = d \o pad
      BY <1>3, <2>1, <2>4 DEF ResolveColumns
    <3>2. ResolveColumns(q, R).destination = (D \o d) \o pad
      BY <1>2, <1>3, <2>1, <2>4 DEF ResolveColumns
    <3>3. pad \in Seq(Nat)
      <4>1. p.num_cols - 1 - r.cols \in Nat /\ r.pos + p.file_offset \in Nat
        <5>1. \A n, c \in Nat : n # 0 /\ ~(c >= n) => n - 1 - c \in Nat
          OBVIOUS
        <5>2. \A a, b \in Nat : a + b \in Nat
          OBVIOUS
        <5>3. QED  BY <1>1, <2>4, <5>1, <5>2
      <4>2. \A n, x \in Nat : [k \in 1 .. n |-> x] \in Seq(Nat)
        OBVIOUS
      <4>3. QED  BY <4>1, <4>2
    <3> HIDE DEF pad, d
    <3>4. (D \o d) \o pad = D \o (d \o pad)
      BY <1>1, <3>3, AtItsEnd
    <3>5. QED  BY <3>1, <3>2, <3>4
  <2>5. QED  BY <2>2, <2>3, <2>4
<1> DEFINE s == ResolveColumns(p, r)
           S == ResolveColumns(q, R)
<1>6. s \in Rewritten(r) /\ S \in Rewritten(R) /\ S.destination = D \o s.destination
  BY <1>4, <1>5
<1> HIDE DEF s, S
<1>7. s.pos = r.pos /\ s.state = r.state /\ s.cols = r.cols /\ s.out = r.out
  BY <1>6, RewrittenType
<1>8. S.pos = R.pos /\ S.state = R.state /\ S.cols = R.cols /\ S.out = R.out
  BY <1>6, RewrittenType
<1>9. Follows(D, s, S)
  BY <1>6, <1>7, <1>8 DEF Follows
<1>10. QED  BY <1>9 DEF s, S

(* Both are about to do the same: that the part ends with a line feed       *)
(* keeps the loop's conditions from seeing that more follows.               *)
LEMMA KindFollows ==
  ASSUME NEW src \in File, NEW p, LineFeedCall(src, p), NEW q, PartOf(p, q),
         NEW D \in Seq(Nat), NEW r \in LocalsType, NEW R \in LocalsType, Follows(D, r, R),
         r.pos < p.end, q.end <= Len(src)
  PROVE  Kind(src, q, R) = Kind(src, p, r)
<1>1. /\ p.end \in Nat /\ q.end \in Nat /\ p.end <= q.end /\ r.pos \in Nat /\ R.pos = r.pos
      /\ R.state = r.state /\ p.end <= Len(src) /\ Len(src) \in Nat
      /\ q.nl = p.nl
  BY LocalsFields, CallFields DEF LineFeedCall, PartOf, Follows, File
<1>2. ~(R.pos >= q.end) /\ ~(r.pos >= p.end)
  BY <1>1
<1>3. Below(R.lines_read, q.n_max) /\ Below(r.lines_read, p.n_max)
  BY DEF Below, PartOf, LineFeedCall
<1>4. IsComment(src, r.pos, p.end) = IsComment(src, r.pos, q.end)
  <2>1. At(src, r.pos) = "hash" => r.pos # p.end - 1
    BY DEF LineFeedCall
  <2>2. At(src, r.pos) = "hash" => p.end - r.pos > 1 /\ q.end - r.pos > 1
    BY <1>1, <2>1
  <2>3. QED  BY <2>2 DEF IsComment
<1>5. IsEmptyLine(src, r.pos, p.end) = IsEmptyLine(src, r.pos, q.end)
  <2> DEFINE to == FirstOf(src, r.pos, Char \ Blank)
  <2>1. "lf" \in Char \ Blank
    BY DEF Char, Blank
  <2>2. to \in r.pos .. (p.end - 1)
    BY <1>1, <2>1, StopsAtLineFeed
  <2> HIDE DEF to
  <2>3. to < p.end /\ to < q.end
    BY <1>1, <2>2
  <2>4. QED  BY <2>3 DEF IsEmptyLine, FirstNotOf, to
<1>6. QED  BY <1>1, <1>2, <1>3, <1>4, <1>5 DEF Kind

(* Beginning a record keeps them in step.                                   *)
LEMMA StartRecordFollows ==
  ASSUME NEW p \in CallType, NEW q, PartOf(p, q),
         NEW D \in Seq(Nat), NEW r \in LocalsType, NEW R \in LocalsType, Follows(D, r, R)
  PROVE  /\ Follows(D, StartRecord(p, r), StartRecord(q, R))
         /\ StartRecord(p, r) \in LocalsType /\ StartRecord(q, R) \in LocalsType
<1>1. /\ R.pos = r.pos /\ R.state = r.state /\ q.file_offset = p.file_offset
      /\ r.pos + p.file_offset \in Nat /\ q \in CallType
  <2>1. r.pos \in Nat /\ p.file_offset \in Nat
    BY LocalsFields, CallFields
  <2>2. QED  BY <2>1 DEF Follows, PartOf
<1>2. Follows(D, StartRecord(p, r), StartRecord(q, R))
  BY <1>1, PushFollows DEF StartRecord
<1>3. QED  BY <1>1, <1>2, StartRecordType, RewrittenType

(* An iteration keeps them in step, and reports the same errors.            *)
LEMMA StepFollows ==
  ASSUME NEW src \in File, NEW p, LineFeedCall(src, p), NEW q, PartOf(p, q),
         q.end <= Len(src), SkipEmptyRows, ~EscapeBackslash,
         NEW D \in Seq(Nat), NEW r \in LocalsType, NEW R \in LocalsType, Follows(D, r, R),
         RowsSoFar(p, r), r.pos < p.end, IndexStep(src, p, r).out # "newline_error"
  PROVE  /\ Follows(D, IndexStep(src, p, r), IndexStep(src, q, R))
         /\ ParseErrors(src, q, R) = ParseErrors(src, p, r)
<1> DEFINE kind == Kind(src, p, r)
           c    == At(src, r.pos)
           s    == IndexStep(src, p, r)
           S    == IndexStep(src, q, R)
<1>1. /\ p \in CallType /\ q \in CallType /\ p.end \in Nat /\ p.start \in Nat
      /\ q.start \in Nat /\ q.end \in Nat /\ q.start <= p.start /\ p.end <= q.end
      /\ r.pos \in Nat /\ r.cols \in Nat /\ r.state \in CsvState /\ r.pos + p.file_offset \in Nat
      /\ r.lines_read \in Nat /\ R.lines_read \in Nat
      /\ r.last_tick \in Nat /\ R.last_tick \in Nat
      /\ q.nl = p.nl /\ q.num_cols = p.num_cols /\ q.file_offset = p.file_offset
      /\ q.num_threads = 1 /\ q.n_max = Unlimited /\ p.n_max = Unlimited /\ p.nl = "lf"
      /\ p.num_threads # 1
  <2>1. p \in CallType /\ q \in CallType
    BY DEF LineFeedCall, PartOf
  <2>2. /\ r.pos \in Nat /\ r.cols \in Nat /\ r.state \in CsvState
        /\ r.lines_read \in Nat /\ r.last_tick \in Nat
    BY LocalsFields
  <2>3. R.lines_read \in Nat /\ R.last_tick \in Nat
    BY LocalsFields
  <2>4. /\ p.end \in Nat /\ p.start \in Nat /\ p.file_offset \in Nat
    BY <2>1, CallFields
  <2>5. q.start \in Nat /\ q.end \in Nat
    BY <2>1, CallFields
  <2>6. r.pos + p.file_offset \in Nat
    BY <2>2, <2>4
  <2>7. QED  BY <2>1, <2>2, <2>3, <2>4, <2>5, <2>6 DEF LineFeedCall, PartOf
<1>2. R.pos = r.pos /\ R.state = r.state /\ R.cols = r.cols /\ R.out = r.out
  BY DEF Follows
<1>3. Kind(src, q, R) = kind
  BY KindFollows
<1>4. kind \in {"return", "escape", "comment", "empty", "delim", "newline", "quoted_nl",
                "quote", "other"}
  BY DEF Kind
<1>5. kind # "return" /\ kind # "escape"
  BY <1>1 DEF Kind, Below
<1>6. r.state # "RECORD_START" => p.start < r.pos /\ q.start < r.pos
  BY <1>1 DEF RowsSoFar
<1>7. kind = "newline" => r.state # "RECORD_START"
  <2>1. kind = "newline" => c = "lf"
    BY <1>1 DEF Kind
  <2>2. c = "lf" => IsEmptyLine(src, r.pos, p.end)
    BY <1>1, LineFeedIsEmpty DEF LineFeedCall
  <2>3. QED  BY <2>1, <2>2 DEF Kind
<1>8. ParseErrors(src, q, R) = ParseErrors(src, p, r)
  <2>1. r.state # "RECORD_START" => (BadColumns(q, R) <=> BadColumns(p, r))
    BY <1>1, <1>2, <1>6 DEF BadColumns
  <2> HIDE DEF kind
  <2>2. QED  BY <1>1, <1>2, <1>3, <1>7, <2>1 DEF ParseErrors, kind
<1>9. /\ StartRecord(p, r) \in LocalsType /\ StartRecord(q, R) \in LocalsType
      /\ Follows(D, StartRecord(p, r), StartRecord(q, R))
  BY <1>1, StartRecordFollows
<1>10. r.state # "RECORD_START" =>
         LET t == Push(ResolveColumns(p, r), r.pos + p.file_offset)
             T == Push(ResolveColumns(q, R), r.pos + p.file_offset)
         IN  t \in LocalsType /\ T \in LocalsType /\ Follows(D, t, T)
  <2> SUFFICES ASSUME r.state # "RECORD_START"
               PROVE  LET t == Push(ResolveColumns(p, r), r.pos + p.file_offset)
                          T == Push(ResolveColumns(q, R), r.pos + p.file_offset)
                      IN  t \in LocalsType /\ T \in LocalsType /\ Follows(D, t, T)
    OBVIOUS
  <2>1. r.cols < Len(r.destination)
    <3>1. PICK whole \in Nat : Len(r.destination) = whole + 1 + r.cols
      BY DEF RowsSoFar
    <3>2. QED  BY <1>1, <3>1
  <2>2. p.start < r.pos
    BY <1>6
  <2>3. Follows(D, ResolveColumns(p, r), ResolveColumns(q, R))
    BY <1>1, <2>1, <2>2, ResolveColumnsFollows
  <2>4. ResolveColumns(p, r) \in LocalsType /\ ResolveColumns(q, R) \in LocalsType
    BY <1>1, PushType, ResolveColumnsType, RewrittenType
  <2>5. QED  BY <1>1, <2>3, <2>4, PushFollows, PushType, RewrittenType
<1> HIDE DEF kind, s, S
<1>11. CASE kind = "comment"
  <2>1. /\ s = SkipComment(src, p, r) /\ S = SkipComment(src, q, R)
        /\ NewlineState(r.state) = "RECORD_START"
    <3>1. r.state # "QUOTED_FIELD"
      BY <1>11 DEF Kind, kind
    <3>2. QED  BY <1>3, <1>11, <3>1 DEF IndexStep, NewlineState, s, S, kind
  <2>2. ASSUME r.state = "RECORD_START" PROVE Follows(D, s, S)
    <3>1. /\ s = [r EXCEPT !.cols = 0, !.pos = SkipRestOfLine(src, r.pos) + 1,
                           !.state = "RECORD_START"]
          /\ S = [R EXCEPT !.cols = 0, !.pos = SkipRestOfLine(src, r.pos) + 1,
                           !.state = "RECORD_START"]
      BY <1>2, <2>1, <2>2 DEF SkipComment
    <3> HIDE DEF s, S
    <3>2. /\ s.pos = S.pos /\ s.state = S.state /\ s.cols = S.cols /\ s.out = r.out
          /\ S.out = R.out /\ s.destination = r.destination /\ S.destination = R.destination
      BY <3>1 DEF LocalsType
    <3>3. Follows(D, s, S)
      BY <1>2, <3>2 DEF Follows
    <3>4. QED  BY <3>3
  <2>3. ASSUME r.state # "RECORD_START" PROVE Follows(D, s, S)
    <3> DEFINE t == Push(ResolveColumns(p, r), r.pos + p.file_offset)
               T == Push(ResolveColumns(q, R), r.pos + p.file_offset)
    <3>1. t \in LocalsType /\ T \in LocalsType /\ Follows(D, t, T)
      BY <1>10, <2>3
    <3>2. /\ s = [t EXCEPT !.cols = 0, !.pos = SkipRestOfLine(src, r.pos) + 1,
                           !.state = "RECORD_START"]
          /\ S = [T EXCEPT !.cols = 0, !.pos = SkipRestOfLine(src, r.pos) + 1,
                           !.state = "RECORD_START"]
      BY <1>1, <1>2, <2>1, <2>3 DEF SkipComment
    <3> HIDE DEF t, T
    <3>3. Follows(D, s, S)
      BY <3>1, <3>2 DEF Follows, LocalsType
    <3>4. QED  BY <3>3
  <2>4. Follows(D, s, S)
    BY <2>2, <2>3
  <2>5. QED  BY <1>8, <2>4 DEF s, S
<1>12. CASE kind = "empty"
  <2>1. /\ s = [r EXCEPT !.pos = SkipRestOfLine(src, r.pos) + 1]
        /\ S = [R EXCEPT !.pos = SkipRestOfLine(src, r.pos) + 1]
    BY <1>2, <1>3, <1>12 DEF IndexStep, SkipEmptyLine, s, S, kind
  <2>2. Follows(D, s, S)
    BY <2>1 DEF Follows, LocalsType
  <2>3. QED  BY <1>8, <2>2 DEF s, S
<1>13. CASE kind = "delim"
  <2> DEFINE t == Push(StartRecord(p, r), r.pos + p.file_offset)
             T == Push(StartRecord(q, R), r.pos + p.file_offset)
  <2>1. t \in LocalsType /\ T \in LocalsType /\ Follows(D, t, T)
    BY <1>1, <1>9, PushFollows, PushType, RewrittenType
  <2>2. /\ s = [t EXCEPT !.state = CommaState(r.state), !.cols = @ + 1, !.pos = @ + 1]
        /\ S = [T EXCEPT !.state = CommaState(r.state), !.cols = @ + 1, !.pos = @ + 1]
    BY <1>1, <1>2, <1>3, <1>13 DEF IndexStep, Delimiter, s, S, kind
  <2> HIDE DEF t, T
  <2>3. Follows(D, s, S)
    BY <2>1, <2>2 DEF Follows, LocalsType
  <2>4. QED  BY <1>8, <2>3 DEF s, S
<1>14. CASE kind = "newline"
  <2> DEFINE t == Push(ResolveColumns(p, r), r.pos + p.file_offset)
             T == Push(ResolveColumns(q, R), r.pos + p.file_offset)
  <2>1. t \in LocalsType /\ T \in LocalsType /\ Follows(D, t, T)
    BY <1>7, <1>10, <1>14
  <2>2. r.state # "RECORD_START" /\ s = EndRecord(p, r) /\ S = EndRecord(q, R)
    BY <1>3, <1>7, <1>14 DEF IndexStep, s, S, kind
  <2> DEFINE u == [t EXCEPT !.state = NewlineState(r.state), !.cols = 0, !.lines_read = @ + 1]
             U == [T EXCEPT !.state = NewlineState(r.state), !.cols = 0, !.lines_read = @ + 1]
  <2>3. /\ s = [u EXCEPT !.pos = @ + 1,
                         !.last_tick = IF r.pos - @ > p.update_size THEN r.pos ELSE @]
        /\ S = [U EXCEPT !.pos = @ + 1,
                         !.last_tick = IF r.pos - @ > q.update_size THEN r.pos ELSE @]
    BY <1>1, <1>2, <2>2 DEF EndRecord, StartRecord, Below
  <2> HIDE DEF t, T
  <2>4. Follows(D, s, S)
    BY <2>1, <2>3 DEF Follows, LocalsType
  <2>5. QED  BY <1>8, <2>4 DEF s, S
<1>15. kind # "quoted_nl"
  <2> SUFFICES ASSUME kind = "quoted_nl" PROVE FALSE
    OBVIOUS
  <2>1. s = [r EXCEPT !.out = "newline_error"]
    BY <1>1 DEF IndexStep, QuotedNewline, s, kind
  <2>2. s.out = "newline_error"
    BY <2>1 DEF LocalsType
  <2>3. QED  BY <2>2 DEF s
<1>16. CASE kind = "quote"
  <2> DEFINE t == StartRecord(p, r)
             T == StartRecord(q, R)
  <2>1. /\ s = [t EXCEPT !.state = QuotedState(r.state), !.pos = @ + 1]
        /\ S = [T EXCEPT !.state = QuotedState(r.state), !.pos = @ + 1]
    BY <1>2, <1>3, <1>16 DEF IndexStep, QuoteChar, s, S, kind
  <2> HIDE DEF t, T
  <2>2. Follows(D, s, S)
    BY <1>9, <2>1 DEF Follows, LocalsType, t, T
  <2>3. QED  BY <1>8, <2>2 DEF s, S
<1>17. CASE kind = "other"
  <2> DEFINE t  == StartRecord(p, r)
             T  == StartRecord(q, R)
             to == FirstOf(src, r.pos + 1, Query(p.nl))
  <2>1. t.pos = r.pos /\ T.pos = r.pos
    BY <1>1, <1>2, StartRecordType, RewrittenType
  <2>2. r.pos + 1 < p.end /\ r.pos + 1 < q.end
    <3>1. At(src, p.end - 1) = "lf" /\ c # "lf"
      BY <1>1, <1>17 DEF LineFeedCall, Kind, kind
    <3>2. r.pos # p.end - 1
      BY <3>1
    <3>3. \A pos, end, after \in Nat :
            pos < end /\ pos # end - 1 /\ end <= after => pos + 1 < end /\ pos + 1 < after
      OBVIOUS
    <3>4. QED  BY <1>1, <3>2, <3>3
  <2>3. s = OtherChars(src, p, r) /\ S = OtherChars(src, q, R)
    BY <1>3, <1>17 DEF IndexStep, s, S, kind
  <2>4. /\ s = [t EXCEPT !.state = OtherState(r.state), !.pos = to]
        /\ S = [T EXCEPT !.state = OtherState(r.state), !.pos = to]
    BY <1>1, <1>2, <2>1, <2>2, <2>3 DEF OtherChars
  <2> HIDE DEF t, T, to
  <2>5. Follows(D, s, S)
    BY <1>9, <2>4 DEF Follows, LocalsType, t, T
  <2>6. QED  BY <1>8, <2>5 DEF s, S
<1>18. QED
  BY <1>4, <1>5, <1>11, <1>12, <1>13, <1>14, <1>15, <1>16, <1>17

(* The call for all of it comes to a position between two records, with     *)
(* these separators and errors.                                             *)
Reaches(src, q, entry, pos, seps, errs) ==
  \E R \in LocalsType :
    /\ R.pos = pos /\ R.state = "RECORD_START" /\ R.cols = 0 /\ R.out = "running"
    /\ R.destination = seps
    /\ R.pos < q.end => R.last_tick <= q.end
    /\ Passes(src, q, entry, [locals |-> R, errors |-> errs])

Errors == Seq([position : Nat, column : Nat])

(* A call that has reached a part of its region that has a call of its own  *)
(* reaches the end of the part, when the part's call does, and has then     *)
(* found what the part's call has found.                                    *)
LEMMA PartReached ==
  ASSUME NEW src \in File, NEW p, LineFeedCall(src, p), p.start <= p.end,
         NEW q, PartOf(p, q), q.end <= Len(src), SkipEmptyRows, ~EscapeBackslash,
         NEW entry, NEW D \in Seq(Nat), NEW E \in Errors,
         Reaches(src, q, entry, p.start, D, E),
         NEW call, Passes(src, p, Enter(p, "RECORD_START", 0, <<>>), call),
         call.locals.out = "end"
  PROVE  /\ Reaches(src, q, entry, p.end, D \o call.locals.destination, E \o call.errors)
         /\ call \in CallsOf(p)
<1> DEFINE start == Enter(p, "RECORD_START", 0, <<>>)
           InStep(c) == \E R \in LocalsType :
                          /\ R.pos = c.locals.pos /\ R.state = c.locals.state
                          /\ R.cols = c.locals.cols /\ R.out = "running"
                          /\ R.destination = D \o c.locals.destination
                          /\ R.pos < q.end => R.last_tick <= q.end
                          /\ Passes(src, q, entry, [locals |-> R, errors |-> E \o c.errors])
           AtEnd(c) == c.locals.pos = p.end /\ c.locals.state = "RECORD_START" /\ c.locals.cols = 0
           Good == {c \in CallsOf(p) :
                      \/ c.locals.out = "newline_error"
                      \/ /\ c.locals.out = "running" \/ (c.locals.out = "end" /\ AtEnd(c))
                         /\ RowsSoFar(p, c.locals) /\ InStep(c)}
<1>1. /\ p \in CallType /\ q \in CallType /\ p.start \in Nat /\ p.end \in Nat /\ q.end \in Nat
      /\ p.end <= Len(src) /\ p.end <= q.end /\ Len(src) \in Nat /\ p.num_cols \in Nat
  <2>1. p \in CallType /\ q \in CallType /\ Len(src) \in Nat
    BY DEF LineFeedCall, PartOf, File
  <2>2. p.start \in Nat /\ p.end \in Nat /\ p.num_cols \in Nat
    BY <2>1, CallFields
  <2>3. q.end \in Nat
    BY <2>1, CallFields
  <2>4. QED  BY <2>1, <2>2, <2>3 DEF LineFeedCall, PartOf
<1>2. Entered(start) \in Good
  <2>1. /\ start.pos = p.start /\ start.state = "RECORD_START" /\ start.cols = 0
        /\ start.destination = <<>> /\ start.out = "running" /\ start.last_tick = p.start
        /\ start.lines_read = 0
    BY DEF Enter
  <2>2. start \in LocalsType
    BY <1>1 DEF Enter, LocalsType, CsvState
  <2> HIDE DEF start
  <2>3. Entered(start) \in CallsOf(p)
    BY <1>1, <2>1, <2>2 DEF Entered, CallsOf
  <2>4. RowsSoFar(p, start)
    <3>1. \A n \in Nat : 0 % (n + 1) = 0
      OBVIOUS
    <3>2. Len(start.destination) = 0
      BY <2>1
    <3>3. WholeRows(p, Len(start.destination))
      BY <1>1, <3>1, <3>2 DEF WholeRows
    <3>4. QED  BY <1>1, <2>1, <3>3 DEF RowsSoFar
  <2>5. InStep(Entered(start))
    <3>1. PICK R \in LocalsType :
            /\ R.pos = p.start /\ R.state = "RECORD_START" /\ R.cols = 0 /\ R.out = "running"
            /\ R.destination = D /\ (R.pos < q.end => R.last_tick <= q.end)
            /\ Passes(src, q, entry, [locals |-> R, errors |-> E])
      BY DEF Reaches
    <3>2. D \o <<>> = D
      OBVIOUS
    <3>3. E \o <<>> = E
      <4>1. \A S : \A e \in Seq(S) : e \o <<>> = e
        OBVIOUS
      <4>2. QED  BY <4>1 DEF Errors
    <3>4. Entered(start).locals = start /\ Entered(start).errors = <<>>
      BY DEF Entered
    <3>5. QED  BY <2>1, <3>1, <3>2, <3>3, <3>4
  <2>6. Entered(start).locals = start
    BY DEF Entered
  <2> HIDE DEF InStep
  <2>7. QED  BY <2>1, <2>3, <2>4, <2>5, <2>6
<1>3. ASSUME NEW c \in Good, c.locals.out = "running"
      PROVE  Turn(src, p, c) \in Good
  <2> DEFINE r == c.locals
             s == IndexStep(src, p, r)
             more == ParseErrors(src, p, r)
             t == Turn(src, p, c)
  <2>1. c \in CallsOf(p) /\ RowsSoFar(p, r) /\ InStep(c)
    BY <1>3
  <2>2. r \in LocalsType /\ c.errors \in Errors
    BY <2>1 DEF CallsOf, Errors
  <2>3. t \in CallsOf(p)
    BY <1>1, <2>1, TurnType
  <2>4. t.locals = s /\ t.errors = c.errors \o more
    BY DEF Turn
  <2>5. \/ s.out = "newline_error"
        \/ s.out = "running" /\ RowsSoFar(p, s)
        \/ s.out = "end" /\ s.state = "RECORD_START" /\ RowsSoFar(p, s) /\ r.pos = p.end
    BY <1>3, <2>1, <2>2, StepKeepsRows
  <2>6. PICK R \in LocalsType :
          /\ R.pos = r.pos /\ R.state = r.state /\ R.cols = r.cols /\ R.out = "running"
          /\ R.destination = D \o r.destination /\ (R.pos < q.end => R.last_tick <= q.end)
          /\ Passes(src, q, entry, [locals |-> R, errors |-> E \o c.errors])
    BY <2>1
  <2>7. more \in Errors
    BY <1>1, <2>2, ParseErrorsType DEF Errors
  <2> HIDE DEF r, s, more, t
  <2>8. ASSUME s.out = "running", RowsSoFar(p, s) PROVE InStep(t)
    <3>1. r.pos < p.end
      BY <1>1, <1>3, <2>2, <2>8, StepGoesForward DEF r, s
    <3>2. Follows(D, r, R)
      BY <1>3, <2>6 DEF Follows, r
    <3>3. /\ Follows(D, s, IndexStep(src, q, R))
          /\ ParseErrors(src, q, R) = more
      <4>1. IndexStep(src, p, r).out # "newline_error"
        BY <2>8 DEF s
      <4>2. RowsSoFar(p, r) /\ q.end <= Len(src)
        BY <2>1 DEF r
      <4>3. QED  BY <2>2, <3>1, <3>2, <4>1, <4>2, StepFollows DEF s, more
    <3> DEFINE S == IndexStep(src, q, R)
    <3>4. S \in LocalsType /\ (S.pos < q.end => S.last_tick <= q.end)
      BY <1>1, <2>6, StepLocals
    <3> DEFINE C == [locals |-> R, errors |-> E \o c.errors]
    <3>5. Passes(src, q, entry, Turn(src, q, C))
      <4>1. Passes(src, q, entry, C) /\ C.locals.out = "running"
        BY <2>6
      <4> HIDE DEF C
      <4>2. QED  BY <4>1, PassesNext
    <3>6. Turn(src, q, C) = [locals |-> S, errors |-> (E \o c.errors) \o more]
      BY <3>3 DEF Turn
    <3>7. (E \o c.errors) \o more = E \o (c.errors \o more)
      <4> DEFINE T == [position : Nat, column : Nat]
                 own == c.errors
      <4>1. E \in Seq(T)
        BY DEF Errors
      <4>2. own \in Seq(T)
        BY <2>2 DEF Errors
      <4>3. more \in Seq(T)
        BY <2>7 DEF Errors
      <4> HIDE DEF T, own
      <4>4. (E \o own) \o more = E \o (own \o more)
        BY <4>1, <4>2, <4>3, ConcatAssociative
      <4>5. QED  BY <4>4 DEF own
    <3>8. /\ S.pos = s.pos /\ S.state = s.state /\ S.cols = s.cols /\ S.out = "running"
          /\ S.destination = D \o s.destination
      BY <2>8, <3>3 DEF Follows
    <3> HIDE DEF S, C
    <3>9. Passes(src, q, entry, [locals |-> S, errors |-> E \o t.errors])
      <4>1. t.errors = c.errors \o more
        BY <2>4 DEF r, more, t
      <4>2. QED  BY <3>5, <3>6, <3>7, <4>1
    <3>10. t.locals = s
      BY <2>4 DEF r, s, t
    <3>11. QED  BY <3>4, <3>8, <3>9, <3>10
  <2>9. ASSUME s.out = "end", s.state = "RECORD_START", RowsSoFar(p, s), r.pos = p.end
        PROVE  AtEnd(t) /\ InStep(t)
    <3>1. Kind(src, p, r) = "return"
      BY <1>1, <2>9 DEF Kind
    <3>2. s = [r EXCEPT !.last_tick = p.end, !.out = "end"] /\ more = <<>>
      BY <3>1 DEF IndexStep, ParseErrors, s, more
    <3>3. /\ s.pos = r.pos /\ s.state = r.state /\ s.cols = r.cols
          /\ s.destination = r.destination
      BY <2>2, <3>2 DEF LocalsType
    <3>4. c.errors \o <<>> = c.errors
      <4>1. \A S : \A e \in Seq(S) : e \o <<>> = e
        OBVIOUS
      <4>2. QED  BY <2>2, <4>1 DEF Errors
    <3>5. t.locals = s /\ t.errors = c.errors
      BY <2>4, <3>2, <3>4 DEF r, s, t, more
    <3>6. s.cols = 0
      BY <2>9 DEF RowsSoFar
    <3>7. AtEnd(t)
      BY <2>9, <3>3, <3>5, <3>6
    <3>8. InStep(t)
      BY <2>6, <3>3, <3>5
    <3>9. QED  BY <3>7, <3>8
  <2>10. t.locals = s
    BY <2>4 DEF r, s, t
  <2> HIDE DEF InStep, AtEnd
  <2>11. t \in Good
    <3>1. \/ s.out = "newline_error"
          \/ s.out = "running" /\ RowsSoFar(p, s)
          \/ s.out = "end" /\ s.state = "RECORD_START" /\ RowsSoFar(p, s) /\ r.pos = p.end
      BY <2>5 DEF s, r
    <3>2. t \in CallsOf(p)
      BY <2>3 DEF t
    <3>3. CASE s.out = "newline_error"
      BY <2>10, <3>2, <3>3
    <3>4. CASE s.out = "running" /\ RowsSoFar(p, s)
      BY <2>8, <2>10, <3>2, <3>4
    <3>5. CASE s.out = "end" /\ s.state = "RECORD_START" /\ RowsSoFar(p, s) /\ r.pos = p.end
      BY <2>9, <2>10, <3>2, <3>5
    <3>6. QED  BY <3>1, <3>3, <3>4, <3>5
  <2>12. QED  BY <2>11 DEF t
<1> HIDE DEF Good
<1>4. call \in Good
  BY <1>2, <1>3 DEF Passes
<1>5. call \in CallsOf(p) /\ AtEnd(call) /\ InStep(call)
  BY <1>4 DEF Good
<1>6. QED  BY <1>5 DEF Reaches

----------------------------------------------------------------------------
(* The searches in a buffer, which may end without a newline.               *)

(* find_next_newline finds a position, and goes forward within the buffer.  *)
LEMMA FindNewlineForward ==
  ASSUME NEW src, Len(src) \in Nat \ {0}, NEW pos \in Nat
  PROVE  /\ FindNewline(src, pos) \in Nat \X {"lf", "cr"}
         /\ pos < Len(src) => FindNewline(src, pos)[1] >= pos
         /\ pos >= Len(src) => FindNewline(src, pos)[1] = Len(src) - 1
         /\ FindNextNewline(src, pos)[1] \in Nat
         /\ \A quoted \in BOOLEAN :
              FindNextNonQuotedNewline(src, pos, quoted)[1] \in Nat
<1> DEFINE last == Len(src) - 1
<1>1. last \in Nat /\ Len(src) \in Nat
  OBVIOUS
<1>2. \A q \in Nat : \A end :
        /\ NewlineAt(src, q, end) \in Nat \X {"lf", "cr"}
        /\ NewlineAt(src, q, end)[1] >= q
  BY DEF NewlineAt
<1>3. /\ FindNextNewline(src, pos) \in Nat \X {"lf", "cr"}
      /\ pos < Len(src) => FindNextNewline(src, pos)[1] >= pos
      /\ pos >= Len(src) => FindNextNewline(src, pos)[1] = last
  <2>1. CASE pos >= Len(src)
    BY <1>1, <2>1 DEF FindNextNewline
  <2>2. CASE ~(pos >= Len(src))
    <3>1. FirstOf(src, pos, {"lf", "cr"}) \in pos .. Len(src)
      BY <1>1, <2>2, FirstOfStops
    <3>2. FindNextNewline(src, pos) = NewlineAt(src, FirstOf(src, pos, {"lf", "cr"}), Len(src))
      BY <2>2 DEF FindNextNewline
    <3>3. FirstOf(src, pos, {"lf", "cr"}) \in Nat /\ FirstOf(src, pos, {"lf", "cr"}) >= pos
      BY <1>1, <3>1
    <3> DEFINE q == FirstOf(src, pos, {"lf", "cr"})
    <3> HIDE DEF q
    <3>4. FindNextNewline(src, pos) \in Nat \X {"lf", "cr"} /\ FindNextNewline(src, pos)[1] >= q
      BY <1>2, <3>2, <3>3 DEF q
    <3>5. QED  BY <2>2, <3>3, <3>4 DEF q
  <2>3. QED  BY <2>1, <2>2
<1>4. ASSUME NEW quoted \in BOOLEAN
      PROVE  LET nl == FindNextNonQuotedNewline(src, pos, quoted)
             IN  /\ nl \in Nat \X {"lf", "cr"}
                 /\ pos < Len(src) => nl[1] >= pos
                 /\ pos >= Len(src) => nl[1] = last
  <2> DEFINE hits == {q \in pos .. last :
                        /\ At(src, q) \in {"lf", "cr"}
                        /\ quoted => ~InQuote(src, pos, q)
                        /\ q = last =>
                             q > pos /\ At(src, q - 1) \notin {"lf", "cr", "quote"}}
             nl   == FindNextNonQuotedNewline(src, pos, quoted)
  <2>1. nl = IF hits = {} THEN <<last, "lf">> ELSE NewlineAt(src, Min(hits), last)
    BY DEF FindNextNonQuotedNewline
  <2>2. hits \subseteq pos .. last
    OBVIOUS
  <2>3. ASSUME hits # {} PROVE Min(hits) \in pos .. last
    <3> HIDE DEF hits
    <3>1. hits \in SUBSET Nat
      BY <1>1, <2>2
    <3>2. PICK first \in hits : \A q \in hits : first <= q
      BY <2>3, <3>1, LeastElement
    <3>3. Min(hits) \in hits
      BY <3>2 DEF Min
    <3>4. QED  BY <2>2, <3>3
  <2> HIDE DEF hits, nl
  <2>4. CASE hits = {}
    BY <1>1, <2>1, <2>4 DEF nl
  <2>5. CASE hits # {}
    <3>1. Min(hits) \in Nat /\ Min(hits) >= pos /\ pos < Len(src)
      BY <1>1, <2>3, <2>5
    <3>2. nl \in Nat \X {"lf", "cr"} /\ nl[1] >= Min(hits)
      BY <1>2, <2>1, <2>5, <3>1
    <3>3. nl[1] \in Nat
      BY <3>2
    <3>4. QED  BY <3>1, <3>2, <3>3 DEF nl
  <2>6. QED  BY <2>4, <2>5
<1>5. QED  BY <1>3, <1>4 DEF FindNewline

(* The lines that find_first_line comes to, one after the other, until one  *)
(* is not to be skipped.                                                    *)
Lines(src, skip) ==
  {line \in [0 .. Len(src) -> Nat] :
     /\ line[0] = 0
     /\ \A n \in 1 .. Len(src) :
          line[n] = IF SkipsLine(src, line[n - 1], skip - (n - 1))
                    THEN NextLine(src, line[n - 1]) ELSE line[n - 1]}

(* It returns the last of them. *)
LEMMA FindFirstLineLines ==
  ASSUME NEW src, Len(src) \in Nat \ {0}, NEW skip
  PROVE  \E line \in Lines(src, skip) : FindFirstLine(src, skip) = line[Len(src)]
<1> DEFINE N         == Len(src)
           go(pos, n) == IF SkipsLine(src, pos, skip - n) THEN NextLine(src, pos) ELSE pos
           Body(f) ==
             [n \in 0 .. N |->
                IF n = 0 THEN 0
                ELSE CHOOSE pos \in {go(before, n - 1) : before \in {f[n - 1]}} : TRUE]
           line == CHOOSE f : f = Body(f)
<1>1. FindFirstLine(src, skip) = line[N]
  BY DEF FindFirstLine
<1>2. \A pos \in Nat : \A n : go(pos, n) \in Nat
  <2>1. \A pos \in Nat : NextLine(src, pos) \in Nat
    <3> SUFFICES ASSUME NEW pos \in Nat PROVE NextLine(src, pos) \in Nat
      OBVIOUS
    <3>1. FindNextNewline(src, pos)[1] \in Nat
      BY FindNewlineForward
    <3>2. FindNextNonQuotedNewline(src, pos, ~IsCommentLine(src, pos))[1] \in Nat
      BY FindNewlineForward DEF IsCommentLine
    <3>3. QED  BY <3>1, <3>2 DEF NextLine
  <2>2. QED  BY <2>1
<1>3. N \in Nat
  OBVIOUS
<1> HIDE DEF N, go
<1>4. \A c, n : (CHOOSE pos \in {go(before, n) : before \in {c}} : TRUE) = go(c, n)
  OBVIOUS
<1>5. \E f : f = Body(f)
  <2> DEFINE next == [x \in (1 .. N) \X Nat |-> go(x[2], x[1] - 1)]
  <2>1. next \in [(1 .. N) \X Nat -> Nat]
    BY <1>2
  <2>2. PICK f \in [0 .. N -> Nat] :
          f[0] = 0 /\ \A n \in 1 .. N : f[n] = next[<<n, f[n - 1]>>]
    <3> HIDE DEF next
    <3>1. Iterations(N, Nat, 0, next) # {}
      BY <1>3, <2>1, Recursion
    <3>2. QED  BY <3>1 DEF Iterations
  <2>3. \A n \in 1 .. N : f[n] = go(f[n - 1], n - 1)
    <3> SUFFICES ASSUME NEW n \in 1 .. N PROVE f[n] = go(f[n - 1], n - 1)
      OBVIOUS
    <3>1. n - 1 \in 0 .. N
      BY <1>3
    <3>2. f[n - 1] \in Nat
      BY <2>2, <3>1
    <3>3. next[<<n, f[n - 1]>>] = go(f[n - 1], n - 1)
      BY <3>2
    <3>4. QED  BY <2>2, <3>3
  <2>4. \A n \in 0 .. N : f[n] = Body(f)[n]
    <3> SUFFICES ASSUME NEW n \in 0 .. N PROVE f[n] = Body(f)[n]
      OBVIOUS
    <3>1. CASE n = 0
      BY <2>2, <3>1
    <3>2. CASE n # 0
      <4>1. f[n] = go(f[n - 1], n - 1)
        BY <1>3, <2>3, <3>2
      <4>2. QED  BY <1>4, <3>2, <4>1
    <3>3. QED  BY <3>1, <3>2
  <2>5. f = [n \in 0 .. N |-> f[n]]
    BY <2>2
  <2>6. f = Body(f)
    BY <2>4, <2>5
  <2> HIDE DEF Body
  <2>7. QED  BY <2>6
<1>6. line = Body(line)
  BY <1>5
<1>7. line[0] = 0 /\ \A n \in 1 .. N : line[n] = go(line[n - 1], n - 1)
  <2> HIDE DEF line
  <2>1. line[0] = 0
    BY <1>3, <1>6
  <2>2. ASSUME NEW n \in 1 .. N PROVE line[n] = go(line[n - 1], n - 1)
    <3>1. line[n] = CHOOSE pos \in {go(before, n - 1) : before \in {line[n - 1]}} : TRUE
      BY <1>3, <1>6
    <3>2. QED  BY <1>4, <3>1
  <2>3. QED  BY <2>1, <2>2
<1> HIDE DEF line
<1>8. \A n \in 0 .. N : line[n] \in Nat
  <2>1. line[0] \in Nat /\ \A n \in 1 .. N : line[n - 1] \in Nat => line[n] \in Nat
    BY <1>2, <1>7
  <2>2. QED  BY <1>3, <2>1, Iteration
<1>9. line \in [0 .. N -> Nat]
  <2> HIDE DEF line
  <2>1. line = [n \in 0 .. N |-> line[n]]
    BY <1>6
  <2>2. QED  BY <1>8, <2>1
<1>10. line \in Lines(src, skip)
  BY <1>7, <1>9 DEF Lines, N, go
<1>11. QED  BY <1>1, <1>10 DEF N

(* So it finds a position. *)
LEMMA FindFirstLineForward ==
  ASSUME NEW src, Len(src) \in Nat \ {0}, NEW skip
  PROVE  FindFirstLine(src, skip) \in Nat
<1>1. PICK line \in Lines(src, skip) : FindFirstLine(src, skip) = line[Len(src)]
  BY FindFirstLineLines
<1>2. QED  BY <1>1 DEF Lines

(* A line that is not to be skipped is the last one. *)
LEMMA FirstLineFound ==
  ASSUME NEW src, Len(src) \in Nat, NEW skip \in Nat, NEW line \in Lines(src, skip),
         NEW n \in 0 .. Len(src), ~SkipsLine(src, line[n], skip - n)
  PROVE  line[Len(src)] = line[n]
<1> DEFINE N    == Len(src)
           same == {m \in 0 .. N : m >= n => line[m] = line[n]}
<1>1. 0 \in same
  OBVIOUS
<1>2. ASSUME NEW m \in 1 .. N, m - 1 \in same PROVE m \in same
  <2> SUFFICES ASSUME m >= n PROVE line[m] = line[n]
    OBVIOUS
  <2>1. CASE m = n
    BY <2>1
  <2>2. CASE m # n
    <3>1. line[m - 1] = line[n] /\ m - 1 >= n
      BY <1>2, <2>2
    <3>2. skip - (m - 1) > 0 => skip - n > 0
      BY <3>1
    <3>3. ~SkipsLine(src, line[n], skip - (m - 1))
      BY <3>2 DEF SkipsLine
    <3>4. line[m] = IF SkipsLine(src, line[m - 1], skip - (m - 1))
                    THEN NextLine(src, line[m - 1]) ELSE line[m - 1]
      BY DEF Lines
    <3>5. QED  BY <3>1, <3>3, <3>4
  <2>3. QED  BY <2>1, <2>2
<1> HIDE DEF same
<1>3. \A m \in 0 .. N : m \in same
  BY <1>1, <1>2, UpTo
<1>4. QED  BY <1>3 DEF same

(* A whole call keeps the types too, and leaves nothing in its destination  *)
(* but where it looked, and what an escape makes of that.                   *)
LEMMA RunRegionLocals ==
  ASSUME NEW src, Len(src) \in Nat, NEW p \in CallType,
         p.end <= Len(src), p.start <= p.end + 1,
         NEW Places, NEW entry \in LocalsType,
         entry.pos < p.end => entry.last_tick <= p.end,
         entry.destination \in Seq(Places),
         \A pos \in Nat : pos < p.end => pos + p.file_offset \in Places,
         \A pos \in Nat : pos < p.end /\ EscapeBackslash /\ At(src, pos) = "bslash" =>
                            pos + 1 + p.file_offset \in Places
  PROVE  LET r == RunRegion(src, p, entry).locals
         IN  /\ r \in LocalsType
             /\ r.pos < p.end => r.last_tick <= p.end
             /\ r.destination \in Seq(Places)
<1> DEFINE Good  == {r \in LocalsType : /\ r.pos < p.end => r.last_tick <= p.end
                                        /\ r.destination \in Seq(Places)}
           Found == Seq([position : Nat, column : Nat])
           Calls == [locals : Good, errors : Found]
<1>1. p.end - p.start + 1 \in Nat
  BY CallFields
<1>2. Entered(entry) \in Calls
  BY DEF Entered
<1>3. ASSUME NEW r \in Good PROVE IndexStep(src, p, r) \in Good
  <2>1. /\ r \in LocalsType /\ r.destination \in Seq(Places)
        /\ r.pos < p.end => r.last_tick <= p.end
    BY <1>3
  <2>2. r.pos \in Nat
    BY <2>1, LocalsFields
  <2>3. /\ IndexStep(src, p, r) \in LocalsType
        /\ IndexStep(src, p, r).pos < p.end => IndexStep(src, p, r).last_tick <= p.end
    BY <2>1, StepLocals
  <2>4. /\ r.pos < p.end => r.pos + p.file_offset \in Places
        /\ r.pos < p.end /\ EscapeBackslash /\ At(src, r.pos) = "bslash" =>
             r.pos + 1 + p.file_offset \in Places
    BY <2>2
  <2>5. IndexStep(src, p, r).destination \in Seq(Places)
    BY <2>1, <2>4, StepPushes
  <2>6. QED  BY <2>3, <2>5
<1>4. ASSUME NEW call \in Calls
      PROVE  Turn(src, p, call) \in Calls
  <2>1. call.locals \in Good /\ call.errors \in Found
    BY <1>4
  <2>2. ParseErrors(src, p, call.locals) \in Found
    BY <2>1, ParseErrorsType
  <2>3. \A S : \A e, f \in Seq(S) : e \o f \in Seq(S)
    OBVIOUS
  <2>4. call.errors \o ParseErrors(src, p, call.locals) \in Found
    BY <2>1, <2>2, <2>3
  <2>5. IndexStep(src, p, call.locals) \in Good
    BY <1>3, <2>1
  <2> HIDE DEF Good, Found
  <2>6. QED  BY <2>4, <2>5 DEF Turn
<1> HIDE DEF Calls
<1>5. RunRegion(src, p, entry) \in Calls
  BY <1>1, <1>2, <1>4, RunRegionStays
<1>6. RunRegion(src, p, entry).locals \in Good
  BY <1>5 DEF Calls
<1>7. QED  BY <1>6

(* A buffer that ends in a null character. *)
LEMMA NulFacts ==
  ASSUME NEW s \in Seq(Char)
  PROVE  /\ Append(s, "nul") \in Seq(Char \union {"nul"})
         /\ Len(Append(s, "nul")) = Len(s) + 1
         /\ Append(s, "nul")[Len(s) + 1] = "nul"
         /\ \A k \in 1 .. Len(s) : Append(s, "nul")[k] = s[k]
<1>1. s \in Seq(Char \union {"nul"})
  OBVIOUS
<1>2. QED  BY <1>1

(* The least of two numbers.                                               *)
LEMMA LeastOfTwo ==
  ASSUME NEW a \in Nat, NEW b \in Nat
  PROVE  Min({a, b}) \in {a, b} /\ Min({a, b}) <= a /\ Min({a, b}) <= b
<1>1. \E x \in {a, b} : \A y \in {a, b} : x <= y
  OBVIOUS
<1>2. Min({a, b}) \in {a, b} /\ \A y \in {a, b} : Min({a, b}) <= y
  BY <1>1 DEF Min
<1>3. QED  BY <1>2

----------------------------------------------------------------------------
(* A buffer with the beginning of a file.                                   *)

(* A buffer holds the first characters of a longer file and then a null     *)
(* character.  It does not end between the characters of a Windows newline. *)
Begins(chunk, src) ==
  /\ Len(src) \in Nat /\ Len(chunk) \in Nat \ {0} /\ Len(chunk) <= Len(src)
  /\ \A q \in Nat : q < Len(chunk) - 1 => At(chunk, q) = At(src, q)
  /\ At(chunk, Len(chunk) - 1) = "nul"
  /\ Len(chunk) > 1 =>
       ~(At(src, Len(chunk) - 2) = "cr" /\ At(src, Len(chunk) - 1) = "lf")

(* What strcspn finds in it is what it finds in the file.                   *)
LEMMA FirstOfBegins ==
  ASSUME NEW chunk, NEW src, Begins(chunk, src), NEW pos \in Nat, pos < Len(chunk) - 1,
         NEW chars, "nul" \notin chars
  PROVE  LET size == Len(chunk) - 1
             a    == FirstOf(chunk, pos, chars)
             b    == FirstOf(src, pos, chars)
         IN  /\ a \in Nat /\ b \in Nat /\ a >= pos /\ b >= pos
             /\ \/ a = b /\ a < size /\ At(chunk, a) \in chars
                \/ a >= size /\ b >= size
             /\ \A k \in pos .. (size - 1) : k < a => At(chunk, k) \notin chars
<1> DEFINE size == Len(chunk) - 1
           a    == FirstOf(chunk, pos, chars)
           b    == FirstOf(src, pos, chars)
<1>1. /\ size \in Nat /\ Len(src) \in Nat /\ size < Len(src) /\ pos < size
      /\ \A q \in Nat : q < size => At(chunk, q) = At(src, q)
      /\ Len(chunk) = size + 1
  BY DEF Begins
<1>2. /\ a \in pos .. Len(chunk)
      /\ a = Len(chunk) \/ At(chunk, a) \in chars
      /\ \A k \in pos .. (a - 1) : At(chunk, k) \notin chars
  BY <1>1, FirstOfStops
<1>3. /\ b \in pos .. Len(src)
      /\ b = Len(src) \/ At(src, b) \in chars
      /\ \A k \in pos .. (b - 1) : At(src, k) \notin chars
  BY <1>1, FirstOfStops
<1> HIDE DEF a, b, size
<1>4. a \in Nat /\ b \in Nat /\ a >= pos /\ b >= pos
  BY <1>1, <1>2, <1>3
<1>5. CASE a < size
  <2>1. At(chunk, a) \in chars /\ At(src, a) \in chars
    BY <1>1, <1>2, <1>4, <1>5
  <2>2. b <= a
    BY <1>3, <1>4, <2>1
  <2>3. ASSUME b < a PROVE FALSE
    <3>1. At(src, b) \in chars /\ At(chunk, b) \in chars /\ b \in pos .. (a - 1)
      BY <1>1, <1>3, <1>4, <1>5, <2>3
    <3>2. QED  BY <1>2, <3>1
  <2>4. a = b
    BY <1>4, <2>2, <2>3
  <2>5. \A k \in pos .. (size - 1) : k < a => At(chunk, k) \notin chars
    BY <1>1, <1>2, <1>4
  <2>6. QED  BY <1>4, <1>5, <2>1, <2>4, <2>5 DEF a, b, size
<1>6. CASE a >= size
  <2>1. CASE b < size
    <3>1. At(src, b) \in chars /\ At(chunk, b) \in chars /\ b \in pos .. (a - 1)
      BY <1>1, <1>3, <1>4, <1>6, <2>1
    <3>2. QED  BY <1>2, <3>1
  <2>2. \A k \in pos .. (size - 1) : k < a => At(chunk, k) \notin chars
    BY <1>1, <1>2, <1>4
  <2>3. QED  BY <1>1, <1>4, <1>6, <2>1, <2>2 DEF a, b, size
<1>7. QED  BY <1>1, <1>4, <1>5, <1>6

(* Two searches for a newline, one in the buffer and one in the file, find   *)
(* the same one, or none in the buffer.                                     *)
SameNewline(chunk, pos, a, b) ==
  LET size == Len(chunk) - 1
  IN  /\ a[1] \in Nat /\ b[1] \in Nat
      /\ \/ /\ a = b /\ pos <= a[1] /\ a[1] < size
            /\ \/ At(chunk, a[1]) = "lf"
               \/ At(chunk, a[1]) = "cr" /\ a[2] = "cr"
         \/ a[1] >= size /\ b[1] >= size

LEMMA NewlineAtBegins ==
  ASSUME NEW chunk, NEW src, Begins(chunk, src), NEW pos \in Nat, NEW q \in Nat,
         pos <= q, q < Len(chunk) - 1, At(chunk, q) \in {"lf", "cr"},
         NEW d \in {0, 1}
  PROVE  SameNewline(chunk, pos, NewlineAt(chunk, q, Len(chunk) - d),
                     NewlineAt(src, q, Len(src) - d))
<1> DEFINE size == Len(chunk) - 1
<1>1. /\ size \in Nat /\ Len(src) \in Nat /\ size < Len(src) /\ q < size
      /\ Len(chunk) \in Nat /\ Len(chunk) = size + 1
      /\ At(chunk, q) = At(src, q)
      /\ q + 1 < size => At(chunk, q + 1) = At(src, q + 1)
      /\ At(chunk, size) = "nul"
  BY DEF Begins
<1>2. q + 1 = size => ~(At(src, q) = "cr" /\ At(src, q + 1) = "lf")
  <2> SUFFICES ASSUME q + 1 = size PROVE ~(At(src, q) = "cr" /\ At(src, q + 1) = "lf")
    OBVIOUS
  <2>1. q = Len(chunk) - 2 /\ q + 1 = Len(chunk) - 1 /\ Len(chunk) > 1
    <3> HIDE DEF size
    <3>1. QED  BY <1>1
  <2>2. QED  BY <2>1 DEF Begins
<1> HIDE DEF size
<1> DEFINE a == NewlineAt(chunk, q, Len(chunk) - d)
           b == NewlineAt(src, q, Len(src) - d)
<1>3. CASE At(chunk, q) = "lf"
  <2>1. a = <<q, "lf">> /\ b = <<q, "lf">>
    BY <1>1, <1>3 DEF NewlineAt
  <2> HIDE DEF a, b
  <2>2. a[1] = q /\ a = b
    BY <2>1
  <2>3. SameNewline(chunk, pos, a, b)
    BY <1>1, <1>3, <2>2 DEF SameNewline, size
  <2>4. QED  BY <2>3 DEF a, b
<1>4. CASE At(chunk, q) = "cr" /\ q + 1 < size /\ At(chunk, q + 1) = "lf"
  <2>1. a = <<q + 1, "lf">> /\ b = <<q + 1, "lf">>
    BY <1>1, <1>4 DEF NewlineAt
  <2> HIDE DEF a, b
  <2>2. a[1] = q + 1 /\ a = b
    BY <2>1
  <2>3. SameNewline(chunk, pos, a, b)
    BY <1>1, <1>4, <2>2 DEF SameNewline, size
  <2>4. QED  BY <2>3 DEF a, b
<1>5. CASE At(chunk, q) = "cr" /\ ~(q + 1 < size /\ At(chunk, q + 1) = "lf")
  <2>1. q + 1 < size \/ q + 1 = size
    BY <1>1
  <2>2. At(chunk, q + 1) # "lf" /\ At(src, q + 1) # "lf"
    BY <1>1, <1>2, <1>5, <2>1
  <2>3. a = <<q, "cr">> /\ b = <<q, "cr">>
    BY <1>1, <1>5, <2>2 DEF NewlineAt
  <2>4. QED  BY <1>1, <1>5, <2>3 DEF SameNewline, size
<1>6. QED  BY <1>3, <1>4, <1>5

LEMMA NewlineAtForward ==
  ASSUME NEW src, NEW q \in Nat, NEW end
  PROVE  NewlineAt(src, q, end)[1] \in Nat /\ NewlineAt(src, q, end)[1] >= q
BY DEF NewlineAt

(* find_next_newline without quotes.                                        *)
LEMMA FindNextNewlineBegins ==
  ASSUME NEW chunk, NEW src, Begins(chunk, src), NEW pos \in Nat
  PROVE  SameNewline(chunk, pos, FindNextNewline(chunk, pos), FindNextNewline(src, pos))
<1> DEFINE size == Len(chunk) - 1
           p    == FirstOf(chunk, pos, {"lf", "cr"})
           q    == FirstOf(src, pos, {"lf", "cr"})
<1>1. size \in Nat /\ Len(src) \in Nat /\ size < Len(src) /\ Len(chunk) = size + 1
  BY DEF Begins
<1>2. CASE pos < size
  <2>1. /\ p \in Nat /\ q \in Nat /\ p >= pos
        /\ \/ p = q /\ p < size /\ At(chunk, p) \in {"lf", "cr"}
           \/ p >= size /\ q >= size
    BY <1>2, FirstOfBegins
  <2>2. /\ FindNextNewline(chunk, pos) = NewlineAt(chunk, p, Len(chunk))
        /\ FindNextNewline(src, pos) = NewlineAt(src, q, Len(src))
    BY <1>1, <1>2 DEF FindNextNewline
  <2> HIDE DEF p, q
  <2>3. CASE p = q /\ p < size /\ At(chunk, p) \in {"lf", "cr"}
    <3>1. SameNewline(chunk, pos, NewlineAt(chunk, p, Len(chunk) - 0),
                      NewlineAt(src, p, Len(src) - 0))
      BY <2>1, <2>3, NewlineAtBegins
    <3>2. Len(chunk) - 0 = Len(chunk) /\ Len(src) - 0 = Len(src)
      BY <1>1
    <3>3. QED  BY <2>2, <2>3, <3>1, <3>2
  <2>4. CASE p >= size /\ q >= size
    <3>1. /\ NewlineAt(chunk, p, Len(chunk))[1] \in Nat
          /\ NewlineAt(chunk, p, Len(chunk))[1] >= p
          /\ NewlineAt(src, q, Len(src))[1] \in Nat
          /\ NewlineAt(src, q, Len(src))[1] >= q
      BY <2>1, NewlineAtForward
    <3>2. QED  BY <1>1, <2>1, <2>2, <2>4, <3>1 DEF SameNewline
  <2>5. QED  BY <2>1, <2>3, <2>4
<1>3. CASE pos >= size
  <2>1. /\ FindNextNewline(chunk, pos)[1] \in Nat /\ FindNextNewline(src, pos)[1] \in Nat
        /\ FindNextNewline(chunk, pos)[1] >= size /\ FindNextNewline(src, pos)[1] >= size
    <3>1. ASSUME NEW s, Len(s) \in Nat, Len(s) > size
          PROVE  FindNextNewline(s, pos)[1] \in Nat /\ FindNextNewline(s, pos)[1] >= size
      <4>1. CASE pos >= Len(s)
        BY <1>1, <3>1, <4>1 DEF FindNextNewline
      <4>2. CASE pos < Len(s)
        <5>1. FirstOf(s, pos, {"lf", "cr"}) \in pos .. Len(s)
          BY <3>1, <4>2, FirstOfStops
        <5>2. PICK k \in Nat : k = FirstOf(s, pos, {"lf", "cr"}) /\ k >= pos
          BY <5>1
        <5>3. FindNextNewline(s, pos) = NewlineAt(s, k, Len(s))
          BY <3>1, <4>2, <5>2 DEF FindNextNewline
        <5>4. QED  BY <1>1, <1>3, <5>2, <5>3, NewlineAtForward
      <4>3. QED  BY <3>1, <4>1, <4>2
    <3>2. QED  BY <1>1, <3>1
  <2>2. QED  BY <2>1 DEF SameNewline
<1>4. QED  BY <1>1, <1>2, <1>3

(* The first of some positions is the one that Min chooses. *)
LEMMA MinIsFirst ==
  ASSUME NEW S \in SUBSET Nat, NEW m \in S, \A q \in S : m <= q
  PROVE  Min(S) = m
<1>1. \A x \in S : (\A y \in S : x <= y) => x = m
  <2> SUFFICES ASSUME NEW x \in S, \A y \in S : x <= y PROVE x = m
    OBVIOUS
  <2>1. x \in Nat /\ m \in Nat /\ x <= m /\ m <= x
    OBVIOUS
  <2>2. QED  BY <2>1
<1>2. QED  BY <1>1 DEF Min

(* Where find_next_newline may stop, with or without a look at quotes.      *)
Hits(src, pos, quoted) ==
  LET last == Len(src) - 1
  IN  {q \in pos .. last :
         /\ At(src, q) \in {"lf", "cr"}
         /\ quoted => ~InQuote(src, pos, q)
         /\ q = last =>
              q > pos /\ At(src, q - 1) \notin {"lf", "cr", "quote"}}

LEMMA HitsBegin ==
  ASSUME NEW chunk, NEW src, Begins(chunk, src), NEW pos \in Nat, NEW quoted \in BOOLEAN,
         NEW q \in Nat, q < Len(chunk) - 1
  PROVE  q \in Hits(chunk, pos, quoted) <=> q \in Hits(src, pos, quoted)
<1> DEFINE size == Len(chunk) - 1
<1>1. /\ size \in Nat /\ Len(src) \in Nat /\ size < Len(src) /\ Len(chunk) = size + 1
      /\ \A k \in Nat : k < size => At(chunk, k) = At(src, k)
      /\ q < size
  BY DEF Begins
<1> HIDE DEF size
<1>2. InQuote(chunk, pos, q) = InQuote(src, pos, q)
  <2>1. \A k \in pos .. (q - 1) : k \in Nat /\ k < size
    BY <1>1
  <2>2. {k \in pos .. (q - 1) : At(chunk, k) = "quote"}
          = {k \in pos .. (q - 1) : At(src, k) = "quote"}
    BY <1>1, <2>1
  <2>3. QED  BY <2>2 DEF InQuote
<1>3. At(chunk, q) = At(src, q) /\ q # Len(chunk) - 1 /\ q # Len(src) - 1
  BY <1>1
<1>4. q \in pos .. (Len(chunk) - 1) <=> q \in pos .. (Len(src) - 1)
  BY <1>1
<1>5. QED  BY <1>2, <1>3, <1>4 DEF Hits

LEMMA NonQuotedNewlineBegins ==
  ASSUME NEW chunk, NEW src, Begins(chunk, src), NEW pos \in Nat, NEW quoted \in BOOLEAN
  PROVE  SameNewline(chunk, pos, FindNextNonQuotedNewline(chunk, pos, quoted),
                     FindNextNonQuotedNewline(src, pos, quoted))
<1> DEFINE size == Len(chunk) - 1
           H == Hits(chunk, pos, quoted)
           J == Hits(src, pos, quoted)
           a == FindNextNonQuotedNewline(chunk, pos, quoted)
           b == FindNextNonQuotedNewline(src, pos, quoted)
<1>1. /\ size \in Nat /\ Len(src) \in Nat /\ size < Len(src) /\ Len(chunk) = size + 1
      /\ At(chunk, size) = "nul" /\ Len(chunk) \in Nat
  BY DEF Begins
<1>2. /\ a = IF H = {} THEN <<Len(chunk) - 1, "lf">>
             ELSE NewlineAt(chunk, Min(H), Len(chunk) - 1)
      /\ b = IF J = {} THEN <<Len(src) - 1, "lf">>
             ELSE NewlineAt(src, Min(J), Len(src) - 1)
  BY DEF FindNextNonQuotedNewline, Hits
<1>3. H \in SUBSET Nat /\ J \in SUBSET Nat
  BY <1>1 DEF Hits
<1>4. \A q \in H : q < size /\ pos <= q /\ At(chunk, q) \in {"lf", "cr"}
  <2> SUFFICES ASSUME NEW q \in H
               PROVE  q < size /\ pos <= q /\ At(chunk, q) \in {"lf", "cr"}
    OBVIOUS
  <2>1. q \in pos .. (Len(chunk) - 1) /\ At(chunk, q) \in {"lf", "cr"}
    BY DEF Hits
  <2> HIDE DEF H, size
  <2>2. q # size
    BY <1>1, <2>1
  <2>3. QED  BY <1>1, <2>1, <2>2
<1>5. \A q \in Nat : q < size => (q \in H <=> q \in J)
  BY HitsBegin
<1> HIDE DEF a, b, H, J, size
<1>6. CASE H # {}
  <2>1. PICK m \in H : \A q \in H : m <= q
    BY <1>3, <1>6, LeastElement
  <2>2. m \in Nat /\ m < size /\ pos <= m /\ At(chunk, m) \in {"lf", "cr"}
    BY <1>3, <1>4
  <2>3. m \in J /\ \A q \in J : m <= q
    <3>1. m \in J
      BY <1>5, <2>2
    <3>2. ASSUME NEW q \in J, q < m PROVE FALSE
      <4>1. q \in Nat /\ q < size
        BY <1>1, <1>3, <2>2, <3>2
      <4>2. q \in H
        BY <1>5, <4>1, <3>2
      <4>3. QED  BY <2>1, <2>2, <3>2, <4>1, <4>2
    <3>3. QED  BY <1>3, <2>2, <3>1, <3>2
  <2>4. Min(H) = m /\ Min(J) = m
    BY <1>3, <2>1, <2>3, MinIsFirst
  <2>5. a = NewlineAt(chunk, m, Len(chunk) - 1) /\ b = NewlineAt(src, m, Len(src) - 1)
    BY <1>2, <1>6, <2>3, <2>4
  <2>6. m < Len(chunk) - 1
    BY <1>1, <2>2
  <2>7. QED  BY <2>2, <2>5, <2>6, NewlineAtBegins DEF a, b
<1>7. CASE H = {}
  <2>1. a[1] = size
    BY <1>1, <1>2, <1>7
  <2>2. b[1] \in Nat /\ b[1] >= size
    <3>1. CASE J = {}
      BY <1>1, <1>2, <3>1
    <3>2. CASE J # {}
      <4>1. PICK m \in J : \A q \in J : m <= q
        BY <1>3, <3>2, LeastElement
      <4>2. m \in Nat /\ m >= size /\ Min(J) = m
        BY <1>1, <1>3, <1>5, <1>7, <4>1, MinIsFirst
      <4>3. b = NewlineAt(src, m, Len(src) - 1)
        BY <1>2, <3>2, <4>2
      <4>4. b[1] \in Nat /\ b[1] >= m
        BY <4>2, <4>3, NewlineAtForward
      <4>5. QED  BY <1>1, <4>2, <4>4
    <3>3. QED  BY <3>1, <3>2
  <2>3. QED  BY <1>1, <2>1, <2>2 DEF SameNewline, a, b, size
<1>8. QED  BY <1>6, <1>7

LEMMA FindNewlineBegins ==
  ASSUME NEW chunk, NEW src, Begins(chunk, src), NEW pos \in Nat
  PROVE  SameNewline(chunk, pos, FindNewline(chunk, pos), FindNewline(src, pos))
BY FindNextNewlineBegins, NonQuotedNewlineBegins DEF FindNewline

(* The rest of the buffer is on one line. *)
NoNewline(chunk, pos) == \A k \in pos .. (Len(chunk) - 2) : At(chunk, k) \notin {"lf", "cr"}

LEMMA NoNewlineFound ==
  ASSUME NEW chunk, Len(chunk) \in Nat, NEW pos \in Nat, NEW a, NEW b,
         SameNewline(chunk, pos, a, b), NoNewline(chunk, pos)
  PROVE  a[1] >= Len(chunk) - 1 /\ b[1] >= Len(chunk) - 1
<1>1. CASE pos <= a[1] /\ a[1] < Len(chunk) - 1 /\ At(chunk, a[1]) \in {"lf", "cr"}
  <2>1. a[1] \in pos .. (Len(chunk) - 2)
    BY <1>1 DEF SameNewline
  <2>2. QED  BY <1>1, <2>1 DEF NoNewline
<1>2. QED  BY <1>1 DEF SameNewline

(* Whether a line is blank or a comment is seen in the buffer, unless that   *)
(* ends first.                                                             *)
LEMMA KindBegins ==
  ASSUME NEW chunk, NEW src, Begins(chunk, src), NEW pos \in Nat, pos < Len(chunk) - 1
  PROVE  \/ /\ IsBlankLine(chunk, pos) = IsBlankLine(src, pos)
            /\ IsCommentLine(chunk, pos) = IsCommentLine(src, pos)
         \/ /\ ~IsBlankLine(chunk, pos) /\ ~IsCommentLine(chunk, pos)
            /\ NoNewline(chunk, pos)
<1> DEFINE ink  == Char \ {"blank"}
           size == Len(chunk) - 1
           a    == FirstOf(chunk, pos, ink)
           b    == FirstOf(src, pos, ink)
<1>1. /\ size \in Nat /\ Len(src) \in Nat /\ size < Len(src) /\ Len(chunk) = size + 1
      /\ \A k \in Nat : k < size => At(chunk, k) = At(src, k)
      /\ At(chunk, size) = "nul" /\ Len(chunk) \in Nat
  BY DEF Begins
<1>2. "nul" \notin ink /\ {"lf", "cr", "hash"} \subseteq ink
  BY DEF Char
<1>3. a = FirstNotOf(chunk, pos, {"blank"}) /\ b = FirstNotOf(src, pos, {"blank"})
  BY DEF FirstNotOf
<1> HIDE DEF ink
<1>4. /\ a \in Nat /\ b \in Nat
      /\ \/ a = b /\ a < size /\ At(chunk, a) \in ink
         \/ a >= size /\ b >= size
      /\ \A k \in pos .. (size - 1) : k < a => At(chunk, k) \notin ink
  BY <1>2, FirstOfBegins
<1> HIDE DEF a, b, size
<1>5. CASE a = b /\ a < size
  <2>1. At(chunk, a) = At(src, b)
    BY <1>1, <1>4, <1>5
  <2>2. QED  BY <1>3, <2>1 DEF IsBlankLine, IsCommentLine
<1>6. CASE a >= size
  <2>1. At(chunk, a) \in {"nul", "eof"}
    BY <1>1, <1>4, <1>6 DEF At
  <2>2. ~IsBlankLine(chunk, pos) /\ ~IsCommentLine(chunk, pos)
    BY <1>3, <2>1 DEF IsBlankLine, IsCommentLine
  <2>3. \A k \in pos .. (Len(chunk) - 2) : k \in pos .. (size - 1) /\ k < a
    BY <1>1, <1>4, <1>6
  <2>4. NoNewline(chunk, pos)
    BY <1>2, <1>4, <2>3 DEF NoNewline
  <2>5. QED  BY <2>2, <2>4
<1>7. QED  BY <1>4, <1>5, <1>6

(* Nor is the place where the next line starts another one.                 *)
LEMMA NextLineBegins ==
  ASSUME NEW chunk, NEW src, Begins(chunk, src), NEW pos \in Nat, pos < Len(chunk) - 1
  PROVE  LET a == NextLine(chunk, pos)
             b == NextLine(src, pos)
         IN  /\ a \in Nat /\ b \in Nat /\ a > pos
             /\ a = b \/ (a > Len(chunk) - 1 /\ b > Len(chunk) - 1)
             /\ NoNewline(chunk, pos) => b > Len(chunk) - 1
<1> DEFINE size == Len(chunk) - 1
           A == IF HasQuote
                THEN FindNextNonQuotedNewline(chunk, pos, ~IsCommentLine(chunk, pos))
                ELSE FindNextNewline(chunk, pos)
           B == IF HasQuote
                THEN FindNextNonQuotedNewline(src, pos, ~IsCommentLine(src, pos))
                ELSE FindNextNewline(src, pos)
           C == IF HasQuote
                THEN FindNextNonQuotedNewline(src, pos, ~IsCommentLine(chunk, pos))
                ELSE FindNextNewline(src, pos)
           D == IF HasQuote
                THEN FindNextNonQuotedNewline(chunk, pos, ~IsCommentLine(src, pos))
                ELSE FindNextNewline(chunk, pos)
<1>1. Len(chunk) \in Nat /\ size \in Nat /\ pos < size
  BY DEF Begins
<1>2. NextLine(chunk, pos) = 1 + A[1] /\ NextLine(src, pos) = 1 + B[1]
  BY DEF NextLine
<1>3. (~IsCommentLine(chunk, pos)) \in BOOLEAN /\ (~IsCommentLine(src, pos)) \in BOOLEAN
  OBVIOUS
<1>4. SameNewline(chunk, pos, A, C)
  <2>1. CASE HasQuote
    BY <1>3, <2>1, NonQuotedNewlineBegins
  <2>2. CASE ~HasQuote
    BY <2>2, FindNextNewlineBegins
  <2>3. QED  BY <2>1, <2>2
<1>5. SameNewline(chunk, pos, D, B)
  <2>1. CASE HasQuote
    BY <1>3, <2>1, NonQuotedNewlineBegins
  <2>2. CASE ~HasQuote
    BY <2>2, FindNextNewlineBegins
  <2>3. QED  BY <2>1, <2>2
<1>6. B = C \/ NoNewline(chunk, pos)
  <2>1. CASE IsCommentLine(chunk, pos) = IsCommentLine(src, pos)
    BY <2>1
  <2>2. QED  BY <2>1, KindBegins
<1> HIDE DEF A, B, C, D, size
<1>7. A[1] \in Nat /\ B[1] \in Nat
  BY <1>4, <1>5 DEF SameNewline
<1>8. A[1] >= pos
  BY <1>1, <1>4, <1>7 DEF SameNewline, size
<1>9. A[1] = B[1] \/ (A[1] >= size /\ B[1] >= size)
  <2>1. CASE B = C
    <3>1. SameNewline(chunk, pos, A, B)
      BY <1>4, <2>1
    <3>2. A = B \/ (A[1] >= size /\ B[1] >= size)
      BY <3>1 DEF SameNewline, size
    <3>3. QED  BY <3>2
  <2>2. CASE NoNewline(chunk, pos)
    BY <1>1, <1>4, <1>5, <2>2, NoNewlineFound DEF size
  <2>3. QED  BY <1>6, <2>1, <2>2
<1>10. NoNewline(chunk, pos) => B[1] >= size
  BY <1>1, <1>5, NoNewlineFound DEF size
<1>11. QED
  <2>1. \A n, s \in Nat : n >= s => 1 + n > s
    OBVIOUS
  <2>2. QED  BY <1>1, <1>2, <1>7, <1>8, <1>9, <1>10, <2>1 DEF size

(* One turn of find_first_line: it goes on to the next line, or stays.       *)
Turned(src, pos, skip) == IF SkipsLine(src, pos, skip) THEN NextLine(src, pos) ELSE pos

LEMMA TurnedForward ==
  ASSUME NEW src \in File, NEW pos \in Nat, NEW skip
  PROVE  Turned(src, pos, skip) \in Nat /\ Turned(src, pos, skip) >= pos
<1>1. CASE SkipsLine(src, pos, skip)
  <2>1. Len(src) \in Nat /\ pos < Len(src)
    BY <1>1 DEF SkipsLine, File
  <2>2. NextLine(src, pos) \in Nat /\ pos < NextLine(src, pos)
    BY <2>1, NextLineForward
  <2>3. QED  BY <1>1, <2>2 DEF Turned
<1>2. CASE ~SkipsLine(src, pos, skip)
  BY <1>2 DEF Turned
<1>3. QED  BY <1>1, <1>2

(* In the buffer it stays for good once the rest is on one line, and then    *)
(* the file has its first row behind the buffer.                            *)
Behind(chunk, src, a, b, skip) ==
  b >= Len(chunk) - 1 /\ NoNewline(chunk, a) /\ ~SkipsLine(chunk, a, skip)

LEMMA TurnedBegins ==
  ASSUME NEW chunk, NEW src \in File, Begins(chunk, src), NEW pos \in Nat, NEW skip \in Int
  PROVE  LET a == Turned(chunk, pos, skip)
             b == Turned(src, pos, skip)
         IN  /\ a \in Nat
             /\ a = b \/ Behind(chunk, src, a, b, skip - 1)
             /\ SkipsLine(chunk, pos, skip) => a > pos
<1> DEFINE size == Len(chunk) - 1
           a    == Turned(chunk, pos, skip)
           b    == Turned(src, pos, skip)
<1>1. /\ size \in Nat /\ Len(chunk) \in Nat /\ Len(src) \in Nat /\ size < Len(src)
  BY DEF Begins
<1>2. /\ SkipsLine(chunk, pos, skip) => a = NextLine(chunk, pos)
      /\ ~SkipsLine(chunk, pos, skip) => a = pos
      /\ SkipsLine(src, pos, skip) => b = NextLine(src, pos)
      /\ ~SkipsLine(src, pos, skip) => b = pos
  BY DEF Turned
<1>3. b \in Nat /\ b >= pos
  BY TurnedForward
<1>4. \A q \in Nat : q >= size => /\ NoNewline(chunk, q)
                                  /\ \A left : ~SkipsLine(chunk, q, left)
  BY <1>1 DEF NoNewline, SkipsLine
<1> HIDE DEF a, b, size
<1>5. CASE pos >= size
  <2>1. a = pos
    BY <1>2, <1>4, <1>5
  <2>2. b >= size
    BY <1>1, <1>3, <1>5
  <2>3. ~SkipsLine(chunk, pos, skip)
    BY <1>4, <1>5
  <2>4. Behind(chunk, src, a, b, skip - 1)
    BY <1>4, <1>5, <2>1, <2>2 DEF Behind, size
  <2>5. QED  BY <2>1, <2>3, <2>4 DEF a, b
<1>6. CASE pos < size
  <2>1. /\ SkipsLine(chunk, pos, skip) <=>
             skip > 0 \/ IsBlankLine(chunk, pos) \/ IsCommentLine(chunk, pos)
        /\ SkipsLine(src, pos, skip) <=>
             skip > 0 \/ IsBlankLine(src, pos) \/ IsCommentLine(src, pos)
    <3>1. pos < Len(chunk) - 1 /\ pos < Len(src) - 1
      BY <1>1, <1>6 DEF size
    <3>2. QED  BY <3>1 DEF SkipsLine
  <2>2. /\ NextLine(chunk, pos) \in Nat /\ NextLine(src, pos) \in Nat
        /\ NextLine(chunk, pos) > pos
        /\ \/ NextLine(chunk, pos) = NextLine(src, pos)
           \/ NextLine(chunk, pos) > size /\ NextLine(src, pos) > size
        /\ NoNewline(chunk, pos) => NextLine(src, pos) > size
    BY <1>6, NextLineBegins DEF size
  <2>3. CASE SkipsLine(chunk, pos, skip) /\ SkipsLine(src, pos, skip)
    <3>1. a = NextLine(chunk, pos) /\ b = NextLine(src, pos)
      BY <1>2, <2>3
    <3>2. a = b \/ Behind(chunk, src, a, b, skip - 1)
      <4> SUFFICES ASSUME a # b PROVE Behind(chunk, src, a, b, skip - 1)
        OBVIOUS
      <4>1. a >= size /\ b >= size /\ a \in Nat
        BY <1>1, <2>2, <3>1
      <4>2. QED  BY <1>4, <4>1 DEF Behind, size
    <3>3. QED  BY <2>2, <3>1, <3>2 DEF a, b
  <2>4. CASE ~SkipsLine(chunk, pos, skip) /\ ~SkipsLine(src, pos, skip)
    BY <1>2, <2>4 DEF a, b
  <2>5. CASE ~(SkipsLine(chunk, pos, skip) <=> SkipsLine(src, pos, skip))
    <3>1. ~(/\ IsBlankLine(chunk, pos) = IsBlankLine(src, pos)
            /\ IsCommentLine(chunk, pos) = IsCommentLine(src, pos))
      BY <2>1, <2>5
    <3>2. /\ ~(skip > 0) /\ NoNewline(chunk, pos)
          /\ ~IsBlankLine(chunk, pos) /\ ~IsCommentLine(chunk, pos)
      <4>1. pos < Len(chunk) - 1
        BY <1>6 DEF size
      <4>2. ~(skip > 0)
        BY <2>1, <2>5
      <4>3. QED  BY <3>1, <4>1, <4>2, KindBegins
    <3>3. ~SkipsLine(chunk, pos, skip) /\ SkipsLine(src, pos, skip)
      BY <2>1, <2>5, <3>2
    <3>4. a = pos /\ b = NextLine(src, pos)
      BY <1>2, <3>3
    <3>5. b >= size
      BY <1>1, <2>2, <3>2, <3>4
    <3>6. ~SkipsLine(chunk, pos, skip - 1)
      BY <3>2 DEF SkipsLine
    <3>7. Behind(chunk, src, a, b, skip - 1)
      BY <3>2, <3>4, <3>5, <3>6 DEF Behind, size
    <3>8. QED  BY <3>3, <3>4, <3>7 DEF a, b
  <2>6. QED  BY <2>3, <2>4, <2>5
<1>7. QED  BY <1>1, <1>5, <1>6

(* The lines that find_first_line comes to are one after the other.         *)
LEMMA LinesForward ==
  ASSUME NEW src \in File, NEW skip, NEW line \in Lines(src, skip), NEW n \in 0 .. Len(src)
  PROVE  line[Len(src)] >= line[n]
<1> DEFINE N     == Len(src)
           after == {m \in 0 .. N : m >= n => line[m] >= line[n]}
<1>1. N \in Nat /\ \A m \in 0 .. N : line[m] \in Nat
  <2>1. Len(src) \in Nat
    BY DEF File
  <2>2. line \in [0 .. Len(src) -> Nat]
    BY DEF Lines
  <2>3. QED  BY <2>1, <2>2
<1>2. 0 \in after
  BY <1>1
<1>3. ASSUME NEW m \in 1 .. N, m - 1 \in after PROVE m \in after
  <2>1. m - 1 \in 0 .. N /\ line[m - 1] \in Nat /\ line[n] \in Nat /\ line[m] \in Nat
    BY <1>1
  <2>2. line[m] = Turned(src, line[m - 1], skip - (m - 1))
    BY DEF Lines, Turned
  <2>3. line[m] >= line[m - 1]
    BY <2>1, <2>2, TurnedForward
  <2>4. m - 1 >= n => line[m - 1] >= line[n]
    BY <1>3
  <2>5. m >= n => m - 1 >= n \/ m = n
    BY <1>1
  <2>6. QED  BY <2>1, <2>3, <2>4, <2>5
<1> HIDE DEF after
<1>4. \A m \in 0 .. N : m \in after
  BY <1>1, <1>2, <1>3, UpTo
<1>5. N \in after
  BY <1>1, <1>4
<1>6. QED  BY <1>1, <1>5 DEF after

(* find_first_line stops at the same position in the buffer and in the file, *)
(* or where the rest of the buffer is on one line and the first row of the  *)
(* file is behind it.                                                       *)
LEMMA FirstLineBegins ==
  ASSUME NEW chunk, NEW src \in File, Begins(chunk, src), NEW skip \in Nat
  PROVE  LET a == FindFirstLine(chunk, skip)
             b == FindFirstLine(src, skip)
         IN  /\ a \in Nat /\ b \in Nat
             /\ a = b \/ (b >= Len(chunk) - 1 /\ NoNewline(chunk, a))
<1> DEFINE size == Len(chunk) - 1
<1>1. /\ size \in Nat /\ Len(chunk) \in Nat \ {0} /\ Len(src) \in Nat \ {0}
      /\ size < Len(src) /\ size + 1 = Len(chunk)
  BY DEF Begins
<1>2. PICK c \in Lines(chunk, skip) : FindFirstLine(chunk, skip) = c[Len(chunk)]
  BY <1>1, FindFirstLineLines
<1>3. PICK f \in Lines(src, skip) : FindFirstLine(src, skip) = f[Len(src)]
  BY <1>1, FindFirstLineLines
<1> HIDE DEF size
<1>4. /\ c[0] = 0 /\ f[0] = 0
      /\ \A n \in 0 .. size : c[n] \in Nat /\ f[n] \in Nat
      /\ \A n \in 1 .. size : /\ c[n] = Turned(chunk, c[n - 1], skip - (n - 1))
                              /\ f[n] = Turned(src, f[n - 1], skip - (n - 1))
  <2>1. /\ c \in [0 .. Len(chunk) -> Nat] /\ c[0] = 0
        /\ f \in [0 .. Len(src) -> Nat] /\ f[0] = 0
        /\ \A n \in 1 .. Len(chunk) : c[n] = Turned(chunk, c[n - 1], skip - (n - 1))
        /\ \A n \in 1 .. Len(src) : f[n] = Turned(src, f[n - 1], skip - (n - 1))
    BY DEF Lines, Turned
  <2>2. \A n \in 0 .. size : n \in 0 .. Len(chunk) /\ n \in 0 .. Len(src)
    BY <1>1
  <2>3. \A n \in 1 .. size : n \in 1 .. Len(chunk) /\ n \in 1 .. Len(src)
    BY <1>1
  <2>4. QED  BY <2>1, <2>2, <2>3
<1> DEFINE Agree == {n \in 0 .. size : \/ c[n] = f[n]
                                       \/ Behind(chunk, src, c[n], f[n], skip - n)}
           Gone  == {n \in 0 .. size : c[n] >= n \/ ~SkipsLine(chunk, c[n], skip - n)}
<1>5. 0 \in Agree /\ 0 \in Gone
  BY <1>1, <1>4
<1>6. ASSUME NEW n \in 1 .. size
      PROVE  /\ n - 1 \in Agree => n \in Agree
             /\ n - 1 \in Gone => n \in Gone
  <2> DEFINE p == c[n - 1]
             q == f[n - 1]
             k == skip - (n - 1)
  <2>1. /\ n \in 0 .. size /\ n - 1 \in 0 .. size /\ k \in Int /\ k - 1 = skip - n
        /\ n \in Nat
    BY <1>1
  <2>2. p \in Nat /\ q \in Nat /\ c[n] = Turned(chunk, p, k) /\ f[n] = Turned(src, q, k)
    BY <1>4, <2>1
  <2>3. n - 1 \in Agree <=> p = q \/ Behind(chunk, src, p, q, k)
    BY <2>1
  <2>4. n - 1 \in Gone <=> p >= n - 1 \/ ~SkipsLine(chunk, p, k)
    BY <2>1
  <2>5. /\ Turned(chunk, p, k) \in Nat
        /\ \/ Turned(chunk, p, k) = Turned(src, p, k)
           \/ Behind(chunk, src, Turned(chunk, p, k), Turned(src, p, k), k - 1)
        /\ SkipsLine(chunk, p, k) => Turned(chunk, p, k) > p
    <3> HIDE DEF p, q, k
    <3>1. QED  BY <2>1, <2>2, TurnedBegins
  <2>6. ~SkipsLine(chunk, p, k) => Turned(chunk, p, k) = p /\ ~SkipsLine(chunk, p, k - 1)
    <3> HIDE DEF p
    <3>1. k - 1 > 0 => k > 0
      BY <2>1
    <3> HIDE DEF k
    <3>2. QED  BY <3>1 DEF Turned, SkipsLine
  <2>7. f[n] \in Nat /\ f[n] >= q
    BY <2>2, TurnedForward
  <2> HIDE DEF p, q, k
  <2>8. ASSUME p = q \/ Behind(chunk, src, p, q, k)
        PROVE  c[n] = f[n] \/ Behind(chunk, src, c[n], f[n], k - 1)
    <3>1. CASE p = q
      BY <2>2, <2>5, <3>1
    <3>2. CASE Behind(chunk, src, p, q, k)
      <4>1. q >= size /\ NoNewline(chunk, p) /\ ~SkipsLine(chunk, p, k)
        BY <3>2 DEF Behind, size
      <4>2. c[n] = p /\ ~SkipsLine(chunk, p, k - 1)
        BY <2>2, <2>6, <4>1
      <4>3. f[n] >= size
        BY <1>1, <2>2, <2>7, <4>1
      <4>4. QED  BY <4>1, <4>2, <4>3 DEF Behind, size
    <3>3. QED  BY <2>8, <3>1, <3>2
  <2>9. ASSUME p >= n - 1 \/ ~SkipsLine(chunk, p, k)
        PROVE  c[n] >= n \/ ~SkipsLine(chunk, c[n], k - 1)
    <3>1. CASE SkipsLine(chunk, p, k)
      BY <2>1, <2>2, <2>5, <2>9, <3>1
    <3>2. CASE ~SkipsLine(chunk, p, k)
      BY <2>2, <2>6, <3>2
    <3>3. QED  BY <3>1, <3>2
  <2>10. QED  BY <2>1, <2>3, <2>4, <2>8, <2>9
<1>7. (c[size] = f[size] \/ Behind(chunk, src, c[size], f[size], skip - size))
      /\ (c[size] >= size \/ ~SkipsLine(chunk, c[size], skip - size))
  <2> HIDE DEF Agree, Gone
  <2>1. \A n \in 0 .. size : n \in Agree
    BY <1>1, <1>5, <1>6, UpTo
  <2>2. \A n \in 0 .. size : n \in Gone
    BY <1>1, <1>5, <1>6, UpTo
  <2>3. size \in Agree /\ size \in Gone
    BY <1>1, <2>1, <2>2
  <2>4. QED  BY <2>3 DEF Agree, Gone
<1> HIDE DEF Agree, Gone
<1>8. /\ c[size] \in Nat /\ f[size] \in Nat /\ size \in 0 .. Len(chunk)
      /\ size \in 0 .. Len(src) /\ skip - size \in Int
  BY <1>1, <1>4
<1>9. ~SkipsLine(chunk, c[size], skip - size)
  <2>1. c[size] >= size => ~(c[size] < Len(chunk) - 1)
    BY <1>1, <1>8
  <2>2. QED  BY <1>7, <2>1 DEF SkipsLine
<1>10. c[Len(chunk)] = c[size]
  BY <1>1, <1>8, <1>9, FirstLineFound
<1>11. f[Len(src)] >= f[size] /\ f[Len(src)] \in Nat
  <2>1. f[Len(src)] \in Nat
    BY <1>1 DEF Lines
  <2>2. QED  BY <1>8, <2>1, LinesForward
<1>12. CASE Behind(chunk, src, c[size], f[size], skip - size)
  <2>1. f[size] >= size /\ NoNewline(chunk, c[size])
    BY <1>12 DEF Behind, size
  <2>2. f[Len(src)] >= size
    BY <1>1, <1>8, <1>11, <2>1
  <2>3. QED  BY <1>2, <1>3, <1>8, <1>10, <1>11, <2>1, <2>2 DEF size
<1>13. CASE c[size] = f[size]
  <2> DEFINE p == c[size]
  <2>1. CASE ~SkipsLine(src, p, skip - size)
    <3>1. f[Len(src)] = f[size]
      BY <1>1, <1>8, <1>13, <2>1, FirstLineFound
    <3>2. QED  BY <1>2, <1>3, <1>8, <1>10, <1>11, <1>13, <3>1
  <2>2. CASE SkipsLine(src, p, skip - size)
    <3>1. PICK m \in 1 .. Len(src) : m = size + 1 /\ m - 1 = size
      BY <1>1
    <3>2. f[m] = Turned(src, p, skip - size)
      BY <1>13, <3>1 DEF Lines, Turned
    <3>3. Turned(chunk, p, skip - size) = p
      BY <1>9 DEF Turned
    <3>4. Turned(src, p, skip - size) # p
      <4>1. p \in Nat /\ p < Len(src)
        BY <1>1, <1>8, <2>2 DEF SkipsLine
      <4>2. NextLine(src, p) \in Nat /\ p < NextLine(src, p)
        BY <4>1, NextLineForward
      <4>3. QED  BY <2>2, <4>1, <4>2 DEF Turned
    <3>5. Behind(chunk, src, p, f[m], skip - size - 1)
      <4> HIDE DEF p
      <4>1. p \in Nat
        BY <1>8 DEF p
      <4>2. QED  BY <1>8, <3>2, <3>3, <3>4, <4>1, TurnedBegins
    <3>6. f[m] >= size /\ NoNewline(chunk, p)
      BY <3>5 DEF Behind, size
    <3>7. f[Len(src)] >= size
      <4>1. m \in 0 .. Len(src) /\ f[m] \in Nat
        BY <1>1 DEF Lines
      <4>2. f[Len(src)] >= f[m]
        BY <4>1, LinesForward
      <4>3. QED  BY <1>1, <1>11, <3>6, <4>1, <4>2
    <3>8. QED  BY <1>2, <1>3, <1>8, <1>10, <1>11, <3>6, <3>7 DEF size
  <2>3. QED  BY <2>1, <2>2
<1>14. QED  BY <1>7, <1>12, <1>13

(* So the first newline in the buffer is the first one of the file, unless   *)
(* that is behind the buffer.                                              *)
LEMMA FirstRowBegins ==
  ASSUME NEW chunk, NEW src \in File, Begins(chunk, src), NEW skip \in Nat, NEW start,
         start = Min({FindFirstLine(chunk, skip), Len(chunk)})
  PROVE  SameNewline(chunk, 0, FindNewline(chunk, start),
                     FindNewline(src, FindFirstLine(src, skip)))
<1> DEFINE size == Len(chunk) - 1
           a    == FindFirstLine(chunk, skip)
           b    == FindFirstLine(src, skip)
<1>1. /\ size \in Nat /\ Len(chunk) \in Nat \ {0} /\ Len(src) \in Nat \ {0}
      /\ size < Len(src) /\ size + 1 = Len(chunk)
  BY DEF Begins
<1>2. a \in Nat /\ b \in Nat /\ (a = b \/ (b >= size /\ NoNewline(chunk, a)))
  BY FirstLineBegins
<1>3. start \in {a, Len(chunk)} /\ start <= a /\ start <= Len(chunk) /\ start \in Nat
  BY <1>1, <1>2, LeastOfTwo
<1> DEFINE to    == FindNewline(chunk, start)
           whole == FindNewline(src, b)
<1>4. SameNewline(chunk, start, to, FindNewline(src, start))
  BY <1>3, FindNewlineBegins
<1>5. whole[1] \in Nat /\ to[1] \in Nat /\ (b >= size => whole[1] >= size)
  <2>1. to \in Nat \X {"lf", "cr"}
    BY <1>1, <1>3, FindNewlineForward
  <2>2. /\ whole \in Nat \X {"lf", "cr"}
        /\ b < Len(src) => whole[1] >= b
        /\ b >= Len(src) => whole[1] = Len(src) - 1
    BY <1>1, <1>2, FindNewlineForward
  <2> HIDE DEF a, b, to, whole, size
  <2>3. QED  BY <1>1, <1>2, <2>1, <2>2
<1> HIDE DEF a, b, to, whole, size
<1>6. CASE start = b
  BY <1>3, <1>4, <1>5, <1>6 DEF SameNewline, b, to, whole
<1>7. CASE start # b
  <2>1. b >= size /\ NoNewline(chunk, start)
    <3>1. CASE start = a
      BY <1>2, <1>7, <3>1
    <3>2. CASE start = Len(chunk) /\ start # a
      <4>1. a > size
        BY <1>1, <1>2, <1>3, <3>2
      <4>2. NoNewline(chunk, start)
        BY <1>1, <3>2 DEF NoNewline
      <4>3. QED  BY <1>1, <1>2, <4>1, <4>2
    <3>3. QED  BY <1>3, <3>1, <3>2
  <2>2. to[1] >= size
    BY <1>1, <1>3, <1>4, <2>1, NoNewlineFound DEF size
  <2>3. QED  BY <1>5, <2>1, <2>2 DEF SameNewline, b, to, whole, size
<1>8. QED  BY <1>6, <1>7

----------------------------------------------------------------------------
(* What the destinations come to, one after the other.                      *)

(* Two sequences are flattened to the one followed by the other.            *)
LEMMA FlattenTwo ==
  ASSUME NEW s, s = [k \in 1 .. 2 |-> s[k]]
  PROVE  FlattenSeq(s) = s[1] \o s[2]
<1> DEFINE Next(g) == [i \in 1 .. Len(s) |-> IF i = 1 THEN s[i] ELSE g[i - 1] \o s[i]]
           f == CHOOSE g : g = Next(g)
           two == [i \in 1 .. Len(s) |-> IF i = 1 THEN s[1] ELSE s[1] \o s[2]]
<1>1. Len(s) = 2
  OBVIOUS
<1>2. FlattenSeq(s) = f[2]
  BY <1>1 DEF FlattenSeq
<1>3. two = Next(two)
  BY <1>1
<1>4. f = Next(f)
  <2> HIDE DEF Next, two
  <2>1. QED  BY <1>3
<1> HIDE DEF f
<1>5. f[1] = s[1] /\ f[2] = f[1] \o s[2]
  <2>1. 1 \in 1 .. Len(s) /\ 2 \in 1 .. Len(s)
    BY <1>1
  <2>2. QED  BY <1>4, <2>1
<1>6. QED  BY <1>2, <1>5

(* Nothing, flattened, is nothing.                                          *)
LEMMA FlattenEmpty ==
  ASSUME NEW n \in Nat \ {0}
  PROVE  FlattenSeq([k \in 1 .. n |-> <<>>]) = <<>>
<1> DEFINE s == [k \in 1 .. n |-> <<>>]
           Next(g) == [i \in 1 .. Len(s) |-> IF i = 1 THEN s[i] ELSE g[i - 1] \o s[i]]
           f == CHOOSE g : g = Next(g)
<1>1. Len(s) = n
  OBVIOUS
<1>2. FlattenSeq(s) = f[n]
  BY <1>1 DEF FlattenSeq
<1>3. s = Next(s)
  BY <1>1
<1>4. f = Next(f)
  <2> HIDE DEF Next, s
  <2>1. QED  BY <1>3
<1> HIDE DEF f
<1>5. \A i \in 1 .. n : f[i] = IF i = 1 THEN <<>> ELSE f[i - 1] \o <<>>
  BY <1>1, <1>4
<1> DEFINE T == {0} \union {i \in 1 .. n : f[i] = <<>>}
<1>6. \A i \in 1 .. n : i - 1 \in T => i \in T
  <2>1. SUFFICES ASSUME NEW i \in 1 .. n, i - 1 \in T PROVE f[i] = <<>>
    OBVIOUS
  <2>2. CASE i = 1
    BY <1>5, <2>2
  <2>3. CASE i # 1
    <3>1. f[i - 1] = <<>>
      BY <2>1, <2>3
    <3>2. QED  BY <1>5, <2>3, <3>1
  <2>4. QED  BY <2>2, <2>3
<1>7. 0 \in T
  OBVIOUS
<1> HIDE DEF T
<1>8. \A i \in 0 .. n : i \in T
  BY <1>6, <1>7, UpTo
<1>9. n \in T
  BY <1>8
<1>10. f[n] = <<>>
  BY <1>9 DEF T
<1>11. QED  BY <1>2, <1>10

(* Sequences, one after the other: each is put after all those before it.   *)
Flattens(s, f, n) ==
  /\ f[1] = s[1] /\ \A i \in 2 .. n : f[i] = f[i - 1] \o s[i]
  /\ FlattenSeq(s) = f[n]

LEMMA FlattenSteps ==
  ASSUME NEW n \in Nat \ {0}, NEW S, NEW s \in [1 .. n -> Seq(S)]
  PROVE  \E f \in [1 .. n -> Seq(S)] : Flattens(s, f, n)
<1> DEFINE Next(g) == [i \in 1 .. Len(s) |-> IF i = 1 THEN s[i] ELSE g[i - 1] \o s[i]]
           f == CHOOSE g : g = Next(g)
           N == n - 1
           next == [w \in (1 .. N) \X Seq(S) |-> w[2] \o s[w[1] + 1]]
<1>1. Len(s) = n
  OBVIOUS
<1>2. FlattenSeq(s) = f[n]
  BY <1>1 DEF FlattenSeq
<1>3. N \in Nat /\ 1 \in 1 .. n /\ s[1] \in Seq(S)
  OBVIOUS
<1>4. next \in [(1 .. N) \X Seq(S) -> Seq(S)]
  <2>1. ASSUME NEW w \in (1 .. N) \X Seq(S) PROVE w[2] \o s[w[1] + 1] \in Seq(S)
    <3>1. w[2] \in Seq(S) /\ w[1] + 1 \in 1 .. n
      OBVIOUS
    <3>2. s[w[1] + 1] \in Seq(S)
      BY <3>1
    <3>3. QED  BY <3>1, <3>2, ConcatProperties
  <2>2. QED  BY <2>1
<1> HIDE DEF next
<1>5. Iterations(N, Seq(S), s[1], next) # {}
  <2> HIDE DEF N
  <2>1. QED  BY <1>3, <1>4, Recursion
<1>6. PICK g \in [0 .. N -> Seq(S)] :
        g[0] = s[1] /\ \A i \in 1 .. N : g[i] = next[<<i, g[i - 1]>>]
  BY <1>5 DEF Iterations
<1> DEFINE h == [i \in 1 .. n |-> g[i - 1]]
<1>7. ASSUME NEW i \in 1 .. n PROVE h[i] = IF i = 1 THEN s[i] ELSE h[i - 1] \o s[i]
  <2>1. CASE i = 1
    BY <1>6, <2>1
  <2>2. CASE i # 1
    <3>1. i - 1 \in 1 .. N /\ i - 1 \in 1 .. n /\ (i - 1) + 1 = i
      BY <2>2
    <3>2. g[(i - 1) - 1] \in Seq(S) /\ h[i - 1] = g[(i - 1) - 1]
      BY <3>1, <1>6
    <3>3. g[i - 1] = next[<<i - 1, g[(i - 1) - 1]>>]
      BY <1>6, <3>1
    <3>4. next[<<i - 1, g[(i - 1) - 1]>>] = g[(i - 1) - 1] \o s[i]
      BY <3>1, <3>2 DEF next
    <3>5. QED  BY <2>2, <3>2, <3>3, <3>4
  <2>3. QED  BY <2>1, <2>2
<1>8. h = Next(h)
  <2>1. DOMAIN h = 1 .. n /\ h = [i \in 1 .. n |-> h[i]]
    OBVIOUS
  <2> HIDE DEF h
  <2>2. QED  BY <1>1, <1>7, <2>1
<1>9. f = Next(f)
  <2> HIDE DEF Next, h
  <2>1. QED  BY <1>8
<1> HIDE DEF f, N
<1>10. \A i \in 1 .. n : f[i] = IF i = 1 THEN s[i] ELSE f[i - 1] \o s[i]
  BY <1>1, <1>9
<1> DEFINE T == {0} \union {i \in 1 .. n : f[i] \in Seq(S)}
<1>11. \A i \in 1 .. n : i - 1 \in T => i \in T
  <2>1. SUFFICES ASSUME NEW i \in 1 .. n, i - 1 \in T PROVE f[i] \in Seq(S)
    OBVIOUS
  <2>2. CASE i = 1
    BY <1>3, <1>10, <2>2
  <2>3. CASE i # 1
    <3>1. f[i - 1] \in Seq(S) /\ s[i] \in Seq(S)
      BY <2>1, <2>3
    <3>2. f[i - 1] \o s[i] \in Seq(S)
      BY <3>1, ConcatProperties
    <3>3. QED  BY <1>10, <2>3, <3>2
  <2>4. QED  BY <2>2, <2>3
<1>12. 0 \in T
  OBVIOUS
<1> HIDE DEF T
<1>13. \A i \in 0 .. n : i \in T
  BY <1>11, <1>12, UpTo
<1>14. \A i \in 1 .. n : f[i] \in Seq(S)
  BY <1>13 DEF T
<1>15. f \in [1 .. n -> Seq(S)]
  <2>1. f = [i \in 1 .. n |-> IF i = 1 THEN s[i] ELSE f[i - 1] \o s[i]]
    BY <1>1, <1>9
  <2>2. f = [i \in 1 .. n |-> f[i]]
    BY <1>10, <2>1
  <2>3. QED  BY <1>14, <2>2
<1>16. f[1] = s[1] /\ \A i \in 2 .. n : f[i] = f[i - 1] \o s[i]
  <2>1. 1 \in 1 .. n /\ \A i \in 2 .. n : i \in 1 .. n /\ i # 1
    OBVIOUS
  <2>2. QED  BY <1>10, <2>1
<1>17. QED  BY <1>2, <1>15, <1>16 DEF Flattens

(* The elements of the sequences up to n: of which one, and where in it.     *)
Cells(s, n) == UNION {{k} \X (1 .. Len(s[k])) : k \in 0 .. n}

Elements(s, n) == UNION {ToSet(s[k]) : k \in 0 .. n}

(* The one sequence that differs has a new element at its end.              *)
GrowsBy(s, t, n, k, x) ==
  t[k] = s[k] \o <<x>> /\ \A j \in 0 .. n : j # k => t[j] = s[j]

(* There are as many as the sequences are long.                             *)
LEMMA CellsOfOne ==
  ASSUME NEW k, NEW m \in Nat
  PROVE  IsFiniteSet({k} \X (1 .. m)) /\ Cardinality({k} \X (1 .. m)) = m
<1>1. IsFiniteSet(1 .. m) /\ Cardinality(1 .. m) = m
  <2>1. /\ IsFiniteSet(1 .. m)
        /\ Cardinality(1 .. m) = IF 1 > m THEN 0 ELSE m - 1 + 1
    BY FS_Interval
  <2>2. QED  BY <2>1
<1>2. IsFiniteSet({k}) /\ Cardinality({k}) = 1
  BY FS_Singleton
<1>3. /\ IsFiniteSet({k} \X (1 .. m))
      /\ Cardinality({k} \X (1 .. m)) = Cardinality({k}) * Cardinality(1 .. m)
  BY <1>1, <1>2, FS_Product
<1>4. Cardinality({k} \X (1 .. m)) = 1 * m
  BY <1>1, <1>2, <1>3
<1>5. QED  BY <1>3, <1>4

LEMMA CellsFirst ==
  ASSUME NEW s, Len(s[0]) \in Nat
  PROVE  IsFiniteSet(Cells(s, 0)) /\ Cardinality(Cells(s, 0)) = Len(s[0])
<1>1. Cells(s, 0) = {0} \X (1 .. Len(s[0]))
  <2>1. 0 .. 0 = {0}
    OBVIOUS
  <2>2. QED  BY <2>1 DEF Cells
<1>2. PICK m \in Nat : m = Len(s[0])
  OBVIOUS
<1>3. IsFiniteSet({0} \X (1 .. m)) /\ Cardinality({0} \X (1 .. m)) = m
  BY CellsOfOne
<1>4. QED  BY <1>1, <1>2, <1>3

LEMMA CellsNext ==
  ASSUME NEW s, NEW n \in Nat \ {0}, IsFiniteSet(Cells(s, n - 1)), Len(s[n]) \in Nat
  PROVE  /\ IsFiniteSet(Cells(s, n))
         /\ Cardinality(Cells(s, n)) = Cardinality(Cells(s, n - 1)) + Len(s[n])
<1> DEFINE A == Cells(s, n - 1)
           B == {n} \X (1 .. Len(s[n]))
<1>1. Cells(s, n) = A \union B
  <2>1. 0 .. n = (0 .. (n - 1)) \union {n}
    OBVIOUS
  <2>2. QED  BY <2>1 DEF Cells
<1>2. A \intersect B = {}
  <2>1. \A k \in 0 .. (n - 1) : k # n
    OBVIOUS
  <2>2. QED  BY <2>1 DEF Cells
<1>3. IsFiniteSet(B) /\ Cardinality(B) = Len(s[n])
  BY CellsOfOne
<1>4. PICK m \in Nat : m = Len(s[n])
  OBVIOUS
<1> HIDE DEF A, B
<1>5. IsFiniteSet(A) /\ Cardinality(A) \in Nat
  BY FS_CardinalityType DEF A
<1>6. /\ IsFiniteSet(A \union B)
      /\ Cardinality(A \union B) = Cardinality(A) + Cardinality(B) - Cardinality(A \intersect B)
  BY <1>3, <1>5, FS_Union
<1>7. Cardinality(A \intersect B) = 0
  BY <1>2, FS_EmptySet
<1>8. Cardinality(A \union B) = Cardinality(A) + m
  BY <1>3, <1>4, <1>5, <1>6, <1>7
<1>9. QED  BY <1>1, <1>4, <1>6, <1>8 DEF A

LEMMA CellsFinite ==
  ASSUME NEW n \in Nat, NEW s, \A k \in 0 .. n : Len(s[k]) \in Nat
  PROVE  IsFiniteSet(Cells(s, n))
<1> DEFINE T == {k \in 0 .. n : IsFiniteSet(Cells(s, k))}
<1>1. 0 \in T
  BY CellsFirst
<1>2. \A k \in 1 .. n : k - 1 \in T => k \in T
  BY CellsNext
<1> HIDE DEF T
<1>3. \A k \in 0 .. n : k \in T
  BY <1>1, <1>2, UpTo
<1>4. n \in T
  BY <1>3
<1>5. QED  BY <1>4 DEF T

(* One sequence has one more element: there is one more, and it is the one. *)
LEMMA CellsGrow ==
  ASSUME NEW n \in Nat, NEW s \in [0 .. n -> Errors], NEW k \in 0 .. n,
         NEW x, <<x>> \in Errors, NEW t \in [0 .. n -> Errors], GrowsBy(s, t, n, k, x)
  PROVE  /\ Cardinality(Cells(t, n)) = Cardinality(Cells(s, n)) + 1
         /\ Elements(t, n) = Elements(s, n) \union {x}
<1> DEFINE S == [position : Nat, column : Nat]
<1>0. x \in S /\ s \in [0 .. n -> Seq(S)] /\ t \in [0 .. n -> Seq(S)]
  BY DEF Errors
<1> HIDE DEF S
<1>1. s[k] \in Seq(S) /\ \E m \in Nat : m = Len(s[k])
  BY <1>0
<1> PICK m \in Nat : m = Len(s[k])
  BY <1>1
<1>2. /\ s[k] \in Seq(S) /\ Append(s[k], x) \in Seq(S) /\ Len(Append(s[k], x)) = m + 1
      /\ Append(s[k], x)[m + 1] = x /\ \A i \in 1 .. m : Append(s[k], x)[i] = s[k][i]
  BY <1>0, <1>1
<1>3. /\ t \in [0 .. n -> Seq(S)] /\ t[k] = Append(s[k], x)
      /\ \A j \in 0 .. n : j # k => t[j] = s[j]
  <2>1. \A e \in Seq(S) : \A y \in S : e \o <<y>> = Append(e, y)
    OBVIOUS
  <2>2. QED  BY <1>0, <1>1, <2>1 DEF GrowsBy
<1>4. Cells(t, n) = Cells(s, n) \union {<<k, m + 1>>}
  <2>1. 1 .. (m + 1) = 1 .. m \union {m + 1}
    OBVIOUS
  <2>2. {k} \X (1 .. Len(t[k])) = ({k} \X (1 .. Len(s[k]))) \union {<<k, m + 1>>}
    BY <1>1, <1>2, <1>3, <2>1
  <2>3. \A j \in 0 .. n : j # k => {j} \X (1 .. Len(t[j])) = {j} \X (1 .. Len(s[j]))
    BY <1>3
  <2>4. ASSUME NEW w
        PROVE  w \in Cells(t, n) <=> w \in Cells(s, n) \union {<<k, m + 1>>}
    <3>1. /\ w \in Cells(s, n) <=> \E j \in 0 .. n : w \in {j} \X (1 .. Len(s[j]))
          /\ w \in Cells(t, n) <=> \E j \in 0 .. n : w \in {j} \X (1 .. Len(t[j]))
      BY Zenon DEF Cells
    <3> DEFINE A(j) == w \in {j} \X (1 .. Len(s[j]))
               B(j) == w \in {j} \X (1 .. Len(t[j]))
    <3>2. (B(k) <=> A(k) \/ w = <<k, m + 1>>) /\ \A j \in 0 .. n : j # k => (B(j) <=> A(j))
      BY <2>2, <2>3
    <3> HIDE DEF A, B
    <3>3. (\E j \in 0 .. n : B(j)) <=> (\E j \in 0 .. n : A(j)) \/ w = <<k, m + 1>>
      BY <3>2
    <3>4. QED  BY <3>1, <3>3 DEF A, B
  <2>5. QED  BY <2>4
<1>5. <<k, m + 1>> \notin Cells(s, n)
  <2>1. m + 1 \notin 1 .. m
    OBVIOUS
  <2>2. QED  BY <1>1, <2>1 DEF Cells
<1>6. IsFiniteSet(Cells(s, n))
  <2>1. \A j \in 0 .. n : Len(s[j]) \in Nat
    BY <1>0
  <2>2. QED  BY <2>1, CellsFinite
<1>7. Cardinality(Cells(t, n)) = Cardinality(Cells(s, n)) + 1
  BY <1>4, <1>5, <1>6, FS_AddElement
<1>8. ToSet(t[k]) = ToSet(s[k]) \union {x}
  <2>1. DOMAIN t[k] = 1 .. (m + 1) /\ DOMAIN s[k] = 1 .. m
    BY <1>1, <1>2, <1>3
  <2>2. \A i \in 1 .. m : t[k][i] = s[k][i]
    BY <1>2, <1>3
  <2>3. t[k][m + 1] = x
    BY <1>2, <1>3
  <2>4. 1 .. (m + 1) = 1 .. m \union {m + 1}
    OBVIOUS
  <2>5. /\ ToSet(s[k]) = {s[k][i] : i \in 1 .. m}
        /\ ToSet(t[k]) = {t[k][i] : i \in 1 .. (m + 1)}
    BY <2>1 DEF ToSet
  <2>6. {t[k][i] : i \in 1 .. m} = {s[k][i] : i \in 1 .. m}
    BY <2>2
  <2>7. {t[k][i] : i \in 1 .. (m + 1)} = {t[k][i] : i \in 1 .. m} \union {t[k][m + 1]}
    BY <2>4
  <2>8. QED  BY <2>3, <2>5, <2>6, <2>7
<1>9. \A j \in 0 .. n : j # k => ToSet(t[j]) = ToSet(s[j])
  BY <1>3
<1>10. UNION {ToSet(t[j]) : j \in 0 .. n} = (UNION {ToSet(s[j]) : j \in 0 .. n}) \union {x}
  <2> SUFFICES ASSUME NEW w
               PROVE  w \in UNION {ToSet(t[j]) : j \in 0 .. n} <=>
                        w \in (UNION {ToSet(s[j]) : j \in 0 .. n}) \union {x}
    OBVIOUS
  <2> DEFINE A(j) == w \in ToSet(s[j])
             B(j) == w \in ToSet(t[j])
  <2>1. /\ w \in UNION {ToSet(s[j]) : j \in 0 .. n} <=> \E j \in 0 .. n : A(j)
        /\ w \in UNION {ToSet(t[j]) : j \in 0 .. n} <=> \E j \in 0 .. n : B(j)
    BY Zenon
  <2>2. (B(k) <=> A(k) \/ w = x) /\ \A j \in 0 .. n : j # k => (B(j) <=> A(j))
    BY <1>8, <1>9
  <2> HIDE DEF A, B
  <2>3. (\E j \in 0 .. n : B(j)) <=> (\E j \in 0 .. n : A(j)) \/ w = x
    BY <2>2
  <2> DEFINE before == UNION {ToSet(s[j]) : j \in 0 .. n}
             after  == UNION {ToSet(t[j]) : j \in 0 .. n}
  <2>4. (w \in before <=> \E j \in 0 .. n : A(j)) /\ (w \in after <=> \E j \in 0 .. n : B(j))
    BY <2>1
  <2> HIDE DEF before, after
  <2>5. w \in after <=> w \in before \union {x}
    BY <2>3, <2>4
  <2>6. QED  BY <2>5 DEF before, after
<1>11. QED  BY <1>3, <1>7, <1>10 DEF Elements

(* The elements of two sequences, one after the other, are those of both.   *)
LEMMA ToSetOfTwo ==
  ASSUME NEW S, NEW s \in Seq(S), NEW t \in Seq(S)
  PROVE  ToSet(s \o t) = ToSet(s) \union ToSet(t)
<1>1. PICK m, n \in Nat : m = Len(s) /\ n = Len(t)
  OBVIOUS
<1> DEFINE both == s \o t
<1>2. /\ both \in Seq(S) /\ Len(both) = m + n
      /\ \A i \in 1 .. m + n : both[i] = IF i <= m THEN s[i] ELSE t[i - m]
  BY <1>1, ConcatProperties
<1> HIDE DEF both
<1>3. DOMAIN both = 1 .. m + n /\ DOMAIN s = 1 .. m /\ DOMAIN t = 1 .. n
  BY <1>1, <1>2
<1>4. ASSUME NEW i \in 1 .. m + n PROVE both[i] \in ToSet(s) \union ToSet(t)
  <2>1. CASE i <= m
    <3>1. i \in 1 .. m
      BY <2>1
    <3>2. both[i] = s[i]
      BY <1>2, <2>1
    <3>3. QED  BY <1>3, <3>1, <3>2 DEF ToSet
  <2>2. CASE ~(i <= m)
    <3>1. i - m \in 1 .. n
      BY <2>2
    <3>2. both[i] = t[i - m]
      BY <1>2, <2>2
    <3>3. QED  BY <1>3, <3>1, <3>2 DEF ToSet
  <2>3. QED  BY <2>1, <2>2
<1>5. ASSUME NEW i \in 1 .. m PROVE s[i] \in ToSet(both)
  <2>1. i \in 1 .. m + n /\ i <= m
    OBVIOUS
  <2>2. both[i] = s[i]
    BY <1>2, <2>1
  <2>3. QED  BY <1>3, <2>1, <2>2 DEF ToSet
<1>6. ASSUME NEW i \in 1 .. n PROVE t[i] \in ToSet(both)
  <2>1. m + i \in 1 .. m + n /\ ~(m + i <= m) /\ (m + i) - m = i
    OBVIOUS
  <2>2. both[m + i] = t[i]
    BY <1>2, <2>1
  <2>3. QED  BY <1>3, <2>1, <2>2 DEF ToSet
<1>7. ToSet(both) \subseteq ToSet(s) \union ToSet(t)
  BY <1>3, <1>4 DEF ToSet
<1>8. ToSet(s) \subseteq ToSet(both) /\ ToSet(t) \subseteq ToSet(both)
  <2>1. ToSet(s) = {s[i] : i \in 1 .. m} /\ ToSet(t) = {t[i] : i \in 1 .. n}
    BY <1>3 DEF ToSet
  <2>2. QED  BY <1>5, <1>6, <2>1
<1>9. QED  BY <1>7, <1>8 DEF both

(* A call for a part of the file is entered at its start, to read all rows. *)
EnteredFor(src, q, entry) ==
  /\ Len(src) \in Nat /\ q \in CallType /\ q.n_max = Unlimited
  /\ q.start <= q.end /\ q.end <= Len(src)
  /\ entry \in LocalsType /\ entry.pos = q.start /\ entry.last_tick <= q.end

(* What is left to a call that has reached the end of its region is to      *)
(* return.                                                                  *)
LEMMA ReachesEnd ==
  ASSUME NEW src, NEW q, NEW entry, EnteredFor(src, q, entry),
         NEW D, NEW E \in Errors, Reaches(src, q, entry, q.end, D, E)
  PROVE  /\ RunRegion(src, q, entry).locals.destination = D
         /\ RunRegion(src, q, entry).errors = E
<1>1. PICK R \in LocalsType :
        /\ R.pos = q.end /\ R.out = "running" /\ R.destination = D
        /\ Passes(src, q, entry, [locals |-> R, errors |-> E])
  BY DEF Reaches
<1> DEFINE call == [locals |-> R, errors |-> E]
           last == [R EXCEPT !.last_tick = q.end, !.out = "end"]
<1>2. Kind(src, q, R) = "return"
  <2>1. R.pos >= q.end
    BY <1>1, CallFields DEF EnteredFor
  <2>2. QED  BY <2>1 DEF Kind
<1>3. IndexStep(src, q, R) = last
  BY <1>2 DEF IndexStep
<1>4. ParseErrors(src, q, R) = <<>>
  BY <1>2 DEF ParseErrors
<1>5. E \o <<>> = E
  <2>1. \A S : \A e \in Seq(S) : e \o <<>> = e
    OBVIOUS
  <2>2. QED  BY <2>1 DEF Errors
<1>6. Turn(src, q, call) = [locals |-> last, errors |-> E]
  BY <1>3, <1>4, <1>5 DEF Turn
<1>7. last.out = "end" /\ last.destination = D
  BY <1>1 DEF LocalsType
<1> HIDE DEF last
<1>8. Passes(src, q, entry, [locals |-> last, errors |-> E])
  <2>1. Passes(src, q, entry, call) /\ call.locals.out = "running"
    BY <1>1
  <2> HIDE DEF call
  <2>2. Passes(src, q, entry, Turn(src, q, call))
    BY <2>1, PassesNext
  <2>3. QED  BY <1>6, <2>2
<1>9. RunRegion(src, q, entry) = [locals |-> last, errors |-> E]
  <2> DEFINE end == [locals |-> last, errors |-> E]
  <2>1. end.locals.out # "running"
    BY <1>7
  <2> HIDE DEF end
  <2>2. Passes(src, q, entry, end)
    BY <1>8 DEF end
  <2>3. RunRegion(src, q, entry) = end
    BY <2>1, <2>2, PassesLast DEF EnteredFor
  <2>4. QED  BY <2>3 DEF end
<1>10. QED  BY <1>7, <1>9

(* One sequence after the other: those up to each of them, put together.    *)
Joins(s, f, n) == f[0] = s[0] /\ \A k \in 1 .. n : f[k] = f[k - 1] \o s[k]

LEMMA JoinSteps ==
  ASSUME NEW n \in Nat, NEW S, NEW s \in [0 .. n -> Seq(S)]
  PROVE  \E f \in [0 .. n -> Seq(S)] :
           Joins(s, f, n) /\ FlattenSeq([k \in 1 .. (n + 1) |-> s[k - 1]]) = f[n]
<1> DEFINE t == [k \in 1 .. (n + 1) |-> s[k - 1]]
<1>1. n + 1 \in Nat \ {0} /\ t \in [1 .. (n + 1) -> Seq(S)]
  OBVIOUS
<1>2. t[1] = s[0] /\ \A k \in 1 .. n : t[k + 1] = s[k]
  OBVIOUS
<1> HIDE DEF t
<1>3. PICK g \in [1 .. (n + 1) -> Seq(S)] :
        /\ g[1] = t[1]
        /\ \A i \in 2 .. (n + 1) : g[i] = g[i - 1] \o t[i]
        /\ FlattenSeq(t) = g[n + 1]
  <2>1. PICK m \in Nat \ {0} : m = n + 1
    BY <1>1
  <2>2. t \in [1 .. m -> Seq(S)]
    BY <1>1, <2>1
  <2>3. \E g \in [1 .. m -> Seq(S)] : Flattens(t, g, m)
    BY <2>2, FlattenSteps
  <2>4. QED  BY <2>1, <2>3 DEF Flattens
<1> DEFINE f == [k \in 0 .. n |-> g[k + 1]]
<1>4. f \in [0 .. n -> Seq(S)] /\ f[0] = g[1] /\ f[n] = g[n + 1]
  OBVIOUS
<1>5. ASSUME NEW k \in 1 .. n PROVE f[k] = f[k - 1] \o s[k]
  <2>1. k + 1 \in 2 .. (n + 1) /\ (k + 1) - 1 = k /\ k - 1 \in 0 .. n /\ k \in 0 .. n
    OBVIOUS
  <2>2. f[k] = g[k + 1] /\ f[k - 1] = g[k]
    BY <2>1
  <2>3. g[k + 1] = g[k] \o t[k + 1]
    BY <1>3, <2>1
  <2>4. QED  BY <1>2, <2>2, <2>3
<1> HIDE DEF f
<1>6. Joins(s, f, n) /\ FlattenSeq(t) = f[n]
  BY <1>2, <1>3, <1>4, <1>5 DEF Joins
<1>7. QED  BY <1>4, <1>6 DEF t

(* All of them together are as long as they have elements, and have theirs. *)
LEMMA JoinedHas ==
  ASSUME NEW n \in Nat, NEW S, NEW s \in [0 .. n -> Seq(S)],
         NEW f \in [0 .. n -> Seq(S)], Joins(s, f, n)
  PROVE  Len(f[n]) = Cardinality(Cells(s, n)) /\ ToSet(f[n]) = Elements(s, n)
<1> DEFINE T == {k \in 0 .. n : /\ IsFiniteSet(Cells(s, k))
                                /\ Len(f[k]) = Cardinality(Cells(s, k))
                                /\ ToSet(f[k]) = Elements(s, k)}
<1>1. 0 \in T
  <2>1. Len(s[0]) \in Nat /\ f[0] = s[0]
    BY DEF Joins
  <2>2. IsFiniteSet(Cells(s, 0)) /\ Cardinality(Cells(s, 0)) = Len(s[0])
    BY <2>1, CellsFirst
  <2>3. Elements(s, 0) = ToSet(s[0])
    <3>1. 0 .. 0 = {0}
      OBVIOUS
    <3>2. QED  BY <3>1 DEF Elements
  <2>4. QED  BY <2>1, <2>2, <2>3
<1>2. ASSUME NEW k \in 1 .. n, k - 1 \in T PROVE k \in T
  <2>1. /\ k \in Nat \ {0} /\ k \in 0 .. n /\ k - 1 \in 0 .. n
        /\ IsFiniteSet(Cells(s, k - 1)) /\ Len(f[k - 1]) = Cardinality(Cells(s, k - 1))
        /\ ToSet(f[k - 1]) = Elements(s, k - 1)
    BY <1>2
  <2>2. s[k] \in Seq(S) /\ f[k - 1] \in Seq(S) /\ Len(s[k]) \in Nat
    BY <2>1
  <2>3. f[k] = f[k - 1] \o s[k]
    BY DEF Joins
  <2>4. /\ IsFiniteSet(Cells(s, k))
        /\ Cardinality(Cells(s, k)) = Cardinality(Cells(s, k - 1)) + Len(s[k])
    BY <2>1, <2>2, CellsNext
  <2>5. Len(f[k]) = Len(f[k - 1]) + Len(s[k])
    BY <2>2, <2>3
  <2>6. ToSet(f[k]) = ToSet(f[k - 1]) \union ToSet(s[k])
    BY <2>2, <2>3, ToSetOfTwo
  <2>7. Elements(s, k) = Elements(s, k - 1) \union ToSet(s[k])
    <3>1. 0 .. k = (0 .. (k - 1)) \union {k}
      BY <2>1
    <3>2. QED  BY <3>1 DEF Elements
  <2>8. QED  BY <2>1, <2>4, <2>5, <2>6, <2>7
<1>3. n \in T
  <2> HIDE DEF T
  <2>1. \A k \in 0 .. n : k \in T
    BY <1>1, <1>2, UpTo
  <2>2. QED  BY <2>1
<1>4. QED  BY <1>3

(* Three sequences in a row are put together from either side: positions,   *)
LEMMA PositionsInARow ==
  ASSUME NEW a \in Seq(Nat), NEW b \in Seq(Nat), NEW c \in Seq(Nat)
  PROVE  b \o c \in Seq(Nat) /\ (a \o b) \o c = a \o (b \o c)
<1>1. b \o c \in Seq(Nat)
  OBVIOUS
<1> DEFINE S == Nat
<1>2. a \in Seq(S) /\ b \in Seq(S) /\ c \in Seq(S)
  OBVIOUS
<1> HIDE DEF S
<1>3. (a \o b) \o c = a \o (b \o c)
  BY <1>2, ConcatAssociative
<1>4. QED  BY <1>1, <1>3

(* and errors.                                                              *)
LEMMA ErrorsInARow ==
  ASSUME NEW a \in Errors, NEW b \in Errors, NEW c \in Errors
  PROVE  b \o c \in Errors /\ (a \o b) \o c = a \o (b \o c)
<1> DEFINE S == [position : Nat, column : Nat]
<1>1. a \in Seq(S) /\ b \in Seq(S) /\ c \in Seq(S)
  BY DEF Errors
<1> HIDE DEF S
<1>2. b \o c \in Seq(S)
  BY <1>1
<1>3. (a \o b) \o c = a \o (b \o c)
  BY <1>1, ConcatAssociative
<1>4. QED  BY <1>2, <1>3 DEF S, Errors

----------------------------------------------------------------------------
(* A limit on the lines.  A call that may read n_max lines does what the    *)
(* call without a limit does, until it has read them; and what that one     *)
(* reads after that leaves alone what there is of these lines.              *)

AllLines(p) == [p EXCEPT !.n_max = Unlimited]

(* It has stopped at its limit where the other goes on. *)
Stopped(s, t) ==
  /\ s.out = "n_max" /\ t.out = "running"
  /\ t.pos = s.pos + 1 /\ t.state = s.state /\ t.cols = s.cols
  /\ t.destination = s.destination /\ t.lines_read = s.lines_read

(* The limit makes no difference to an iteration but one that reaches it.   *)
LEMMA LimitDoesNotMatter ==
  ASSUME NEW src, NEW p \in CallType, NEW r \in LocalsType, r.out = "running",
         Below(r.lines_read, p.n_max)
  PROVE  LET q == AllLines(p)
             s == IndexStep(src, p, r)
             t == IndexStep(src, q, r)
         IN  /\ Kind(src, q, r) = Kind(src, p, r)
             /\ ParseErrors(src, q, r) = ParseErrors(src, p, r)
             /\ \/ t = s /\ Below(s.lines_read, p.n_max) /\ s.out # "n_max"
                \/ /\ Stopped(s, t) /\ ~Below(s.lines_read, p.n_max)
                   /\ s.lines_read = r.lines_read + 1
                   /\ Kind(src, p, r) = "newline" /\ s.pos = r.pos
<1> DEFINE q    == AllLines(p)
           kind == Kind(src, p, r)
           s    == IndexStep(src, p, r)
           t    == IndexStep(src, q, r)
<1>1. /\ q.start = p.start /\ q.end = p.end /\ q.nl = p.nl /\ q.num_cols = p.num_cols
      /\ q.num_threads = p.num_threads /\ q.update_size = p.update_size
      /\ q.file_offset = p.file_offset /\ q.n_max = Unlimited
  BY DEF AllLines, CallType
<1> HIDE DEF q
<1>2. Kind(src, q, r) = kind
  <2>1. Below(r.lines_read, q.n_max)
    BY <1>1 DEF Below
  <2>2. QED  BY <1>1, <2>1 DEF Kind
<1>3. \A u : ResolveColumns(q, u) = ResolveColumns(p, u) /\ StartRecord(q, u) = StartRecord(p, u)
  BY <1>1 DEF ResolveColumns, StartRecord
<1>4. ParseErrors(src, q, r) = ParseErrors(src, p, r)
  <2>1. BadColumns(q, r) <=> BadColumns(p, r)
    BY <1>1 DEF BadColumns
  <2>2. QED  BY <1>1, <1>2, <2>1 DEF ParseErrors
<1>5. kind \in {"return", "escape", "comment", "empty", "delim", "newline", "quoted_nl",
                "quote", "other"}
  BY DEF Kind
<1>6. /\ r.pos \in Nat /\ r.lines_read \in Nat /\ p.file_offset \in Nat
      /\ r.pos + p.file_offset \in Nat /\ r.pos + 1 + p.file_offset \in Nat
      /\ r.state \in CsvState
  BY LocalsFields, CallFields
<1>7. \A u \in Rewritten(r) : u \in LocalsType /\ u.lines_read = r.lines_read
                                /\ u.out = "running" /\ u.pos = r.pos
  BY RewrittenType
<1>8. /\ StartRecord(p, r) \in Rewritten(r) /\ r \in Rewritten(r)
      /\ \A u \in Rewritten(r) : /\ ResolveColumns(p, u) \in Rewritten(r)
                                 /\ Push(u, r.pos + p.file_offset) \in Rewritten(r)
                                 /\ Push(u, r.pos + 1 + p.file_offset) \in Rewritten(r)
  BY <1>6, StartRecordType, PushType, ResolveColumnsType, PushAfter
<1> DEFINE Alike == t = s /\ Below(s.lines_read, p.n_max) /\ s.out # "n_max"
           Full  == /\ Stopped(s, t) /\ ~Below(s.lines_read, p.n_max)
                    /\ s.lines_read = r.lines_read + 1 /\ kind = "newline" /\ s.pos = r.pos
<1> SUFFICES Alike \/ Full
  BY <1>2, <1>4 DEF q
<1> HIDE DEF kind, s, t
<1>9. ASSUME t = s, s.lines_read = r.lines_read, s.out # "n_max" PROVE Alike
  BY <1>9
<1>10. CASE kind = "return"
  <2>1. t = s /\ s = [r EXCEPT !.last_tick = p.end, !.out = "end"]
    BY <1>1, <1>2, <1>10 DEF IndexStep, kind, s, t
  <2>2. s.lines_read = r.lines_read /\ s.out # "n_max"
    BY <2>1 DEF LocalsType
  <2>3. QED  BY <1>9, <2>1, <2>2
<1>11. CASE kind = "escape"
  <2> DEFINE u == IF r.state = "RECORD_START"
                  THEN [Push(r, r.pos + 1 + p.file_offset) EXCEPT !.state = "FIELD_START"]
                  ELSE r
  <2>1. t = s /\ s = [u EXCEPT !.pos = r.pos + 2]
    BY <1>1, <1>2, <1>11 DEF IndexStep, Escape, kind, s, t
  <2>2. u \in LocalsType /\ u.lines_read = r.lines_read /\ u.out = "running"
    <3>1. /\ Push(r, r.pos + 1 + p.file_offset) \in LocalsType
          /\ Push(r, r.pos + 1 + p.file_offset).lines_read = r.lines_read
          /\ Push(r, r.pos + 1 + p.file_offset).out = "running"
      BY <1>7, <1>8
    <3>2. QED  BY <3>1 DEF LocalsType, CsvState
  <2> HIDE DEF u
  <2>3. s.lines_read = r.lines_read /\ s.out # "n_max"
    BY <2>1, <2>2 DEF LocalsType
  <2>4. QED  BY <1>9, <2>1, <2>3
<1>12. CASE kind = "comment"
  <2> DEFINE u == IF r.state = "RECORD_START" THEN r
                  ELSE Push(ResolveColumns(p, r), r.pos + p.file_offset)
  <2>1. t = s /\ s = [u EXCEPT !.cols = 0, !.pos = SkipRestOfLine(src, r.pos) + 1,
                               !.state = NewlineState(r.state)]
    BY <1>1, <1>2, <1>3, <1>12 DEF IndexStep, SkipComment, kind, s, t
  <2>2. u \in LocalsType /\ u.lines_read = r.lines_read /\ u.out = "running"
    BY <1>7, <1>8
  <2> HIDE DEF u
  <2>3. s.lines_read = r.lines_read /\ s.out # "n_max"
    BY <2>1, <2>2 DEF LocalsType
  <2>4. QED  BY <1>9, <2>1, <2>3
<1>13. CASE kind = "empty"
  <2>1. t = s /\ s = [r EXCEPT !.pos = SkipRestOfLine(src, r.pos) + 1]
    BY <1>2, <1>13 DEF IndexStep, SkipEmptyLine, kind, s, t
  <2>2. s.lines_read = r.lines_read /\ s.out # "n_max"
    BY <2>1 DEF LocalsType
  <2>3. QED  BY <1>9, <2>1, <2>2
<1>14. CASE kind = "delim"
  <2> DEFINE u == Push(StartRecord(p, r), r.pos + p.file_offset)
  <2>1. t = s /\ s = [u EXCEPT !.state = CommaState(r.state), !.cols = @ + 1, !.pos = @ + 1]
    BY <1>1, <1>2, <1>3, <1>14 DEF IndexStep, Delimiter, kind, s, t
  <2>2. u \in LocalsType /\ u.lines_read = r.lines_read /\ u.out = "running"
    BY <1>7, <1>8
  <2> HIDE DEF u
  <2>3. s.lines_read = r.lines_read /\ s.out # "n_max"
    BY <2>1, <2>2 DEF LocalsType
  <2>4. QED  BY <1>9, <2>1, <2>3
<1>15. CASE kind = "newline"
  <2> DEFINE u == Push(ResolveColumns(p, StartRecord(p, r)), r.pos + p.file_offset)
             v == [u EXCEPT !.state = NewlineState(r.state), !.cols = 0, !.lines_read = @ + 1]
             stop == [v EXCEPT !.out = "n_max"]
             go   == [v EXCEPT !.pos = @ + 1,
                               !.last_tick = IF r.pos - @ > p.update_size THEN r.pos ELSE @]
  <2>1. s = EndRecord(p, r) /\ t = EndRecord(q, r)
    BY <1>2, <1>15 DEF IndexStep, kind, s, t
  <2>2. /\ s = IF ~Below(v.lines_read, p.n_max) THEN stop ELSE go
        /\ t = go
    <3>1. s = IF ~Below(v.lines_read, p.n_max) THEN stop ELSE go
      BY <2>1 DEF EndRecord
    <3>2. t = IF ~Below(v.lines_read, q.n_max) THEN stop ELSE go
      <4>1. PICK w : /\ w = Push(ResolveColumns(p, StartRecord(p, r)), r.pos + p.file_offset)
                     /\ w = Push(ResolveColumns(q, StartRecord(q, r)), r.pos + q.file_offset)
        BY <1>1, <1>3
      <4>2. QED  BY <1>1, <2>1, <4>1 DEF EndRecord
    <3>3. Below(v.lines_read, q.n_max)
      BY <1>1 DEF Below
    <3>4. QED  BY <3>1, <3>2, <3>3
  <2>3. u \in LocalsType /\ u.lines_read = r.lines_read /\ u.out = "running" /\ u.pos = r.pos
    BY <1>7, <1>8
  <2> HIDE DEF u
  <2>4. /\ v.lines_read = r.lines_read + 1 /\ v.out = "running" /\ v.pos = r.pos
        /\ v \in LocalsType
    <3>1. NewlineState(r.state) \in CsvState
      BY <1>6, StateType
    <3>2. v.lines_read = u.lines_read + 1 /\ v.out = u.out /\ v.pos = u.pos
      BY <2>3 DEF LocalsType
    <3>3. v \in LocalsType
      <4>1. u.lines_read + 1 \in Nat
        BY <1>6, <2>3
      <4>2. QED  BY <2>3, <3>1, <4>1 DEF LocalsType
    <3> HIDE DEF v
    <3>4. QED  BY <2>3, <3>2, <3>3
  <2> HIDE DEF v
  <2>5. /\ stop.out = "n_max" /\ stop.pos = r.pos /\ stop.state = v.state /\ stop.cols = v.cols
        /\ stop.destination = v.destination /\ stop.lines_read = v.lines_read
        /\ go.out = "running" /\ go.pos = r.pos + 1 /\ go.state = v.state /\ go.cols = v.cols
        /\ go.destination = v.destination /\ go.lines_read = v.lines_read
    BY <2>4 DEF LocalsType
  <2> HIDE DEF stop, go
  <2>6. CASE Below(v.lines_read, p.n_max)
    <3>1. s = go /\ t = go
      BY <2>2, <2>6
    <3>2. QED  BY <2>5, <2>6, <3>1
  <2>7. CASE ~Below(v.lines_read, p.n_max)
    <3>1. s = stop /\ t = go
      BY <2>2, <2>7
    <3>2. QED  BY <1>15, <2>4, <2>5, <2>7, <3>1 DEF Stopped
  <2>8. QED  BY <2>6, <2>7
<1>16. CASE kind = "quoted_nl"
  <2>1. t = s /\ s = QuotedNewline(p, r)
    BY <1>1, <1>2, <1>16 DEF IndexStep, QuotedNewline, kind, s, t
  <2>2. s.lines_read = r.lines_read /\ s.out # "n_max"
    <3>1. s = [r EXCEPT !.out = "newline_error"] \/ s = [r EXCEPT !.pos = @ + 1]
      BY <2>1 DEF QuotedNewline
    <3>2. QED  BY <3>1 DEF LocalsType
  <2>3. QED  BY <1>9, <2>1, <2>2
<1>17. CASE kind = "quote"
  <2> DEFINE u == StartRecord(p, r)
  <2>1. t = s /\ s = [u EXCEPT !.state = QuotedState(r.state), !.pos = @ + 1]
    BY <1>2, <1>3, <1>17 DEF IndexStep, QuoteChar, kind, s, t
  <2>2. u \in LocalsType /\ u.lines_read = r.lines_read /\ u.out = "running"
    BY <1>7, <1>8
  <2> HIDE DEF u
  <2>3. s.lines_read = r.lines_read /\ s.out # "n_max"
    BY <2>1, <2>2 DEF LocalsType
  <2>4. QED  BY <1>9, <2>1, <2>3
<1>18. CASE kind = "other"
  <2> DEFINE u == StartRecord(p, r)
             pos == IF u.pos + 1 < p.end THEN FirstOf(src, u.pos + 1, Query(p.nl)) ELSE u.pos + 1
  <2>1. t = s /\ s = [u EXCEPT !.state = OtherState(r.state), !.pos = pos]
    BY <1>1, <1>2, <1>3, <1>18 DEF IndexStep, OtherChars, kind, s, t
  <2>2. u \in LocalsType /\ u.lines_read = r.lines_read /\ u.out = "running"
    BY <1>7, <1>8
  <2> HIDE DEF u, pos
  <2>3. s.lines_read = r.lines_read /\ s.out # "n_max"
    BY <2>1, <2>2 DEF LocalsType
  <2>4. QED  BY <1>9, <2>1, <2>3
<1>19. QED
  BY <1>5, <1>10, <1>11, <1>12, <1>13, <1>14, <1>15, <1>16, <1>17, <1>18

(* Searches stop at a line feed before the end. *)
LEMMA StopsBeforeEnd ==
  ASSUME NEW src \in File, NEW end \in Nat, 0 < end, end <= Len(src), At(src, end - 1) = "lf",
         NEW pos \in Nat, pos < end, NEW chars, "lf" \in chars
  PROVE  FirstOf(src, pos, chars) \in pos .. (end - 1)
<1>1. Len(src) \in Nat /\ src \in Seq(Char)
  BY DEF File
<1> DEFINE q == FirstOf(src, pos, chars)
<1>2. q \in pos .. Len(src) /\ \A k \in pos .. (q - 1) : At(src, k) \notin chars
  BY <1>1, FirstOfStops
<1> HIDE DEF q
<1>3. ~(end - 1 \in pos .. (q - 1))
  BY <1>2
<1>4. QED  BY <1>1, <1>2, <1>3 DEF q

(* A call of one thread for the lines up to a line feed, after the columns  *)
(* have been counted.                                                       *)
RecordsCall(src, p) ==
  /\ p \in CallType
  /\ 0 < p.end /\ p.end <= Len(src) /\ At(src, p.end - 1) = "lf" /\ p.nl = "lf"
  /\ p.num_threads = 1 /\ p.num_cols > 0

(* A comment has its line for itself: it does not end a record.             *)
CommentsStartLines(src) ==
  HasComment => \A q \in 1 .. (Len(src) - 1) : At(src, q) = "hash" => At(src, q - 1) = "lf"

(* So long are n rows. *)
RowsLength(p, n) == n * (p.num_cols + 1)

LEMMA RowsAddUp ==
  ASSUME NEW p \in CallType, NEW n \in Nat
  PROVE  /\ RowsLength(p, n) \in Nat
         /\ RowsLength(p, n + 1) = RowsLength(p, n) + p.num_cols + 1
         /\ \A m \in Nat : m <= n => RowsLength(p, m) <= RowsLength(p, n)
<1>1. PICK d \in Nat : d = p.num_cols + 1 /\ p.num_cols \in Nat
  BY CallFields
<1>2. n * d \in Nat /\ (n + 1) * d = n * d + d
  OBVIOUS
<1>3. ASSUME NEW m \in Nat, m <= n PROVE m * d <= n * d
  <2>1. PICK k \in Nat : n = m + k
    <3>1. n - m \in Nat /\ n = m + (n - m)
      BY <1>3
    <3>2. QED  BY <3>1
  <2>2. (m + k) * d = m * d + k * d /\ k * d \in Nat /\ m * d \in Nat
    OBVIOUS
  <2>3. QED  BY <2>1, <2>2
<1>4. RowsLength(p, n + 1) = RowsLength(p, n) + p.num_cols + 1
  BY <1>1, <1>2 DEF RowsLength
<1>5. QED  BY <1>1, <1>2, <1>3, <1>4 DEF RowsLength

(* What a destination begins with. *)
StartsWith(D, e) == \E d \in Seq(Nat) : e = D \o d

(* Each line that has been read has its row in the destination, and a       *)
(* record that has been started a separator for each of its columns so far. *)
(* Outside of quotes it has not come to the end of its line.  D are the     *)
(* first n of the rows.                                                     *)
RowsRead(src, p, D, n, r) ==
  /\ p.start <= r.pos /\ r.pos <= p.end
  /\ n <= r.lines_read /\ Len(D) = RowsLength(p, n) /\ StartsWith(D, r.destination)
  /\ IF r.state = "RECORD_START"
     THEN r.cols = 0 /\ Len(r.destination) = RowsLength(p, r.lines_read)
     ELSE /\ p.start < r.pos
          /\ Len(r.destination) = RowsLength(p, r.lines_read) + 1 + r.cols
          /\ r.state # "QUOTED_FIELD" => At(src, r.pos - 1) # "lf"

(* Another separator leaves those before it,                                *)
LEMMA PushBegins ==
  ASSUME NEW D \in Seq(Nat), NEW r \in LocalsType, StartsWith(D, r.destination), NEW pos \in Nat
  PROVE  StartsWith(D, Push(r, pos).destination)
<1>1. PICK d \in Seq(Nat) : r.destination = D \o d
  BY DEF StartsWith
<1>2. Push(r, pos).destination = Append(D \o d, pos)
  BY <1>1 DEF Push, LocalsType
<1>3. Append(D \o d, pos) = D \o Append(d, pos)
  BY AtItsEnd
<1>4. Append(d, pos) \in Seq(Nat)
  OBVIOUS
<1>5. QED  BY <1>2, <1>3, <1>4 DEF StartsWith

(* and so does resolve_columns, if they are not of the record.              *)
LEMMA ResolveColumnsBegins ==
  ASSUME NEW p \in CallType, NEW D \in Seq(Nat), NEW r \in LocalsType,
         StartsWith(D, r.destination), p.start < r.pos, p.num_cols > 0,
         Len(D) + 1 + r.cols <= Len(r.destination)
  PROVE  StartsWith(D, ResolveColumns(p, r).destination)
<1>1. PICK d \in Seq(Nat) : r.destination = D \o d
  BY DEF StartsWith
<1>2. PICK cols, num_cols, len, own, here \in Nat :
        /\ cols = r.cols /\ num_cols = p.num_cols /\ len = Len(D) /\ own = Len(d)
        /\ here = r.pos + p.file_offset
  <2>1. r.pos \in Nat /\ r.cols \in Nat /\ p.file_offset \in Nat /\ p.num_cols \in Nat
    BY LocalsFields, CallFields
  <2>2. r.pos + p.file_offset \in Nat
    BY <2>1
  <2>3. Len(D) \in Nat /\ Len(d) \in Nat
    OBVIOUS
  <2>4. QED  BY <2>1, <2>2, <2>3
<1>3. 1 + cols <= own
  <2>1. Len(D \o d) = len + own
    BY <1>2
  <2>2. len + 1 + cols <= len + own
    BY <1>1, <1>2, <2>1
  <2>3. QED  BY <2>2
<1>4. ~(p.num_cols = 0 \/ r.pos <= p.start)
  <2>1. r.pos \in Nat /\ p.start \in Nat /\ p.num_cols \in Nat
    BY LocalsFields, CallFields
  <2>2. QED  BY <2>1
<1>5. \A e : [r EXCEPT !.destination = e].destination = e
  BY DEF LocalsType
<1>6. CASE cols >= num_cols
  <2>1. PICK n \in 0 .. Len(d) : n = cols - num_cols + 1
    BY <1>2, <1>3, <1>6
  <2>2. ResolveColumns(p, r).destination = SubSeq(D \o d, 1, Len(D \o d) - n)
    BY <1>1, <1>2, <1>4, <1>5, <1>6, <2>1 DEF ResolveColumns
  <2>3. SubSeq(D \o d, 1, Len(D \o d) - n) = D \o SubSeq(d, 1, Len(d) - n)
    BY AtItsEnd
  <2>4. SubSeq(d, 1, Len(d) - n) \in Seq(Nat)
    OBVIOUS
  <2>5. QED  BY <2>2, <2>3, <2>4 DEF StartsWith
<1>7. CASE ~(cols >= num_cols)
  <2> DEFINE pad == [k \in 1 .. (num_cols - 1 - cols) |-> here]
  <2>1. pad \in Seq(Nat)
    <3>1. num_cols - 1 - cols \in Nat
      BY <1>7
    <3>2. QED  BY <3>1
  <2>2. ResolveColumns(p, r).destination = (D \o d) \o pad
    BY <1>1, <1>2, <1>4, <1>5, <1>7 DEF ResolveColumns
  <2> HIDE DEF pad
  <2>3. (D \o d) \o pad = D \o (d \o pad)
    BY <2>1, AtItsEnd
  <2>4. d \o pad \in Seq(Nat)
    BY <2>1
  <2>5. QED  BY <2>2, <2>3, <2>4 DEF StartsWith
<1>8. QED  BY <1>6, <1>7

(* A record that is there or begins here has one separator more than        *)
(* columns so far.                                                          *)
LEMMA RecordBegun ==
  ASSUME NEW src, NEW p \in CallType, NEW D \in Seq(Nat), NEW n \in Nat, NEW r \in LocalsType,
         RowsRead(src, p, D, n, r)
  PROVE  LET t == StartRecord(p, r)
         IN  /\ t \in LocalsType /\ t.pos = r.pos /\ t.cols = r.cols /\ t.out = r.out
             /\ t.lines_read = r.lines_read
             /\ StartsWith(D, t.destination)
             /\ Len(t.destination) = RowsLength(p, r.lines_read) + 1 + r.cols
<1> DEFINE t == StartRecord(p, r)
<1>1. r.pos + p.file_offset \in Nat /\ r.lines_read \in Nat
  BY LocalsFields, CallFields
<1>2. /\ t \in LocalsType /\ t.pos = r.pos /\ t.cols = r.cols /\ t.out = r.out
      /\ t.lines_read = r.lines_read
  BY StartRecordType, RewrittenType
<1>3. CASE r.state = "RECORD_START"
  <2>1. t = Push(r, r.pos + p.file_offset)
    BY <1>3 DEF StartRecord
  <2>2. Len(t.destination) = Len(r.destination) + 1 /\ StartsWith(D, t.destination)
    BY <1>1, <2>1, PushLength, PushBegins DEF RowsRead
  <2>3. r.cols = 0 /\ Len(r.destination) = RowsLength(p, r.lines_read)
    BY <1>3 DEF RowsRead
  <2>4. RowsLength(p, r.lines_read) \in Nat
    BY <1>1, RowsAddUp
  <2>5. QED  BY <1>2, <2>2, <2>3, <2>4
<1>4. CASE r.state # "RECORD_START"
  <2>1. t = r
    BY <1>4 DEF StartRecord
  <2>2. QED  BY <1>2, <1>4, <2>1 DEF RowsRead
<1>5. QED  BY <1>3, <1>4

(* The end of a record makes it a row.                                      *)
LEMMA RowAdded ==
  ASSUME NEW src, NEW p \in CallType, p.num_cols > 0, NEW D \in Seq(Nat), NEW n \in Nat,
         NEW r \in LocalsType, RowsRead(src, p, D, n, r), r.state # "RECORD_START"
  PROVE  LET t == Push(ResolveColumns(p, r), r.pos + p.file_offset)
         IN  /\ t \in LocalsType /\ t.pos = r.pos /\ t.out = r.out
             /\ t.lines_read = r.lines_read
             /\ StartsWith(D, t.destination)
             /\ Len(t.destination) = RowsLength(p, r.lines_read + 1)
<1> DEFINE u == ResolveColumns(p, r)
           t == Push(u, r.pos + p.file_offset)
<1>1. /\ r.pos + p.file_offset \in Nat /\ r.cols \in Nat
      /\ r.lines_read \in Nat /\ p.num_cols \in Nat
      /\ p.start < r.pos
  <2>1. r.pos \in Nat /\ p.file_offset \in Nat /\ p.num_cols \in Nat
    BY LocalsFields, CallFields
  <2>2. p.start < r.pos
    BY DEF RowsRead
  <2>3. QED  BY <2>1, <2>2, LocalsFields
<1>2. PICK l, before, cols, num_cols, total \in Nat :
        /\ l = r.lines_read /\ before = RowsLength(p, r.lines_read) /\ cols = r.cols
        /\ num_cols = p.num_cols /\ total = Len(r.destination)
        /\ Len(D) \in Nat /\ Len(D) <= before
        /\ total = before + 1 + cols
  <2>1. RowsLength(p, r.lines_read) \in Nat
    BY <1>1, RowsAddUp
  <2>2. RowsLength(p, n) <= RowsLength(p, r.lines_read) /\ Len(D) = RowsLength(p, n)
    BY <1>1, RowsAddUp DEF RowsRead
  <2>3. Len(r.destination) = RowsLength(p, r.lines_read) + 1 + r.cols
    BY DEF RowsRead
  <2>4. Len(r.destination) \in Nat /\ Len(D) \in Nat
    BY LocalsFields
  <2>5. QED  BY <1>1, <2>1, <2>2, <2>3, <2>4
<1>3. Len(D) + 1 + r.cols <= Len(r.destination) /\ r.cols < Len(r.destination)
  <2>1. \A a, b, c \in Nat : a <= b => a + 1 + c <= b + 1 + c /\ c < b + 1 + c
    OBVIOUS
  <2>2. QED  BY <1>2, <2>1
<1>4. u \in LocalsType /\ u \in Rewritten(r)
  BY PushType, ResolveColumnsType, RewrittenType
<1>5. StartsWith(D, u.destination)
  BY <1>1, <1>3, ResolveColumnsBegins DEF RowsRead
<1>6. Len(u.destination) = before + num_cols
  <2>1. Len(u.destination) = Len(r.destination) - r.cols + p.num_cols - 1
    BY <1>1, <1>3, ResolvedLength
  <2>2. \A a, c, d \in Nat : (a + 1 + c) - c + d - 1 = a + d
    OBVIOUS
  <2>3. (before + 1 + cols) - cols + num_cols - 1 = before + num_cols
    BY <2>2
  <2>4. QED  BY <1>2, <2>1, <2>3
<1>7. t \in Rewritten(r)
  BY <1>1, <1>4, PushAfter
<1> HIDE DEF u
<1>8. Len(t.destination) = before + num_cols + 1 /\ StartsWith(D, t.destination)
  <2>1. Len(t.destination) = Len(u.destination) + 1
    BY <1>1, <1>4, PushLength
  <2>2. StartsWith(D, t.destination)
    BY <1>1, <1>4, <1>5, PushBegins
  <2>3. QED  BY <1>6, <2>1, <2>2
<1>9. RowsLength(p, r.lines_read + 1) = before + num_cols + 1
  BY <1>1, <1>2, RowsAddUp
<1>10. /\ t \in LocalsType /\ t.pos = r.pos /\ t.out = r.out /\ t.lines_read = r.lines_read
  BY <1>7, RewrittenType
<1>11. QED  BY <1>8, <1>9, <1>10 DEF u

(* An iteration of one thread keeps the rows, and does not give up; the     *)
(* call stops at its end, or between two records.                           *)
LEMMA StepReadsRows ==
  ASSUME NEW src \in File, NEW p, RecordsCall(src, p), SkipEmptyRows, ~EscapeBackslash,
         CommentsStartLines(src), NEW D \in Seq(Nat), NEW n \in Nat,
         NEW r \in LocalsType, r.out = "running", RowsRead(src, p, D, n, r)
  PROVE  LET s == IndexStep(src, p, r)
         IN  /\ RowsRead(src, p, D, n, s)
             /\ s.out \in {"running", "end", "n_max"}
             /\ s.out = "n_max" => s.state = "RECORD_START"
<1> DEFINE kind == Kind(src, p, r)
           c    == At(src, r.pos)
           s    == IndexStep(src, p, r)
<1>1. /\ p \in CallType /\ p.end \in Nat /\ p.start \in Nat /\ p.end <= Len(src)
      /\ Len(src) \in Nat /\ 0 < p.end /\ At(src, p.end - 1) = "lf" /\ p.nl = "lf"
      /\ p.num_threads = 1 /\ p.num_cols > 0
  <2>1. /\ p \in CallType /\ p.end <= Len(src) /\ 0 < p.end /\ At(src, p.end - 1) = "lf"
        /\ p.nl = "lf" /\ p.num_threads = 1 /\ p.num_cols > 0
    BY DEF RecordsCall
  <2>2. p.end \in Nat /\ p.start \in Nat
    BY <2>1, CallFields
  <2>3. Len(src) \in Nat
    BY DEF File
  <2>4. QED  BY <2>1, <2>2, <2>3
<1>2. /\ r.pos \in Nat /\ r.cols \in Nat /\ r.state \in CsvState /\ r.lines_read \in Nat
      /\ r.pos + p.file_offset \in Nat
  <2>1. p.file_offset \in Nat
    BY <1>1, CallFields
  <2>2. /\ r.pos \in Nat /\ r.cols \in Nat /\ r.state \in CsvState /\ r.lines_read \in Nat
    BY LocalsFields
  <2>3. QED  BY <2>1, <2>2
<1>3. p.start <= r.pos /\ r.pos <= p.end /\ n <= r.lines_read /\ Len(D) = RowsLength(p, n)
  BY DEF RowsRead
<1>4. kind # "return" => r.pos < p.end
  BY <1>1, <1>2 DEF Kind
<1>5. r.pos < p.end /\ c # "lf" => r.pos + 1 < p.end
  <2>1. c # "lf" => r.pos # p.end - 1
    BY <1>1
  <2>2. \A a, b \in Nat : a < b /\ a # b - 1 => a + 1 < b
    OBVIOUS
  <2>3. QED  BY <1>1, <1>2, <2>1, <2>2
<1>6. r.pos < p.end => SkipRestOfLine(src, r.pos) \in r.pos .. (p.end - 1)
  BY <1>1, <1>2, StopsBeforeEnd DEF SkipRestOfLine
<1>7. kind \in {"return", "escape", "comment", "empty", "delim", "newline", "quoted_nl",
                "quote", "other"}
  BY DEF Kind
<1> DEFINE Ahead(at) == /\ p.start < at /\ at <= p.end /\ at \in Nat /\ at - 1 = r.pos
<1>8. r.pos < p.end => Ahead(r.pos + 1)
  <2>1. \A a, b, e \in Nat : a <= b /\ b < e =>
                            a < b + 1 /\ b + 1 <= e /\ b + 1 \in Nat /\ (b + 1) - 1 = b
    OBVIOUS
  <2>2. QED  BY <1>1, <1>2, <1>3, <2>1
<1> DEFINE Goal == /\ RowsRead(src, p, D, n, s)
                   /\ s.out \in {"running", "end", "n_max"}
                   /\ s.out = "n_max" => s.state = "RECORD_START"
<1>9. ASSUME p.start <= s.pos, s.pos <= p.end, s.state = "RECORD_START", s.cols = 0,
             n <= s.lines_read, StartsWith(D, s.destination),
             Len(s.destination) = RowsLength(p, s.lines_read),
             s.out \in {"running", "end", "n_max"}
      PROVE  Goal
  BY <1>3, <1>9 DEF RowsRead
<1>10. ASSUME p.start < s.pos, s.pos <= p.end, s.pos \in Nat, s.state # "RECORD_START",
             s.state # "QUOTED_FIELD" => At(src, s.pos - 1) # "lf",
             s.lines_read = r.lines_read, StartsWith(D, s.destination),
             Len(s.destination) = RowsLength(p, s.lines_read) + 1 + s.cols,
             s.out \in {"running", "end"}
      PROVE  Goal
  <2>1. p.start <= s.pos
    BY <1>1, <1>10
  <2>2. QED  BY <1>3, <1>10, <2>1 DEF RowsRead
<1> SUFFICES Goal
  OBVIOUS
<1> HIDE DEF kind, s, Goal
<1>11. CASE kind = "return"
  <2>1. s = [r EXCEPT !.last_tick = p.end, !.out = "end"]
    BY <1>11 DEF IndexStep, kind, s
  <2>2. /\ s.pos = r.pos /\ s.state = r.state /\ s.cols = r.cols /\ s.lines_read = r.lines_read
        /\ s.destination = r.destination /\ s.out = "end"
    BY <2>1 DEF LocalsType
  <2>3. QED  BY <2>2 DEF RowsRead, Goal
<1>12. CASE kind = "comment"
  <2>1. r.pos < p.end /\ r.state # "QUOTED_FIELD" /\ c = "hash" /\ HasComment
    BY <1>4, <1>12 DEF Kind, IsComment, kind
  <2>2. r.state = "RECORD_START"
    <3> SUFFICES ASSUME r.state # "RECORD_START" PROVE FALSE
      OBVIOUS
    <3>1. At(src, r.pos - 1) # "lf" /\ p.start < r.pos
      BY <2>1 DEF RowsRead
    <3>2. r.pos \in 1 .. (Len(src) - 1)
      BY <1>1, <1>2, <2>1, <3>1
    <3>3. QED  BY <2>1, <3>1, <3>2 DEF CommentsStartLines
  <2>3. s = [r EXCEPT !.cols = 0, !.pos = SkipRestOfLine(src, r.pos) + 1,
                      !.state = "RECORD_START"]
    BY <1>12, <2>2 DEF IndexStep, SkipComment, NewlineState, kind, s
  <2>4. /\ s.pos = SkipRestOfLine(src, r.pos) + 1 /\ s.state = "RECORD_START" /\ s.cols = 0
        /\ s.lines_read = r.lines_read /\ s.destination = r.destination /\ s.out = "running"
    BY <2>3 DEF LocalsType
  <2>5. p.start <= s.pos /\ s.pos <= p.end
    BY <1>1, <1>2, <1>3, <1>6, <2>1, <2>4
  <2>6. StartsWith(D, s.destination) /\ Len(s.destination) = RowsLength(p, s.lines_read)
    BY <2>2, <2>4 DEF RowsRead
  <2>7. QED  BY <1>3, <1>9, <2>4, <2>5, <2>6
<1>13. CASE kind = "empty"
  <2>1. r.pos < p.end /\ r.state = "RECORD_START"
    BY <1>4, <1>13 DEF Kind, kind
  <2>2. s = [r EXCEPT !.pos = SkipRestOfLine(src, r.pos) + 1]
    BY <1>13 DEF IndexStep, SkipEmptyLine, kind, s
  <2>3. /\ s.pos = SkipRestOfLine(src, r.pos) + 1 /\ s.state = "RECORD_START"
        /\ s.cols = r.cols /\ s.lines_read = r.lines_read /\ s.destination = r.destination
        /\ s.out = "running"
    BY <2>1, <2>2 DEF LocalsType
  <2>4. p.start <= s.pos /\ s.pos <= p.end
    BY <1>1, <1>2, <1>3, <1>6, <2>1, <2>3
  <2>5. /\ r.cols = 0 /\ StartsWith(D, s.destination)
        /\ Len(s.destination) = RowsLength(p, s.lines_read)
    BY <2>1, <2>3 DEF RowsRead
  <2>6. QED  BY <1>3, <1>9, <2>3, <2>4, <2>5
<1> DEFINE t == StartRecord(p, r)
<1>14. /\ t \in LocalsType /\ t.pos = r.pos /\ t.cols = r.cols /\ t.out = r.out
       /\ t.lines_read = r.lines_read /\ StartsWith(D, t.destination)
       /\ Len(t.destination) = RowsLength(p, r.lines_read) + 1 + r.cols
  BY <1>1, RecordBegun
<1> HIDE DEF t
<1>15. CASE kind = "delim"
  <2>1. r.pos < p.end /\ r.state # "QUOTED_FIELD" /\ c = "delim"
    BY <1>4, <1>15 DEF Kind, kind
  <2> DEFINE u == Push(t, r.pos + p.file_offset)
  <2>2. s = [u EXCEPT !.state = "FIELD_START", !.cols = @ + 1, !.pos = @ + 1]
    BY <1>15, <2>1 DEF IndexStep, Delimiter, CommaState, kind, s, t
  <2>3. u \in LocalsType /\ u.pos = r.pos /\ u.cols = r.cols /\ u.out = r.out
        /\ u.lines_read = r.lines_read
    <3>1. u \in Rewritten(t)
      BY <1>2, <1>14, PushType
    <3>2. QED  BY <1>14, <3>1, RewrittenType
  <2>4. /\ StartsWith(D, u.destination)
        /\ Len(u.destination) = RowsLength(p, r.lines_read) + 1 + (r.cols + 1)
    <3>1. Len(u.destination) = Len(t.destination) + 1 /\ StartsWith(D, u.destination)
      BY <1>2, <1>14, PushLength, PushBegins
    <3>2. RowsLength(p, r.lines_read) \in Nat
      BY <1>1, <1>2, RowsAddUp
    <3>3. \A a, b \in Nat : (a + 1 + b) + 1 = a + 1 + (b + 1)
      OBVIOUS
    <3>4. QED  BY <1>2, <1>14, <3>1, <3>2, <3>3
  <2> HIDE DEF u
  <2>5. /\ s.state = "FIELD_START" /\ s.cols = r.cols + 1 /\ s.pos = r.pos + 1
        /\ s.out = "running" /\ s.lines_read = r.lines_read /\ s.destination = u.destination
    BY <2>2, <2>3 DEF LocalsType
  <2>6. /\ p.start < s.pos /\ s.pos <= p.end /\ s.pos \in Nat /\ s.pos - 1 = r.pos
    BY <1>8, <2>1, <2>5
  <2>7. QED  BY <1>10, <2>1, <2>4, <2>5, <2>6
<1>16. CASE kind = "newline"
  <2>1. r.pos < p.end /\ c = "lf" /\ r.state # "QUOTED_FIELD"
    BY <1>1, <1>4, <1>16 DEF Kind, kind
  <2>2. r.state # "RECORD_START"
    <3>1. IsEmptyLine(src, r.pos, p.end)
      BY <1>1, <1>2, <2>1, LineFeedIsEmpty
    <3>2. QED  BY <1>16, <3>1 DEF Kind, kind
  <2> DEFINE u == Push(ResolveColumns(p, r), r.pos + p.file_offset)
             v == [u EXCEPT !.state = "RECORD_START", !.cols = 0, !.lines_read = @ + 1]
             stop == [v EXCEPT !.out = "n_max"]
             go   == [v EXCEPT !.pos = @ + 1,
                               !.last_tick = IF r.pos - @ > p.update_size THEN r.pos ELSE @]
  <2>3. s \in {stop, go}
    BY <1>16, <2>1, <2>2 DEF IndexStep, EndRecord, StartRecord, NewlineState, kind, s
  <2>4. /\ u \in LocalsType /\ u.pos = r.pos /\ u.out = r.out /\ u.lines_read = r.lines_read
        /\ StartsWith(D, u.destination)
        /\ Len(u.destination) = RowsLength(p, r.lines_read + 1)
    BY <1>1, <2>2, RowAdded
  <2> HIDE DEF u
  <2>5. /\ v.state = "RECORD_START" /\ v.cols = 0 /\ v.lines_read = r.lines_read + 1
        /\ v.pos = r.pos /\ v.out = "running" /\ v.destination = u.destination
        /\ v.last_tick = u.last_tick /\ DOMAIN v = DOMAIN u
    BY <2>4 DEF LocalsType
  <2>6. DOMAIN u = {"pos", "state", "cols", "destination", "lines_read", "last_tick", "out"}
    BY <2>4 DEF LocalsType
  <2> HIDE DEF v
  <2>7. /\ s.state = "RECORD_START" /\ s.cols = 0 /\ s.lines_read = r.lines_read + 1
        /\ s.pos \in {r.pos, r.pos + 1} /\ s.out \in {"running", "n_max"}
        /\ s.destination = u.destination
    <3>1. CASE s = stop
      BY <2>5, <2>6, <3>1
    <3>2. CASE s = go
      BY <2>5, <2>6, <3>2
    <3>3. QED  BY <2>3, <3>1, <3>2
  <2>8. p.start <= s.pos /\ s.pos <= p.end /\ n <= s.lines_read
    BY <1>1, <1>2, <1>3, <2>1, <2>7
  <2>9. QED  BY <1>9, <2>4, <2>7, <2>8
<1>17. CASE kind = "quoted_nl"
  <2>1. r.pos < p.end /\ r.state = "QUOTED_FIELD"
    BY <1>4, <1>17 DEF Kind, kind
  <2>2. s = [r EXCEPT !.pos = @ + 1]
    BY <1>1, <1>17 DEF IndexStep, QuotedNewline, kind, s
  <2>3. /\ s.pos = r.pos + 1 /\ s.state = "QUOTED_FIELD" /\ s.cols = r.cols
        /\ s.lines_read = r.lines_read /\ s.destination = r.destination /\ s.out = "running"
    BY <2>1, <2>2 DEF LocalsType
  <2>4. p.start < s.pos /\ s.pos <= p.end /\ s.pos \in Nat
    BY <1>1, <1>2, <1>3, <2>1, <2>3
  <2>5. /\ StartsWith(D, s.destination)
        /\ Len(s.destination) = RowsLength(p, s.lines_read) + 1 + s.cols
    BY <2>1, <2>3 DEF RowsRead
  <2>6. QED  BY <1>10, <2>3, <2>4, <2>5
<1>18. CASE kind = "quote"
  <2>1. r.pos < p.end /\ c = "quote"
    BY <1>4, <1>18 DEF Kind, IsQuote, kind
  <2>2. s = [t EXCEPT !.state = QuotedState(r.state), !.pos = @ + 1]
    BY <1>18 DEF IndexStep, QuoteChar, kind, s, t
  <2>3. /\ s.pos = r.pos + 1 /\ s.state = QuotedState(r.state) /\ s.cols = r.cols
        /\ s.lines_read = r.lines_read /\ s.destination = t.destination /\ s.out = "running"
    BY <1>14, <2>2 DEF LocalsType
  <2>4. p.start < s.pos /\ s.pos <= p.end /\ s.pos \in Nat /\ s.pos - 1 = r.pos
    BY <1>8, <2>1, <2>3
  <2>5. QuotedState(r.state) # "RECORD_START"
    BY <1>2 DEF QuotedState, CsvState
  <2>6. QED  BY <1>10, <1>14, <2>1, <2>3, <2>4, <2>5
<1>19. CASE kind = "other"
  <2>1. r.pos < p.end /\ c # "lf"
    BY <1>1, <1>4, <1>19 DEF Kind, kind
  <2>2. r.pos + 1 < p.end /\ r.pos + 1 \in Nat
    BY <1>2, <1>5, <2>1
  <2> DEFINE to == FirstOf(src, r.pos + 1, Query(p.nl))
  <2>3. to \in (r.pos + 1) .. (p.end - 1) /\ "lf" \in Query(p.nl)
    <3>1. "lf" \in Query(p.nl)
      BY <1>1 DEF Query
    <3>2. QED  BY <1>1, <2>2, <3>1, StopsBeforeEnd
  <2>4. \A k \in (r.pos + 1) .. (to - 1) : At(src, k) # "lf"
    <3>1. r.pos + 1 <= Len(src)
      BY <1>1, <2>2
    <3>2. QED  BY <1>1, <2>2, <2>3, <3>1, FirstOfStops
  <2>5. s = [t EXCEPT !.state = OtherState(r.state), !.pos = to]
    BY <1>14, <1>19, <2>2 DEF IndexStep, OtherChars, kind, s, t
  <2> HIDE DEF to
  <2>6. /\ s.pos = to /\ s.state = OtherState(r.state) /\ s.cols = r.cols
        /\ s.lines_read = r.lines_read /\ s.destination = t.destination /\ s.out = "running"
    BY <1>14, <2>5 DEF LocalsType
  <2>7. p.start < s.pos /\ s.pos <= p.end /\ s.pos \in Nat
    BY <1>1, <1>2, <1>3, <2>3, <2>6
  <2>8. At(src, s.pos - 1) # "lf"
    <3>1. to - 1 = r.pos \/ to - 1 \in (r.pos + 1) .. (to - 1)
      BY <1>2, <2>3
    <3>2. QED  BY <2>1, <2>4, <2>6, <3>1
  <2>9. OtherState(r.state) # "RECORD_START"
    BY <1>2 DEF OtherState, CsvState
  <2>10. QED  BY <1>10, <1>14, <2>6, <2>7, <2>8, <2>9
<1>20. kind # "escape"
  BY DEF Kind, kind
<1>21. QED
  BY <1>7, <1>11, <1>12, <1>13, <1>15, <1>16, <1>17, <1>18, <1>19, <1>20

(* What holds of a call that it comes by, and is kept by every turn, holds  *)
(* of its end.                                                              *)
LEMMA RunRegionGoesOn ==
  ASSUME NEW src, Len(src) \in Nat, NEW p \in CallType, p.end <= Len(src),
         p.start <= p.end, NEW entry \in LocalsType, entry.pos = p.start,
         entry.last_tick <= p.end,
         NEW Calls, NEW call \in Calls, Passes(src, p, entry, call),
         \A c \in Calls : c.locals.out = "running" => Turn(src, p, c) \in Calls
  PROVE  RunRegion(src, p, entry) \in Calls
<1> DEFINE N == p.end - p.start + 1
<1>1. N \in Nat
  BY CallFields
<1>2. PICK run \in [0 .. N -> CallsOf(p)] :
        /\ run[0] = Entered(entry)
        /\ \A n \in 1 .. N :
             run[n] = IF run[n - 1].locals.out # "running" THEN run[n - 1]
                      ELSE Turn(src, p, run[n - 1])
        /\ run[N] = RunRegion(src, p, entry)
  BY RunRegionStops
<1>3. RunRegion(src, p, entry).locals.out # "running"
  BY RunRegionStops
<1> HIDE DEF N
<1> DEFINE Turns == {run[n] : n \in 0 .. N}
<1>4. Entered(entry) \in Turns
  BY <1>1, <1>2
<1>5. ASSUME NEW c \in Turns, c.locals.out = "running" PROVE Turn(src, p, c) \in Turns
  <2>1. PICK n \in 0 .. N : c = run[n]
    OBVIOUS
  <2>2. n # N
    BY <1>2, <1>3, <1>5, <2>1
  <2>3. n + 1 \in 1 .. N /\ (n + 1) - 1 = n
    BY <1>1, <2>2
  <2>4. run[n + 1] = Turn(src, p, c)
    BY <1>2, <1>5, <2>1, <2>3
  <2>5. QED  BY <2>3, <2>4
<1>6. call \in Turns
  BY <1>4, <1>5 DEF Passes
<1>7. PICK m \in 0 .. N : call = run[m]
  BY <1>6
<1> DEFINE there == {n \in 0 .. N : n >= m => run[n] \in Calls}
<1>8. \A n \in 0 .. N : n \in there
  <2>1. 0 \in there
    BY <1>1, <1>7
  <2>2. ASSUME NEW n \in 1 .. N, n - 1 \in there PROVE n \in there
    <3>1. CASE n <= m
      BY <1>1, <1>7, <3>1
    <3>2. CASE n > m
      <4>1. run[n - 1] \in Calls
        BY <1>1, <1>7, <2>2, <3>2
      <4>2. run[n] = run[n - 1] \/ (/\ run[n - 1].locals.out = "running"
                                   /\ run[n] = Turn(src, p, run[n - 1]))
        BY <1>2
      <4>3. run[n] \in Calls
        BY <4>1, <4>2
      <4>4. n \in 0 .. N
        BY <1>1
      <4>5. QED  BY <4>3, <4>4
    <3>3. QED  BY <1>1, <3>1, <3>2
  <2> HIDE DEF there
  <2>3. QED  BY <1>1, <2>1, <2>2, UpTo
<1>9. N \in there /\ N >= m
  BY <1>1, <1>8
<1>10. QED  BY <1>2, <1>9

(* A call with a limit reads the lines that the one without it reads first, *)
(* or all of them.                                                          *)
LEMMA LimitedRuns ==
  ASSUME NEW src \in File, NEW p, RecordsCall(src, p), SkipEmptyRows, ~EscapeBackslash,
         CommentsStartLines(src), p.start <= p.end, p.n_max \in Nat \ {0}
  PROVE  LET entry == Enter(p, "RECORD_START", 0, <<>>)
             L     == RunRegion(src, p, entry).locals
             U     == RunRegion(src, AllLines(p), entry).locals
         IN  /\ L \in LocalsType /\ U \in LocalsType
             /\ L.state = "RECORD_START" =>
                  /\ Len(L.destination) = RowsLength(p, L.lines_read)
                  /\ \/ L.destination = U.destination /\ L.lines_read < p.n_max
                     \/ L.lines_read = p.n_max /\ StartsWith(L.destination, U.destination)
<1> DEFINE q      == AllLines(p)
           entry  == Enter(p, "RECORD_START", 0, <<>>)
           end(r) == r.pos < p.end => r.last_tick <= p.end
           beyond(r) == /\ r.lines_read = p.n_max
                        /\ \E d \in CallsOf(q) :
                             /\ Passes(src, q, entry, d) /\ d.locals.out = "running"
                             /\ RowsRead(src, q, <<>>, 0, d.locals)
                             /\ d.locals.state = r.state
                             /\ d.locals.destination = r.destination
                             /\ d.locals.lines_read = r.lines_read
           Alike  == {c \in CallsOf(q) :
                        /\ Passes(src, q, entry, c) /\ c.locals.out \in {"running", "end"}
                        /\ RowsRead(src, q, <<>>, 0, c.locals)
                        /\ Below(c.locals.lines_read, p.n_max)}
           Full   == {c \in CallsOf(q) :
                        c.locals.out = "n_max" /\ c.locals.state = "RECORD_START"
                          /\ beyond(c.locals)}
<1>1. /\ p \in CallType /\ p.start \in Nat /\ p.end \in Nat /\ p.end <= Len(src)
      /\ Len(src) \in Nat
  <2>1. p \in CallType /\ p.end <= Len(src)
    BY DEF RecordsCall
  <2>2. QED  BY <2>1, CallFields DEF File
<1>2. /\ q \in CallType /\ q.start = p.start /\ q.end = p.end /\ q.num_cols = p.num_cols
      /\ RecordsCall(src, q)
  <2>1. /\ q \in CallType /\ q.start = p.start /\ q.end = p.end /\ q.num_cols = p.num_cols
        /\ q.nl = p.nl /\ q.num_threads = p.num_threads
    BY <1>1 DEF AllLines, CallType
  <2>2. QED  BY <2>1 DEF RecordsCall
<1> HIDE DEF q
<1>3. /\ entry \in LocalsType /\ entry.pos = p.start /\ entry.last_tick = p.start
      /\ entry.out = "running" /\ entry.lines_read = 0 /\ entry.state = "RECORD_START"
      /\ entry.cols = 0 /\ entry.destination = <<>>
  <2>1. <<>> \in Seq(Nat)
    OBVIOUS
  <2>2. QED  BY <1>1, <2>1 DEF Enter, LocalsType, CsvState
<1> HIDE DEF entry
<1>4. CallsOf(q) = CallsOf(p)
  BY <1>2 DEF CallsOf
<1>5. /\ RunRegion(src, p, entry).locals \in LocalsType
      /\ RunRegion(src, q, entry).locals \in LocalsType
      /\ RunRegion(src, p, entry).locals.out # "running"
  <2>1. /\ RunRegion(src, p, entry) \in CallsOf(p)
        /\ RunRegion(src, p, entry).locals.out # "running"
    BY <1>1, <1>3, RunRegionStops
  <2>2. RunRegion(src, q, entry) \in CallsOf(q)
    BY <1>1, <1>2, <1>3, RunRegionStops
  <2>3. QED  BY <2>1, <2>2 DEF CallsOf
<1>6. Entered(entry) \in Alike
  <2>1. Passes(src, q, entry, Entered(entry))
    BY PassesFirst
  <2>2. Entered(entry).locals = entry /\ Entered(entry) \in CallsOf(q)
    <3>1. <<>> \in Seq([position : Nat, column : Nat])
      OBVIOUS
    <3>2. QED  BY <1>1, <1>2, <1>3, <3>1 DEF Entered, CallsOf
  <2>3. RowsRead(src, q, <<>>, 0, entry)
    <3>1. RowsLength(q, 0) = 0
      <4>1. q.num_cols + 1 \in Nat
        BY <1>2, CallFields
      <4>2. \A k \in Nat : 0 * k = 0
        OBVIOUS
      <4>3. QED  BY <4>1, <4>2 DEF RowsLength
    <3>2. StartsWith(<<>>, <<>>)
      <4>1. <<>> = <<>> \o <<>> /\ <<>> \in Seq(Nat)
        OBVIOUS
      <4>2. QED  BY <4>1 DEF StartsWith
    <3>3. Len(<<>>) = 0
      OBVIOUS
    <3>4. 0 <= entry.lines_read /\ q.start <= entry.pos /\ entry.pos <= q.end
      BY <1>1, <1>2, <1>3
    <3>5. QED  BY <1>3, <3>1, <3>2, <3>3, <3>4 DEF RowsRead
  <2>4. Below(entry.lines_read, p.n_max)
    BY <1>3 DEF Below
  <2>5. QED  BY <1>3, <2>1, <2>2, <2>3, <2>4
<1>7. ASSUME NEW c \in Alike, c.locals.out = "running"
      PROVE  Turn(src, p, c) \in Alike \union Full
  <2> DEFINE r == c.locals
             t == Turn(src, q, c)
  <2>1. /\ r \in LocalsType /\ c \in CallsOf(q) /\ Passes(src, q, entry, c)
        /\ RowsRead(src, q, <<>>, 0, r) /\ Below(r.lines_read, p.n_max)
        /\ r.lines_read \in Nat
    BY <1>7, LocalsFields DEF CallsOf
  <2>2. t \in CallsOf(q) /\ Passes(src, q, entry, t)
    BY <1>1, <1>2, <1>7, <2>1, TurnType, PassesNext
  <2>3. t.locals = IndexStep(src, q, r)
    BY DEF Turn
  <2>4. /\ RowsRead(src, q, <<>>, 0, t.locals)
        /\ t.locals.out \in {"running", "end", "n_max"}
    <3>1. PICK D \in Seq(Nat) : D = <<>>
      <4>1. <<>> \in Seq(Nat)
        OBVIOUS
      <4>2. QED  BY <4>1
    <3>2. PICK n \in Nat : n = 0
      OBVIOUS
    <3>3. RowsRead(src, q, D, n, r)
      BY <2>1, <3>1, <3>2
    <3> HIDE DEF r
    <3>4. /\ RowsRead(src, q, D, n, IndexStep(src, q, r))
          /\ IndexStep(src, q, r).out \in {"running", "end", "n_max"}
      BY <1>2, <1>7, <2>1, <3>3, StepReadsRows DEF r
    <3> HIDE DEF t
    <3>5. QED  BY <2>3, <3>1, <3>4, <3>2
  <2>5. /\ ParseErrors(src, q, r) = ParseErrors(src, p, r)
        /\ \/ /\ IndexStep(src, q, r) = IndexStep(src, p, r)
              /\ Below(IndexStep(src, p, r).lines_read, p.n_max)
              /\ IndexStep(src, p, r).out # "n_max"
           \/ /\ Stopped(IndexStep(src, p, r), IndexStep(src, q, r))
              /\ ~Below(IndexStep(src, p, r).lines_read, p.n_max)
              /\ IndexStep(src, p, r).lines_read = r.lines_read + 1
    BY <1>1, <1>7, <2>1, LimitDoesNotMatter DEF q
  <2>6. CASE IndexStep(src, q, r) = IndexStep(src, p, r)
    <3>1. /\ Below(t.locals.lines_read, p.n_max)
          /\ t.locals.out # "n_max"
      <4>1. ~Stopped(IndexStep(src, p, r), IndexStep(src, p, r))
        BY DEF Stopped
      <4>2. QED  BY <2>3, <2>5, <2>6, <4>1
    <3>2. Turn(src, p, c) = t
      BY <2>5, <2>6 DEF Turn
    <3> HIDE DEF t
    <3>3. QED  BY <2>2, <2>4, <3>1, <3>2
  <2>7. CASE IndexStep(src, q, r) # IndexStep(src, p, r)
    <3> DEFINE s == Turn(src, p, c)
    <3>1. /\ Stopped(s.locals, t.locals) /\ ~Below(s.locals.lines_read, p.n_max)
          /\ s.locals.lines_read = r.lines_read + 1
      BY <2>3, <2>5, <2>7 DEF Turn
    <3>2. s.locals.lines_read = p.n_max
      <4>1. p.n_max \in Nat /\ r.lines_read < p.n_max /\ ~(r.lines_read + 1 < p.n_max)
        BY <2>1, <3>1 DEF Below, Unlimited
      <4>2. QED  BY <2>1, <3>1, <4>1
    <3>3. s \in CallsOf(q)
      BY <1>1, <1>4, <2>1, TurnType
    <3>4. s.locals.out = "n_max" /\ s.locals.state = "RECORD_START"
      <4>1. s.locals.out = "n_max"
        BY <3>1 DEF Stopped
      <4>2. /\ p.start = q.start /\ \A m : RowsLength(p, m) = RowsLength(q, m)
        BY <1>2 DEF RowsLength
      <4>3. RowsRead(src, p, <<>>, 0, r)
        BY <1>2, <2>1, <4>2 DEF RowsRead
      <4>4. PICK D \in Seq(Nat) : D = <<>>
        <5>1. <<>> \in Seq(Nat)
          OBVIOUS
        <5>2. QED  BY <5>1
      <4>5. PICK n \in Nat : n = 0
        OBVIOUS
      <4>6. RowsRead(src, p, D, n, r)
        BY <4>3, <4>4, <4>5
      <4>7. IndexStep(src, p, r).out = "n_max" => IndexStep(src, p, r).state = "RECORD_START"
        BY <1>7, <2>1, <4>6, StepReadsRows
      <4>8. s.locals = IndexStep(src, p, r)
        BY DEF Turn
      <4>9. QED  BY <4>1, <4>7, <4>8
    <3> HIDE DEF s, t
    <3>5. beyond(s.locals)
      <4>1. /\ t.locals.out = "running" /\ t.locals.state = s.locals.state
            /\ t.locals.destination = s.locals.destination
            /\ t.locals.lines_read = s.locals.lines_read
        BY <3>1 DEF Stopped
      <4>2. QED  BY <2>2, <2>4, <3>2, <4>1
    <3> HIDE DEF beyond
    <3>6. QED  BY <3>3, <3>4, <3>5 DEF s
  <2>8. QED  BY <2>6, <2>7
<1>8. RunRegion(src, p, entry) \in Alike \union Full
  <2> DEFINE Calls == Alike \union Full
  <2>1. \A c \in Full : c.locals.out # "running"
    OBVIOUS
  <2> HIDE DEF Alike, Full
  <2>2. \A c \in Calls : c.locals.out = "running" => Turn(src, p, c) \in Calls
    BY <1>7, <2>1
  <2>3. Entered(entry) \in Calls
    BY <1>6
  <2>4. p.end - p.start + 1 \in Nat
    BY <1>1
  <2> HIDE DEF Calls
  <2>5. RunRegion(src, p, entry) \in Calls
    BY <2>2, <2>3, <2>4, RunRegionStays
  <2>6. QED  BY <2>5 DEF Calls
<1> DEFINE L == RunRegion(src, p, entry)
           U == RunRegion(src, q, entry)
<1>9. \A m : RowsLength(q, m) = RowsLength(p, m)
  BY <1>2 DEF RowsLength
<1> SUFFICES ASSUME L.locals.state = "RECORD_START"
             PROVE  /\ Len(L.locals.destination) = RowsLength(p, L.locals.lines_read)
                    /\ \/ /\ L.locals.destination = U.locals.destination
                          /\ L.locals.lines_read < p.n_max
                       \/ /\ L.locals.lines_read = p.n_max
                          /\ StartsWith(L.locals.destination, U.locals.destination)
  BY <1>5 DEF entry, q
<1> HIDE DEF L, U
<1>10. CASE L \in Alike
  <2>1. /\ Passes(src, q, entry, L) /\ RowsRead(src, q, <<>>, 0, L.locals)
        /\ Below(L.locals.lines_read, p.n_max)
    BY <1>10
  <2>2. L = U
    BY <1>1, <1>2, <1>3, <1>5, <2>1, PassesLast DEF L, U
  <2>3. L.locals.lines_read < p.n_max
    BY <2>1 DEF Below, Unlimited
  <2>4. Len(L.locals.destination) = RowsLength(p, L.locals.lines_read)
    BY <1>9, <2>1 DEF RowsRead
  <2>5. QED  BY <2>2, <2>3, <2>4
<1>11. CASE L \in Full
  <2>1. L \in CallsOf(q) /\ beyond(L.locals)
    BY <1>11
  <2> HIDE DEF Alike, Full
  <2>2. PICK d \in CallsOf(q) :
          /\ Passes(src, q, entry, d) /\ d.locals.out = "running"
          /\ RowsRead(src, q, <<>>, 0, d.locals)
          /\ d.locals.state = L.locals.state
          /\ d.locals.destination = L.locals.destination
          /\ d.locals.lines_read = L.locals.lines_read
    BY <2>1
  <2>3. L.locals.lines_read = p.n_max
    BY <2>1
  <2> DEFINE D == L.locals.destination
             n == L.locals.lines_read
  <2>4. D \in Seq(Nat) /\ n \in Nat
    <3>1. L.locals \in LocalsType
      BY <2>1 DEF CallsOf
    <3>2. QED  BY <3>1, LocalsFields
  <2>5. Len(D) = RowsLength(q, n)
    BY <2>2 DEF RowsRead
  <2> HIDE DEF D, n
  <2> DEFINE Calls == {c \in CallsOf(q) : /\ c.locals.out \in {"running", "end", "n_max"}
                                          /\ RowsRead(src, q, D, n, c.locals)}
  <2>6. d \in Calls
    <3>1. StartsWith(D, D)
      <4>1. D = D \o <<>> /\ <<>> \in Seq(Nat)
        BY <2>4
      <4>2. QED  BY <4>1 DEF StartsWith
    <3>2. d.locals.destination = D /\ d.locals.lines_read = n /\ n <= n
      BY <2>2, <2>4 DEF D, n
    <3>3. RowsRead(src, q, D, n, d.locals)
      BY <2>2, <2>5, <3>1, <3>2 DEF RowsRead
    <3>4. QED  BY <2>2, <3>3
  <2>7. ASSUME NEW c \in Calls, c.locals.out = "running" PROVE Turn(src, q, c) \in Calls
    <3>1. c \in CallsOf(q) /\ c.locals \in LocalsType /\ RowsRead(src, q, D, n, c.locals)
      BY <2>7 DEF CallsOf
    <3>2. Turn(src, q, c) \in CallsOf(q)
      BY <1>1, <1>2, <3>1, TurnType
    <3>3. Turn(src, q, c).locals = IndexStep(src, q, c.locals)
      BY DEF Turn
    <3>4. /\ RowsRead(src, q, D, n, IndexStep(src, q, c.locals))
          /\ IndexStep(src, q, c.locals).out \in {"running", "end", "n_max"}
      BY <1>2, <2>4, <2>7, <3>1, StepReadsRows
    <3>5. QED  BY <3>2, <3>3, <3>4
  <2> HIDE DEF Calls
  <2>8. U \in Calls
    <3>1. \A c \in Calls : c.locals.out = "running" => Turn(src, q, c) \in Calls
      BY <2>7
    <3>2. q.end <= Len(src) /\ q.start <= q.end /\ entry.pos = q.start
          /\ entry.last_tick <= q.end
      BY <1>1, <1>2, <1>3
    <3>3. QED  BY <1>1, <1>2, <1>3, <2>2, <2>6, <3>1, <3>2, RunRegionGoesOn DEF U
  <2>9. StartsWith(D, U.locals.destination)
    BY <2>8 DEF Calls, RowsRead
  <2>10. QED  BY <1>9, <2>3, <2>5, <2>9 DEF D, n
<1>12. QED  BY <1>8, <1>10, <1>11 DEF L

(* The call for the first row, whose only newline is at its end.            *)
FirstRowCall(src, p) ==
  /\ p \in CallType /\ p.end <= Len(src) /\ p.num_cols = 0
  /\ \A k \in p.start .. (p.end - 2) : At(src, k) # p.nl

(* When it has read a line it is at its end.                                *)
FirstRowRead(p, r) ==
  /\ p.start <= r.pos
  /\ \/ r.lines_read = 0 /\ (r.state # "RECORD_START" => Len(r.destination) > 0)
     \/ /\ r.lines_read = 1 /\ r.state = "RECORD_START" /\ r.cols = 0
        /\ Len(r.destination) > 1 /\ (r.out = "running" => r.pos >= p.end)

LEMMA FirstRowStep ==
  ASSUME NEW src, Len(src) \in Nat, NEW p, FirstRowCall(src, p), ~EscapeBackslash,
         NEW r \in LocalsType, r.out = "running", FirstRowRead(p, r),
         r.pos < p.end => r.last_tick <= p.end
  PROVE  FirstRowRead(p, IndexStep(src, p, r))
<1> DEFINE kind == Kind(src, p, r)
           s    == IndexStep(src, p, r)
           t    == StartRecord(p, r)
<1>1. /\ p \in CallType /\ p.end \in Nat /\ p.start \in Nat /\ p.end <= Len(src)
      /\ p.num_cols = 0 /\ \A k \in p.start .. (p.end - 2) : At(src, k) # p.nl
      /\ p.file_offset \in Nat
  <2>1. p \in CallType
    BY DEF FirstRowCall
  <2>2. QED  BY <2>1, CallFields DEF FirstRowCall
<1>2. /\ r.pos \in Nat /\ r.cols \in Nat /\ r.state \in CsvState /\ Len(r.destination) \in Nat
  BY LocalsFields
<1>3. r.pos + p.file_offset \in Nat
  BY <1>1, <1>2
<1>4. /\ p.start <= r.pos /\ p.start <= s.pos
  <2>1. r.pos <= s.pos /\ p.start <= r.pos
    BY <1>1, StepGoesForward DEF FirstRowRead
  <2>2. s.pos \in Nat
    BY <1>1, StepLocals, LocalsFields
  <2> HIDE DEF s
  <2>3. QED  BY <1>1, <1>2, <2>1, <2>2
<1>5. kind \in {"return", "escape", "comment", "empty", "delim", "newline", "quoted_nl",
                "quote", "other"}
  BY DEF Kind
<1>6. \A u : ResolveColumns(p, u) = u
  BY <1>1 DEF ResolveColumns
<1>7. CASE kind = "return"
  <2>1. s = [r EXCEPT !.last_tick = p.end, !.out = "end"]
    BY <1>7 DEF IndexStep
  <2> HIDE DEF kind, s
  <2>2. /\ s.pos = r.pos /\ s.state = r.state /\ s.cols = r.cols /\ s.lines_read = r.lines_read
        /\ s.destination = r.destination /\ s.out = "end"
    BY <2>1 DEF LocalsType
  <2>3. QED  BY <2>2 DEF FirstRowRead, s
<1>8. CASE kind # "return"
  <2>1. r.pos < p.end
    BY <1>1, <1>2, <1>8 DEF Kind
  <2>2. r.lines_read = 0 /\ (r.state # "RECORD_START" => Len(r.destination) > 0)
    BY <1>1, <1>2, <2>1 DEF FirstRowRead
  <2>3. /\ t \in LocalsType /\ t.pos = r.pos /\ t.cols = r.cols /\ t.out = r.out
        /\ t.lines_read = 0 /\ Len(t.destination) > 0 /\ Len(t.destination) \in Nat
    <3>1. t \in Rewritten(r)
      BY <1>1, StartRecordType
    <3>2. /\ t \in LocalsType /\ t.pos = r.pos /\ t.cols = r.cols /\ t.out = r.out
          /\ t.lines_read = 0
      BY <2>2, <3>1, RewrittenType
    <3>3. Len(t.destination) > 0
      <4>1. CASE r.state = "RECORD_START"
        <5>1. Len(Push(r, r.pos + p.file_offset).destination) = Len(r.destination) + 1
          BY <1>3, PushLength
        <5>2. QED  BY <1>2, <4>1, <5>1 DEF StartRecord
      <4>2. CASE r.state # "RECORD_START"
        BY <2>2, <4>2 DEF StartRecord
      <4>3. QED  BY <4>1, <4>2
    <3>4. QED  BY <3>2, <3>3, LocalsFields
  <2>4. /\ Push(t, r.pos + p.file_offset) \in LocalsType
        /\ Push(t, r.pos + p.file_offset).lines_read = 0
        /\ Push(t, r.pos + p.file_offset).pos = r.pos
        /\ Push(t, r.pos + p.file_offset).out = "running"
        /\ Len(Push(t, r.pos + p.file_offset).destination) > 1
    <3>1. Push(t, r.pos + p.file_offset) \in Rewritten(t)
      BY <1>3, <2>3, PushType
    <3>2. Len(Push(t, r.pos + p.file_offset).destination) = Len(t.destination) + 1
      BY <1>3, <2>3, PushLength
    <3>3. \A a \in Nat : a > 0 => a + 1 > 1
      OBVIOUS
    <3>4. QED  BY <2>3, <3>1, <3>2, <3>3, RewrittenType
  <2> HIDE DEF kind, s, t
  <2>5. ASSUME s.lines_read = 0, s.state # "RECORD_START" => Len(s.destination) > 0
        PROVE  FirstRowRead(p, s)
    BY <1>4, <2>5 DEF FirstRowRead
  <2>6. CASE kind = "comment"
    <3> DEFINE u == IF r.state = "RECORD_START" THEN r ELSE Push(r, r.pos + p.file_offset)
    <3>1. s = [u EXCEPT !.cols = 0, !.pos = SkipRestOfLine(src, r.pos) + 1,
                        !.state = NewlineState(r.state)]
      BY <1>6, <2>6 DEF IndexStep, SkipComment, kind, s
    <3>2. u \in LocalsType /\ u.lines_read = 0
      BY <1>3, <2>2, PushType, RewrittenType
    <3> HIDE DEF u
    <3>3. s.lines_read = 0 /\ s.state = NewlineState(r.state)
      BY <3>1, <3>2 DEF LocalsType
    <3>4. r.state # "QUOTED_FIELD"
      BY <2>6 DEF Kind, kind
    <3>5. s.state = "RECORD_START"
      BY <3>3, <3>4 DEF NewlineState
    <3>6. QED  BY <2>5, <3>3, <3>5 DEF s
  <2>7. CASE kind = "empty"
    <3>1. s = [r EXCEPT !.pos = SkipRestOfLine(src, r.pos) + 1]
      BY <2>7 DEF IndexStep, SkipEmptyLine, kind, s
    <3>2. s.lines_read = 0 /\ s.state = r.state /\ s.destination = r.destination
      BY <2>2, <3>1 DEF LocalsType
    <3>3. QED  BY <2>2, <2>5, <3>2 DEF s
  <2>8. CASE kind = "delim"
    <3> DEFINE u == Push(t, r.pos + p.file_offset)
    <3>1. s = [u EXCEPT !.state = CommaState(r.state), !.cols = @ + 1, !.pos = @ + 1]
      BY <2>8 DEF IndexStep, Delimiter, kind, s, t
    <3>2. u \in LocalsType /\ u.lines_read = 0 /\ Len(u.destination) > 1
      BY <2>4
    <3>3. Len(u.destination) \in Nat
      BY <3>2, LocalsFields
    <3> HIDE DEF u
    <3>4. s.lines_read = 0 /\ s.destination = u.destination
      BY <3>1, <3>2 DEF LocalsType
    <3>5. Len(s.destination) > 0
      BY <3>2, <3>3, <3>4
    <3>6. QED  BY <2>5, <3>4, <3>5 DEF s
  <2>9. CASE kind = "newline"
    <3>1. At(src, r.pos) = p.nl /\ r.state # "QUOTED_FIELD"
      BY <2>9 DEF Kind, kind
    <3>2. r.pos + 1 >= p.end
      <4> SUFFICES ASSUME r.pos + 1 < p.end PROVE FALSE
        BY <1>1, <1>2
      <4>1. r.pos \in p.start .. (p.end - 2)
        BY <1>1, <1>2, <1>4
      <4>2. QED  BY <1>1, <3>1, <4>1
    <3> DEFINE u == Push(t, r.pos + p.file_offset)
               v == [u EXCEPT !.state = NewlineState(r.state), !.cols = 0, !.lines_read = @ + 1]
               stop == [v EXCEPT !.out = "n_max"]
               go   == [v EXCEPT !.pos = @ + 1,
                                 !.last_tick = IF r.pos - @ > p.update_size THEN r.pos ELSE @]
    <3>3. s \in {stop, go}
      <4>1. s = EndRecord(p, r)
        BY <2>9 DEF IndexStep, kind, s
      <4>2. u = Push(ResolveColumns(p, StartRecord(p, r)), r.pos + p.file_offset)
        BY <1>6 DEF t
      <4> HIDE DEF u
      <4>3. QED  BY <4>1, <4>2 DEF EndRecord
    <3>4. /\ u \in LocalsType /\ u.pos = r.pos /\ u.out = "running" /\ u.lines_read = 0
          /\ Len(u.destination) > 1
      BY <2>4
    <3> HIDE DEF u
    <3>5. /\ v.state = "RECORD_START" /\ v.cols = 0 /\ v.lines_read = 1
          /\ v.pos = r.pos /\ v.out = "running" /\ v.destination = u.destination
          /\ DOMAIN v = {"pos", "state", "cols", "destination", "lines_read", "last_tick", "out"}
      BY <3>1, <3>4 DEF LocalsType, NewlineState
    <3> HIDE DEF v
    <3>6. /\ s.state = "RECORD_START" /\ s.cols = 0 /\ s.lines_read = 1
          /\ s.destination = u.destination
          /\ s.out = "running" => s.pos = r.pos + 1
      <4>1. CASE s = stop
        BY <3>5, <4>1
      <4>2. CASE s = go
        BY <3>5, <4>2
      <4>3. QED  BY <3>3, <4>1, <4>2
    <3>7. s.out = "running" => s.pos >= p.end
      BY <3>2, <3>6
    <3>8. QED  BY <1>4, <3>4, <3>6, <3>7 DEF FirstRowRead, s
  <2>10. CASE kind = "quoted_nl"
    <3>1. s \in {[r EXCEPT !.out = "newline_error"], [r EXCEPT !.pos = @ + 1]}
      BY <2>10 DEF IndexStep, QuotedNewline, kind, s
    <3>2. s.lines_read = 0 /\ s.state = r.state /\ s.destination = r.destination
      BY <2>2, <3>1 DEF LocalsType
    <3>3. QED  BY <2>2, <2>5, <3>2 DEF s
  <2>11. CASE kind = "quote"
    <3>1. s = [t EXCEPT !.state = QuotedState(r.state), !.pos = @ + 1]
      BY <2>11 DEF IndexStep, QuoteChar, kind, s, t
    <3>2. s.lines_read = 0 /\ s.destination = t.destination
      BY <2>3, <3>1 DEF LocalsType
    <3>3. QED  BY <2>3, <2>5, <3>2 DEF s
  <2>12. CASE kind = "other"
    <3> DEFINE pos == IF t.pos + 1 < p.end THEN FirstOf(src, t.pos + 1, Query(p.nl))
                      ELSE t.pos + 1
    <3>1. s = [t EXCEPT !.state = OtherState(r.state), !.pos = pos]
      BY <2>12 DEF IndexStep, OtherChars, kind, s, t
    <3> HIDE DEF pos
    <3>2. s.lines_read = 0 /\ s.destination = t.destination
      BY <2>3, <3>1 DEF LocalsType
    <3>3. QED  BY <2>3, <2>5, <3>2 DEF s
  <2>13. kind # "escape"
    BY DEF Kind, kind
  <2>14. QED
    BY <1>5, <1>8, <2>6, <2>7, <2>8, <2>9, <2>10, <2>11, <2>12, <2>13 DEF kind
<1>9. QED  BY <1>7, <1>8

(* The call for the first row finds the same with a limit and without.      *)
LEMMA FirstRowLimited ==
  ASSUME NEW src, Len(src) \in Nat, NEW p, FirstRowCall(src, p), ~EscapeBackslash,
         p.start <= p.end, p.n_max \in Nat \ {0}
  PROVE  LET entry == Enter(p, "RECORD_START", 0, <<>>)
             L     == RunRegion(src, p, entry).locals
             U     == RunRegion(src, AllLines(p), entry).locals
         IN  FirstRowRead(p, L) /\ U.destination = L.destination
<1> DEFINE q      == AllLines(p)
           entry  == Enter(p, "RECORD_START", 0, <<>>)
           atEnd(e) == \E d \in CallsOf(q) :
                         /\ Passes(src, q, entry, d) /\ d.locals.out = "running"
                         /\ d.locals.pos >= p.end /\ d.locals.destination = e
           Alike  == {c \in CallsOf(q) :
                        /\ Passes(src, q, entry, c) /\ FirstRowRead(p, c.locals)
                        /\ Below(c.locals.lines_read, p.n_max)}
           Full   == {c \in CallsOf(q) :
                        /\ c.locals.out # "running" /\ FirstRowRead(p, c.locals)
                        /\ atEnd(c.locals.destination)}
<1>1. p \in CallType /\ p.start \in Nat /\ p.end \in Nat /\ p.end <= Len(src)
  <2>1. p \in CallType /\ p.end <= Len(src)
    BY DEF FirstRowCall
  <2>2. QED  BY <2>1, CallFields
<1>2. q \in CallType /\ q.start = p.start /\ q.end = p.end
  BY <1>1 DEF AllLines, CallType
<1> HIDE DEF q
<1>3. /\ entry \in LocalsType /\ entry.pos = p.start /\ entry.last_tick = p.start
      /\ entry.lines_read = 0 /\ entry.state = "RECORD_START"
  <2>1. <<>> \in Seq(Nat)
    OBVIOUS
  <2>2. QED  BY <1>1, <2>1 DEF Enter, LocalsType, CsvState
<1> HIDE DEF entry
<1>4. CallsOf(q) = CallsOf(p)
  BY <1>2 DEF CallsOf
<1>5. /\ RunRegion(src, p, entry).locals.out # "running"
      /\ RunRegion(src, p, entry) \in CallsOf(p)
  BY <1>1, <1>3, RunRegionStops
<1>6. Entered(entry) \in Alike
  <2>1. Passes(src, q, entry, Entered(entry))
    BY PassesFirst
  <2>2. Entered(entry).locals = entry /\ Entered(entry) \in CallsOf(q)
    <3>1. <<>> \in Seq([position : Nat, column : Nat])
      OBVIOUS
    <3>2. QED  BY <1>1, <1>2, <1>3, <3>1 DEF Entered, CallsOf
  <2>3. FirstRowRead(p, entry)
    BY <1>1, <1>3 DEF FirstRowRead
  <2>4. Below(entry.lines_read, p.n_max)
    BY <1>3 DEF Below
  <2>5. QED  BY <2>1, <2>2, <2>3, <2>4
<1>7. ASSUME NEW c \in Alike, c.locals.out = "running"
      PROVE  Turn(src, p, c) \in Alike \union Full
  <2> DEFINE r == c.locals
             s == Turn(src, p, c)
             t == Turn(src, q, c)
  <2>1. /\ r \in LocalsType /\ c \in CallsOf(q) /\ Passes(src, q, entry, c)
        /\ FirstRowRead(p, r) /\ Below(r.lines_read, p.n_max)
        /\ r.pos < p.end => r.last_tick <= p.end
        /\ r.lines_read \in Nat
    BY <1>2, <1>7, LocalsFields DEF CallsOf
  <2>2. t \in CallsOf(q) /\ Passes(src, q, entry, t)
    BY <1>1, <1>2, <1>7, <2>1, TurnType, PassesNext
  <2>3. s \in CallsOf(q)
    BY <1>1, <1>4, <2>1, TurnType
  <2>4. t.locals = IndexStep(src, q, r) /\ s.locals = IndexStep(src, p, r)
    BY DEF Turn
  <2>5. FirstRowRead(p, s.locals)
    BY <1>7, <2>1, <2>4, FirstRowStep
  <2>6. /\ ParseErrors(src, q, r) = ParseErrors(src, p, r)
        /\ \/ /\ t.locals = s.locals
              /\ Below(s.locals.lines_read, p.n_max)
           \/ /\ Stopped(s.locals, t.locals)
              /\ Kind(src, p, r) = "newline" /\ s.locals.pos = r.pos
    BY <1>1, <1>7, <2>1, <2>4, LimitDoesNotMatter DEF q
  <2>7. CASE t.locals = s.locals /\ Below(s.locals.lines_read, p.n_max)
    <3>1. s = t
      BY <2>4, <2>6, <2>7 DEF Turn
    <3> HIDE DEF s, t
    <3>2. s \in Alike
      BY <2>2, <2>3, <2>5, <2>7, <3>1
    <3>3. QED  BY <3>2 DEF s
  <2>8. CASE /\ Stopped(s.locals, t.locals)
             /\ Kind(src, p, r) = "newline" /\ s.locals.pos = r.pos
    <3>1. r.pos < p.end /\ At(src, r.pos) = p.nl /\ r.pos \in Nat /\ p.start <= r.pos
      <4>1. r.pos \in Nat
        BY <2>1, LocalsFields
      <4>2. QED  BY <1>1, <2>1, <2>8, <4>1 DEF Kind, FirstRowRead
    <3>2. t.locals.pos >= p.end
      <4>1. t.locals.pos = r.pos + 1
        BY <2>8 DEF Stopped
      <4>2. r.pos + 1 >= p.end
        <5> SUFFICES ASSUME r.pos + 1 < p.end PROVE FALSE
          BY <1>1, <3>1
        <5>1. r.pos \in p.start .. (p.end - 2)
          BY <1>1, <3>1
        <5>2. QED  BY <3>1, <5>1 DEF FirstRowCall
      <4>3. QED  BY <4>1, <4>2
    <3>3. /\ t.locals.out = "running" /\ t.locals.destination = s.locals.destination
          /\ s.locals.out # "running"
      BY <2>8 DEF Stopped
    <3> HIDE DEF s, t
    <3>4. atEnd(s.locals.destination)
      BY <2>2, <3>2, <3>3
    <3> HIDE DEF atEnd
    <3>5. s \in Full
      BY <2>3, <2>5, <3>3, <3>4
    <3>6. QED  BY <3>5 DEF s
  <2>9. QED  BY <2>6, <2>7, <2>8
<1> DEFINE L == RunRegion(src, p, entry)
           U == RunRegion(src, q, entry)
<1>8. L \in Alike \union Full
  <2> DEFINE Calls == Alike \union Full
  <2>1. \A c \in Full : c.locals.out # "running"
    OBVIOUS
  <2> HIDE DEF Alike, Full
  <2>2. \A c \in Calls : c.locals.out = "running" => Turn(src, p, c) \in Calls
    BY <1>7, <2>1
  <2>3. Entered(entry) \in Calls
    BY <1>6
  <2>4. p.end - p.start + 1 \in Nat
    BY <1>1
  <2> HIDE DEF Calls
  <2>5. RunRegion(src, p, entry) \in Calls
    BY <2>2, <2>3, <2>4, RunRegionStays
  <2>6. QED  BY <2>5 DEF Calls
<1>9. \A d : Passes(src, q, entry, d) /\ d.locals.out # "running" => U = d
  BY <1>1, <1>2, <1>3, PassesLast
<1> SUFFICES FirstRowRead(p, L.locals) /\ U.locals.destination = L.locals.destination
  BY DEF entry, q
<1>10. CASE L \in Alike
  <2> HIDE DEF U
  <2>1. Passes(src, q, entry, L) /\ FirstRowRead(p, L.locals)
    BY <1>10
  <2>2. QED  BY <1>5, <1>9, <2>1
<1>11. CASE L \in Full
  <2> HIDE DEF L, U
  <2>1. FirstRowRead(p, L.locals) /\ atEnd(L.locals.destination)
    BY <1>11
  <2>2. PICK d \in CallsOf(q) :
          /\ Passes(src, q, entry, d) /\ d.locals.out = "running"
          /\ d.locals.pos >= p.end /\ d.locals.destination = L.locals.destination
    BY <2>1
  <2> DEFINE e == Turn(src, q, d)
  <2>3. Passes(src, q, entry, e)
    BY <2>2, PassesNext
  <2>4. e.locals = [d.locals EXCEPT !.last_tick = q.end, !.out = "end"]
    <3>1. Kind(src, q, d.locals) = "return"
      BY <1>2, <2>2 DEF Kind
    <3>2. e.locals = IndexStep(src, q, d.locals)
      BY DEF Turn
    <3>3. QED  BY <3>1, <3>2 DEF IndexStep
  <2>5. d.locals \in LocalsType
    BY <2>2 DEF CallsOf
  <2> HIDE DEF e
  <2>6. e.locals.out = "end" /\ e.locals.destination = d.locals.destination
    BY <2>4, <2>5 DEF LocalsType
  <2>7. U = e
    BY <1>9, <2>3, <2>6
  <2>8. QED  BY <2>1, <2>2, <2>6, <2>7
<1>12. QED  BY <1>8, <1>10, <1>11

(* A call that may read no line, or that has but the end of one to read,    *)
(* finds nothing.                                                           *)
LEMMA NothingToRead ==
  ASSUME NEW src \in File, NEW p \in CallType, p.end <= Len(src), p.start <= p.end,
         SkipEmptyRows, ~EscapeBackslash,
         \/ p.n_max = 0
         \/ p.start = p.end
         \/ p.start + 1 = p.end /\ At(src, p.start) = "lf"
  PROVE  LET L == RunRegion(src, p, Enter(p, "RECORD_START", 0, <<>>)).locals
         IN  /\ L.destination = <<>> /\ L.lines_read = 0
             /\ L.state = "RECORD_START" /\ L.cols = 0
<1> DEFINE entry == Enter(p, "RECORD_START", 0, <<>>)
           Little(r) == \/ p.n_max = 0
                        \/ r.pos >= p.end
                        \/ r.pos + 1 = p.end /\ At(src, r.pos) = "lf"
           Calls == {c \in CallsOf(p) :
                       /\ c.locals.destination = <<>> /\ c.locals.lines_read = 0
                       /\ c.locals.state = "RECORD_START" /\ c.locals.cols = 0
                       /\ Little(c.locals)}
<1>1. p.start \in Nat /\ p.end \in Nat /\ Len(src) \in Nat
  BY CallFields DEF File
<1>2. /\ entry \in LocalsType /\ entry.pos = p.start /\ entry.last_tick = p.start
      /\ entry.lines_read = 0 /\ entry.state = "RECORD_START" /\ entry.destination = <<>>
      /\ entry.cols = 0
  <2>1. <<>> \in Seq(Nat)
    OBVIOUS
  <2>2. QED  BY <1>1, <2>1 DEF Enter, LocalsType, CsvState
<1> HIDE DEF entry
<1>3. Entered(entry) \in Calls
  <2>1. Entered(entry).locals = entry /\ Entered(entry) \in CallsOf(p)
    <3>1. <<>> \in Seq([position : Nat, column : Nat])
      OBVIOUS
    <3>2. QED  BY <1>1, <1>2, <3>1 DEF Entered, CallsOf
  <2>2. Little(entry)
    BY <1>1, <1>2
  <2>3. QED  BY <1>2, <2>1, <2>2
<1>4. ASSUME NEW c \in Calls, c.locals.out = "running"
      PROVE  Turn(src, p, c) \in Calls
  <2> DEFINE r == c.locals
             s == IndexStep(src, p, r)
  <2>1. /\ r \in LocalsType /\ c \in CallsOf(p) /\ r.destination = <<>> /\ r.lines_read = 0
        /\ r.state = "RECORD_START" /\ r.cols = 0 /\ Little(r) /\ r.pos \in Nat
    BY <1>4, LocalsFields DEF CallsOf
  <2>2. Turn(src, p, c) \in CallsOf(p) /\ Turn(src, p, c).locals = s
    BY <1>1, <2>1, TurnType DEF Turn
  <2>3. CASE Kind(src, p, r) = "return"
    <3>1. s = [r EXCEPT !.last_tick = p.end, !.out = "end"]
      BY <2>3 DEF IndexStep
    <3> HIDE DEF s
    <3>2. /\ s.destination = <<>> /\ s.lines_read = 0 /\ s.state = "RECORD_START"
          /\ s.pos = r.pos /\ s.cols = 0
      BY <2>1, <3>1 DEF LocalsType
    <3>3. Little(s)
      BY <2>1, <3>2
    <3>4. QED  BY <2>2, <3>2, <3>3
  <2>4. CASE Kind(src, p, r) # "return"
    <3>1. r.pos < p.end /\ p.n_max # 0
      <4>1. r.pos < p.end /\ Below(r.lines_read, p.n_max)
        BY <1>1, <2>1, <2>4 DEF Kind
      <4>2. ~Below(0, 0)
        BY DEF Below, Unlimited
      <4>3. QED  BY <2>1, <4>1, <4>2
    <3>2. r.pos + 1 = p.end /\ At(src, r.pos) = "lf"
      BY <1>1, <2>1, <3>1
    <3>3. IsEmptyLine(src, r.pos, p.end)
      BY <1>1, <2>1, <3>1, <3>2, LineFeedIsEmpty
    <3>4. Kind(src, p, r) = "empty"
      BY <2>1, <2>4, <3>2, <3>3 DEF Kind, IsComment
    <3>5. s = [r EXCEPT !.pos = SkipRestOfLine(src, r.pos) + 1]
      BY <3>4 DEF IndexStep, SkipEmptyLine
    <3>6. SkipRestOfLine(src, r.pos) \in r.pos .. Len(src)
      BY <1>1, <2>1, <3>1, FirstOfStops DEF SkipRestOfLine, File
    <3> HIDE DEF s
    <3>7. /\ s.destination = <<>> /\ s.lines_read = 0 /\ s.state = "RECORD_START"
          /\ s.pos = SkipRestOfLine(src, r.pos) + 1 /\ s.cols = 0
      BY <2>1, <3>5 DEF LocalsType
    <3>8. s.pos >= p.end
      BY <1>1, <2>1, <3>2, <3>6, <3>7
    <3>9. QED  BY <2>2, <3>7, <3>8
  <2>5. QED  BY <2>3, <2>4
<1>5. RunRegion(src, p, entry) \in Calls
  <2>1. p.end - p.start + 1 \in Nat
    BY <1>1
  <2>2. \A c \in Calls : c.locals.out = "running" => Turn(src, p, c) \in Calls
    BY <1>4
  <2> HIDE DEF Calls
  <2>3. QED  BY <1>3, <2>1, <2>2, RunRegionStays
<1>6. QED  BY <1>5 DEF entry

=============================================================================
