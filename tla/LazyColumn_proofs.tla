-------------------------- MODULE LazyColumn_proofs -------------------------
(***************************************************************************)
(* Proofs about LazyColumn, for every data frame, any number of vectors    *)
(* and any calls that handlers make: as long as handlers do not parse      *)
(* factors as a whole, no call uses an info that is gone; everyone is      *)
(* warned of problems, once; problems() returns them all; and vectors keep *)
(* their elements, as Vectors says.                                        *)
(***************************************************************************)
EXTENDS LazyColumn, FiniteSetTheorems, TLAPS

(* A sequence of whatever elements. *)
IsSequence(s) == \E S : s \in Seq(S)

(* What appending to a sequence, and taking its last element away, gives.   *)
LEMMA AppendFacts ==
  ASSUME NEW s, NEW e, IsSequence(s)
  PROVE  /\ IsSequence(Append(s, e))
         /\ Len(s) \in Nat /\ DOMAIN s = 1 .. Len(s)
         /\ Len(Append(s, e)) = Len(s) + 1
         /\ DOMAIN Append(s, e) = 1 .. (Len(s) + 1)
         /\ \A n \in 1 .. Len(s) : Append(s, e)[n] = s[n]
         /\ Append(s, e)[Len(s) + 1] = e
<1>1. PICK S : s \in Seq(S)
  BY DEF IsSequence
<1>2. s \in Seq(S \union {e})
  BY <1>1
<1>3. Append(s, e) \in Seq(S \union {e})
  BY <1>2
<1>4. QED  BY <1>1, <1>2, <1>3 DEF IsSequence

(* A sequence is the function of its elements. *)
LEMMA SequenceIsFunction ==
  ASSUME NEW s, IsSequence(s) PROVE s = [n \in DOMAIN s |-> s[n]]
<1>1. PICK S : s \in Seq(S)
  BY DEF IsSequence
<1>2. s \in [1 .. Len(s) -> S]
  BY <1>1
<1>3. QED  BY <1>2

(* What taking the last element away gives. *)
LEMMA FrontFacts ==
  ASSUME NEW s, IsSequence(s), s # <<>>
  PROVE  /\ IsSequence(Front(s))
         /\ Len(s) \in Nat \ {0}
         /\ DOMAIN s = 1 .. Len(s)
         /\ Len(Front(s)) = Len(s) - 1
         /\ DOMAIN Front(s) = 1 .. (Len(s) - 1)
         /\ \A n \in 1 .. (Len(s) - 1) : Front(s)[n] = s[n]
<1>1. PICK S : s \in Seq(S)
  BY DEF IsSequence
<1>2. Len(s) \in Nat \ {0} /\ DOMAIN s = 1 .. Len(s)
  BY <1>1
<1>3. Front(s) = SubSeq(s, 1, Len(s) - 1)
  BY DEF Front
<1>4. Front(s) \in Seq(S)
  BY <1>1, <1>2, <1>3
<1>5. Len(Front(s)) = Len(s) - 1 /\ \A n \in 1 .. (Len(s) - 1) : Front(s)[n] = s[n]
  BY <1>1, <1>2, <1>3
<1>6. QED  BY <1>2, <1>4, <1>5 DEF IsSequence

(* What a handler may have started. *)
ByHandler(call) ==
  /\ call.op = "materialize" => Column(vecs[call.vec]).kind \in Reentered
  /\ call.op \in {"problems", "convert"} =>
       \A c \in Columns : frame.columns[c].kind \in Reentered

(* The vectors: each has an info with its own number. *)
VectorsFine ==
  /\ IsSequence(frame.columns)
  /\ IsSequence(vecs) /\ IsSequence(data) /\ DOMAIN data = DOMAIN vecs
  /\ Len(frame.columns) <= Len(vecs)
  /\ Columns \subseteq used /\ used \subseteq DOMAIN vecs
  /\ \A v \in DOMAIN vecs : vecs[v].info = v /\ Size(vecs[v]) \in Nat \ {0}
  /\ \A c \in Columns : vecs[c].column = c
  /\ \A v \in used : Parses(vecs[v]) /\ ~Stored(v) => v \in infos

(* A call, by itself. *)
CallFine(call) ==
  /\ call.op = "materialize" =>
       /\ call.vec \in DOMAIN vecs /\ call.at \in Nat
       /\ call.at # 0 /\ Parses(vecs[call.vec]) => call.out # NoData
  /\ call.op \in {"problems", "convert"} => call.at \in Nat \ {0}
  /\ Unfinished(call) => call.vec \in used /\ ~Stored(call.vec)

(* What follows a call: one with elements left is the innermost, or it      *)
(* parses a factor and a handler runs.                                      *)
Follows(call, next) ==
  Unfinished(call) => Column(vecs[call.vec]).kind = "fct" /\ next.op = "warning"

(* The calls, in their order. *)
Calls(s) ==
  /\ IsSequence(s)
  /\ \A n \in DOMAIN s : CallFine(s[n])
  /\ \A n \in 1 .. (Len(s) - 1) : Follows(s[n], s[n + 1])
  /\ \A m, n \in DOMAIN s : m < n /\ s[m].op = "warning" => ByHandler(s[n])

(* The calls in progress. *)
CallsFine == Calls(stack)

(* The inductive invariant. *)
Inv == VectorsFine /\ CallsFine

(* The invariant says that infos are there while they are needed. *)
LEMMA InvInUse == Inv => InfoInUse
BY DEF Inv, VectorsFine, CallsFine, Calls, CallFine, InfoInUse, Unfinished

(* A vector that is lazy has its info from the start. *)
LEMMA InitInv == Init => Inv
<1> SUFFICES ASSUME Init PROVE Inv
  OBVIOUS
<1>1. IsSequence(frame.columns) /\ frame.rows \in Nat \ {0}
  BY FramesAssumption DEF Init, IsSequence
<1>2. PICK n \in Nat : Columns = 1 .. n /\ Len(frame.columns) = n
  BY <1>1 DEF IsSequence, Columns
<1>3. IsSequence(vecs) /\ DOMAIN vecs = Columns /\ Len(vecs) = n
  <2>1. vecs = [c \in 1 .. n |-> Made(c)]
    BY <1>2 DEF Init
  <2>2. vecs \in Seq({Made(c) : c \in 1 .. n})
    BY <2>1
  <2>3. DOMAIN vecs = 1 .. n /\ n \in Nat
    BY <2>1
  <2>4. Len(vecs) = n
    BY <2>2, <2>3
  <2>5. QED  BY <1>2, <2>2, <2>3, <2>4 DEF IsSequence
<1>4. IsSequence(data) /\ DOMAIN data = Columns
  <2> DEFINE D(c) == IF frame.columns[c].lazy THEN NoData
                     ELSE [k \in 1 .. frame.rows |-> ValueOf(frame.columns[c], k)]
  <2>1. data = [c \in 1 .. n |-> D(c)]
    BY <1>2 DEF Init
  <2> HIDE DEF D
  <2>2. data \in Seq({D(c) : c \in 1 .. n})
    BY <1>2, <2>1
  <2>3. QED  BY <1>2, <2>1, <2>2 DEF IsSequence
<1>5. \A v \in DOMAIN vecs :
        vecs[v].info = v /\ Size(vecs[v]) \in Nat \ {0} /\ vecs[v].column = v
  <2> SUFFICES ASSUME NEW v \in Columns
               PROVE  vecs[v].info = v /\ Size(vecs[v]) \in Nat \ {0} /\ vecs[v].column = v
    BY <1>3
  <2>1. vecs[v] = Made(v)
    BY DEF Init
  <2>2. AllRows \in Seq(1 .. frame.rows) /\ Len(AllRows) = frame.rows
    BY <1>1 DEF AllRows
  <2>3. QED  BY <1>1, <2>1, <2>2 DEF Made, Size
<1>6. \A v \in used : Parses(vecs[v]) /\ ~Stored(v) => v \in infos
  <2> SUFFICES ASSUME NEW v \in Columns, Parses(vecs[v]), ~Stored(v) PROVE v \in infos
    BY DEF Init
  <2>1. CASE frame.columns[v].lazy
    BY <2>1 DEF Init, Eager
  <2>2. CASE ~frame.columns[v].lazy
    <3>1. data[v] = [k \in 1 .. frame.rows |-> ValueOf(frame.columns[v], k)]
      BY <2>2 DEF Init
    <3>2. 1 \in DOMAIN data[v]
      BY <1>1, <3>1
    <3>3. QED  BY <3>2 DEF Stored, NoData
  <2>3. QED  BY <2>1, <2>2
<1>7. VectorsFine
  <2>1. used = Columns
    BY DEF Init
  <2>2. QED  BY <1>1, <1>2, <1>3, <1>4, <1>5, <1>6, <2>1 DEF VectorsFine
<1>8. CallsFine
  <2>1. stack = <<>> /\ DOMAIN stack = {} /\ Len(stack) = 0
    BY DEF Init
  <2>2. IsSequence(stack)
    BY <2>1 DEF IsSequence
  <2>3. QED  BY <2>1, <2>2 DEF CallsFine, Calls
<1>9. QED  BY <1>7, <1>8 DEF Inv

(* One call more, or less, on a stack of calls. *)
LEMMA CallsAppend ==
  ASSUME NEW s, Calls(s), NEW c, CallFine(c),
         s # <<>> => Follows(s[Len(s)], c),
         \A m \in DOMAIN s : s[m].op = "warning" => ByHandler(c)
  PROVE  Calls(Append(s, c))
<1> DEFINE t == Append(s, c)
<1>1. /\ IsSequence(t) /\ Len(s) \in Nat /\ DOMAIN s = 1 .. Len(s)
      /\ Len(t) = Len(s) + 1 /\ DOMAIN t = 1 .. (Len(s) + 1)
      /\ \A n \in 1 .. Len(s) : t[n] = s[n]
      /\ t[Len(s) + 1] = c
  BY AppendFacts DEF Calls
<1> HIDE DEF t
<1>2. \A n \in DOMAIN t : CallFine(t[n])
  BY <1>1 DEF Calls
<1>3. ASSUME NEW n \in 1 .. Len(s) PROVE Follows(t[n], t[n + 1])
  <2>1. CASE n = Len(s)
    <3>1. s # <<>>
      BY <1>1, <2>1
    <3>2. QED  BY <1>1, <2>1, <3>1
  <2>2. CASE n \in 1 .. (Len(s) - 1)
    BY <1>1, <2>2 DEF Calls
  <2>3. n = Len(s) \/ n \in 1 .. (Len(s) - 1)
    <3>1. Len(s) \in Nat
      BY <1>1
    <3>2. QED  BY <3>1
  <2>4. QED  BY <2>1, <2>2, <2>3
<1>4. ASSUME NEW m \in DOMAIN t, NEW n \in DOMAIN t, m < n, t[m].op = "warning"
      PROVE  ByHandler(t[n])
  <2>1. CASE n = Len(s) + 1
    BY <1>1, <1>4, <2>1
  <2>2. CASE n \in 1 .. Len(s)
    BY <1>1, <1>4, <2>2 DEF Calls
  <2>3. QED  BY <1>1, <2>1, <2>2
<1>5. Len(t) - 1 = Len(s)
  BY <1>1
<1>6. QED  BY <1>1, <1>2, <1>3, <1>4, <1>5 DEF Calls, t

(* A call less. *)
LEMMA CallsFront ==
  ASSUME NEW s, Calls(s), s # <<>>
  PROVE  /\ Calls(Front(s))
         /\ Front(s) # <<>> => Follows(Front(s)[Len(Front(s))], Last(s))
         /\ \A m \in DOMAIN Front(s) : Front(s)[m].op = "warning" => ByHandler(Last(s))
         /\ CallFine(Last(s))
<1> DEFINE t == Front(s)
<1>1. /\ IsSequence(t) /\ Len(s) \in Nat \ {0} /\ DOMAIN s = 1 .. Len(s)
      /\ Len(t) = Len(s) - 1 /\ DOMAIN t = 1 .. (Len(s) - 1)
      /\ \A n \in 1 .. (Len(s) - 1) : t[n] = s[n]
  BY FrontFacts DEF Calls
<1>2. Last(s) = s[Len(s)]
  BY DEF Last
<1> HIDE DEF t
<1>3. Calls(t)
  BY <1>1 DEF Calls
<1>4. ASSUME t # <<>> PROVE Follows(t[Len(t)], Last(s))
  <2>1. Len(t) # 0
    BY <1>1, <1>4 DEF IsSequence
  <2>2. Len(t) \in 1 .. (Len(s) - 1) /\ t[Len(t)] = s[Len(t)] /\ Len(t) + 1 = Len(s)
    BY <1>1, <2>1
  <2>3. QED  BY <1>2, <2>2 DEF Calls
<1>5. \A m \in DOMAIN t : t[m].op = "warning" => ByHandler(Last(s))
  BY <1>1, <1>2 DEF Calls
<1>6. CallFine(Last(s))
  BY <1>1, <1>2 DEF Calls
<1>7. QED  BY <1>3, <1>4, <1>5, <1>6 DEF t

(* When the vectors stay as they are. *)
LEMMA SameVectors ==
  ASSUME UNCHANGED <<frame, vecs, data, used>>, infos' = infos, VectorsFine, NEW t,
         stack' = t, Calls(t)
  PROVE  Inv'
<1>1. VectorsFine'
  BY DEF VectorsFine, Columns, Size, Stored, Parses, Column
<1>2. CallsFine'
  BY DEF CallsFine, Calls, CallFine, Follows, ByHandler, Unfinished, Columns, Column, Size, Stored,
         Parses
<1>3. QED  BY <1>1, <1>2 DEF Inv

(* A warning may follow whatever is not parsing, or parses a factor. *)
LEMMA CallsReport ==
  ASSUME NEW t, Calls(t), NEW cells, Report(cells, t), t # <<>>,
         Unfinished(t[Len(t)]) => Column(vecs[t[Len(t)].vec]).kind = "fct"
  PROVE  Calls(Append(t, Warning)) /\ stack' \in {t, Append(t, Warning)}
<1>1. CallFine(Warning) /\ ByHandler(Warning) /\ Warning.op = "warning"
  BY DEF Warning, CallFine, ByHandler, Unfinished
<1>2. Follows(t[Len(t)], Warning)
  BY <1>1 DEF Follows
<1>3. Calls(Append(t, Warning))
  BY <1>1, <1>2, CallsAppend
<1>4. QED  BY <1>3 DEF Report

(* R code that goes on with a call of its own. *)
LEMMA StartsCall ==
  ASSUME Inv, RCodeRuns, NEW c, CallFine(c), stack # <<>> => ByHandler(c)
  PROVE  Calls(Append(stack, c))
<1>1. Calls(stack)
  BY DEF Inv, CallsFine
<1>2. ASSUME stack # <<>> PROVE Follows(stack[Len(stack)], c)
  BY <1>2 DEF RCodeRuns, Top, Last, Follows, Unfinished
<1>3. ASSUME NEW m \in DOMAIN stack PROVE ByHandler(c)
  <2>1. stack # <<>>
    BY <1>1 DEF Calls, IsSequence
  <2>2. QED  BY <2>1
<1>4. QED  BY <1>1, <1>2, <1>3, CallsAppend

(* Parsing an element, or all elements. *)
LEMMA EltParsedInv == ASSUME Inv, NEW v \in used, NEW k, EltParsed(v, k) PROVE Inv'
<1> DEFINE c == Call("elt", v, k, <<ValueOf(Column(vecs[v]), vecs[v].rows[k])>>)
           t == Append(stack, c)
<1>1. RCodeRuns /\ UNCHANGED <<frame, vecs, data, used>> /\ infos' = infos
  BY DEF EltParsed
<1>2. \E cells : Report(cells, t)
  BY DEF EltParsed
<1>3. c.op = "elt"
  BY DEF Call
<1>4. CallFine(c) /\ ByHandler(c)
  BY <1>3 DEF CallFine, ByHandler, Unfinished
<1> HIDE DEF c
<1>5. Calls(t)
  BY <1>1, <1>4, StartsCall
<1>6. t # <<>> /\ t[Len(t)] = c
  <2>1. IsSequence(stack)
    BY DEF Inv, CallsFine, Calls
  <2>2. Len(t) = Len(stack) + 1 /\ Len(stack) \in Nat /\ t[Len(stack) + 1] = c
    BY <2>1, AppendFacts
  <2>3. QED  BY <2>2
<1> HIDE DEF t
<1>7. Calls(Append(t, Warning)) /\ stack' \in {t, Append(t, Warning)}
  BY <1>2, <1>3, <1>5, <1>6, CallsReport DEF Unfinished
<1>8. QED  BY <1>1, <1>5, <1>7, SameVectors DEF Inv

(* A call that parses stays the innermost, or parses a factor. *)
LEMMA ParseCellsInv == ASSUME Inv, ParseCells PROVE Inv'
<1> DEFINE vec  == vecs[Top.vec]
           upto == Upto(vec, Top.at)
           c    == Call("materialize", Top.vec, upto, Parsed(vec, upto))
           t    == Append(Front(stack), c)
<1>1. /\ Top.op = "materialize" /\ Top.at + 1 <= Size(vec)
      /\ IF Parses(vec) THEN \E cells : Report(cells, t) ELSE stack' = t
      /\ UNCHANGED <<frame, vecs, data, used>> /\ infos' = infos
  BY DEF ParseCells
<1>2. stack # <<>> /\ Top = Last(stack)
  BY <1>1 DEF Top, Warning
<1>3. Calls(stack)
  BY DEF Inv, CallsFine
<1>4. /\ Calls(Front(stack))
      /\ Front(stack) # <<>> => Follows(Front(stack)[Len(Front(stack))], Top)
      /\ \A m \in DOMAIN Front(stack) : Front(stack)[m].op = "warning" => ByHandler(Top)
      /\ CallFine(Top)
  BY <1>2, <1>3, CallsFront
<1>5. Top.vec \in DOMAIN vecs /\ Top.at \in Nat /\ Size(vec) \in Nat \ {0}
  BY <1>1, <1>4 DEF CallFine, Inv, VectorsFine
<1>6. Top.vec \in used /\ ~Stored(Top.vec)
  BY <1>1, <1>4, <1>5 DEF CallFine, Unfinished
<1>7. c.op = "materialize" /\ c.vec = Top.vec /\ c.at = upto /\ c.out = Parsed(vec, upto)
  BY DEF Call
<1>8. upto \in Nat \ {0} /\ (Column(vec).kind # "fct" => upto = Size(vec))
  BY <1>5 DEF Upto
<1> HIDE DEF c, upto
<1>9. CallFine(c)
  <2>1. ASSUME Parses(vec) PROVE c.out # NoData
    <3>1. c.out = [k \in 1 .. upto |-> ValueOf(Column(vec), vec.rows[k])]
      BY <1>7, <2>1 DEF Parsed, Parses
    <3>2. 1 \in DOMAIN c.out
      BY <1>8, <3>1
    <3>3. QED  BY <3>2 DEF NoData
  <2>2. QED  BY <1>5, <1>6, <1>7, <1>8, <2>1 DEF CallFine, Unfinished
<1>10. ByHandler(Top) => ByHandler(c)
  BY <1>1, <1>7 DEF ByHandler
<1>11. Front(stack) # <<>> => Follows(Front(stack)[Len(Front(stack))], c)
  BY <1>1, <1>4, <1>7 DEF Follows
<1>12. Calls(t)
  BY <1>4, <1>9, <1>10, <1>11, CallsAppend
<1>13. t # <<>> /\ t[Len(t)] = c
  <2>1. IsSequence(Front(stack))
    BY <1>4 DEF Calls
  <2>2. /\ Len(t) = Len(Front(stack)) + 1 /\ Len(Front(stack)) \in Nat
        /\ t[Len(Front(stack)) + 1] = c
    BY <2>1, AppendFacts
  <2>3. QED  BY <2>2
<1>14. Unfinished(c) => Column(vecs[c.vec]).kind = "fct"
  BY <1>5, <1>7, <1>8 DEF Unfinished
<1> HIDE DEF t
<1>15. stack' = t \/ (Calls(Append(t, Warning)) /\ stack' \in {t, Append(t, Warning)})
  BY <1>1, <1>12, <1>13, <1>14, CallsReport
<1>16. QED  BY <1>1, <1>12, <1>15, SameVectors DEF Inv

(* Calls that only start, or go on in the next column. *)
LEMMA DataptrInv == ASSUME Inv, NEW v \in used, Dataptr(v) PROVE Inv'
<1> DEFINE c == Call("materialize", v, 0, <<>>)
<1>1. c.op = "materialize" /\ c.vec = v /\ c.at = 0
  BY DEF Call
<1> HIDE DEF c
<1>2. /\ RCodeRuns /\ UNCHANGED <<frame, vecs, data, used>> /\ infos' = infos
      /\ stack' = Append(stack, c) /\ ~Stored(v) /\ MayParse(v)
  BY DEF Dataptr, c
<1>3. v \in DOMAIN vecs
  BY DEF Inv, VectorsFine
<1>4. CallFine(c)
  BY <1>1, <1>2, <1>3 DEF CallFine
<1>5. stack # <<>> => ByHandler(c)
  BY <1>1, <1>2 DEF MayParse, ByHandler
<1>6. Calls(Append(stack, c))
  BY <1>2, <1>4, <1>5, StartsCall
<1>7. QED  BY <1>2, <1>6, SameVectors DEF Inv

(* A call that goes over the columns, by R code or a handler. *)
LEMMA StartInv == ASSUME Inv, NEW op \in {"problems", "convert"}, Start(op) PROVE Inv'
<1> DEFINE c == Call(op, 0, 1, <<>>)
<1>1. c.op = op /\ c.at = 1 /\ op # "materialize"
  BY DEF Call
<1> HIDE DEF c
<1>2. /\ RCodeRuns /\ UNCHANGED <<frame, vecs, data, used>> /\ infos' = infos
      /\ stack' = Append(stack, c) /\ \A b \in Columns : MayParse(b)
  BY DEF Start, c
<1>3. CallFine(c)
  BY <1>1 DEF CallFine, Unfinished
<1>4. \A b \in Columns : vecs[b].column = b
  BY DEF Inv, VectorsFine
<1>5. stack # <<>> => ByHandler(c)
  BY <1>1, <1>2, <1>4 DEF MayParse, ByHandler, Column
<1>6. Calls(Append(stack, c))
  BY <1>2, <1>3, <1>5, StartsCall
<1>7. QED  BY <1>2, <1>6, SameVectors DEF Inv

(* It goes on with a column that has not been parsed. *)
LEMMA NextColumnInv == ASSUME Inv, NextColumn PROVE Inv'
<1> DEFINE c == Call(Top.op, 0, Top.at + 1, <<>>)
           d == Call("materialize", Top.at, 0, <<>>)
           t == Append(Front(stack), c)
<1>1. /\ Top.op \in {"problems", "convert"} /\ Top.at <= Len(frame.columns)
      /\ stack' = IF Needs(Top.op, Top.at) THEN Append(t, d) ELSE t
      /\ UNCHANGED <<frame, vecs, data, used>> /\ infos' = infos
  BY DEF NextColumn
<1>2. stack # <<>> /\ Top = Last(stack)
  BY <1>1 DEF Top, Warning
<1>3. /\ Calls(Front(stack))
      /\ Front(stack) # <<>> => Follows(Front(stack)[Len(Front(stack))], Top)
      /\ \A m \in DOMAIN Front(stack) : Front(stack)[m].op = "warning" => ByHandler(Top)
      /\ CallFine(Top)
  BY <1>2, CallsFront DEF Inv, CallsFine
<1>4. Top.at \in Columns
  <2>1. Top.at \in Nat \ {0}
    BY <1>1, <1>3 DEF CallFine
  <2>2. DOMAIN frame.columns = 1 .. Len(frame.columns) /\ Len(frame.columns) \in Nat
    BY DEF Inv, VectorsFine, IsSequence
  <2>3. QED  BY <1>1, <2>1, <2>2 DEF Columns
<1>5. c.op = Top.op /\ c.at = Top.at + 1
  BY DEF Call
<1>6. d.op = "materialize" /\ d.vec = Top.at /\ d.at = 0
  BY DEF Call
<1> HIDE DEF c, d
<1>7. CallFine(c)
  <2>1. Top.at + 1 \in Nat \ {0}
    BY <1>1, <1>3 DEF CallFine
  <2>2. QED  BY <1>1, <1>5, <2>1 DEF CallFine, Unfinished
<1>8. ByHandler(Top) => ByHandler(c)
  BY <1>1, <1>5 DEF ByHandler
<1>9. Front(stack) # <<>> => Follows(Front(stack)[Len(Front(stack))], c)
  BY <1>1, <1>3, <1>5 DEF Follows
<1>10. Calls(t)
  BY <1>3, <1>7, <1>8, <1>9, CallsAppend
<1>11. /\ IsSequence(Front(stack)) /\ Len(Front(stack)) \in Nat
       /\ Len(t) = Len(Front(stack)) + 1 /\ t[Len(Front(stack)) + 1] = c
       /\ DOMAIN t = 1 .. (Len(Front(stack)) + 1)
       /\ \A n \in 1 .. Len(Front(stack)) : t[n] = Front(stack)[n]
       /\ DOMAIN Front(stack) = 1 .. Len(Front(stack))
  BY <1>3, AppendFacts DEF Calls
<1> HIDE DEF t
<1>12. ASSUME Needs(Top.op, Top.at) PROVE Calls(Append(t, d))
  <2>1. CallFine(d)
    BY <1>4, <1>6, <1>12 DEF Needs, CallFine, Inv, VectorsFine
  <2>2. t # <<>> => Follows(t[Len(t)], d)
    BY <1>1, <1>5, <1>11 DEF Follows, Unfinished
  <2>3. ByHandler(Top) => ByHandler(d)
    <3>1. vecs[Top.at].column = Top.at
      BY <1>4 DEF Inv, VectorsFine
    <3>2. QED  BY <1>1, <1>4, <1>6, <3>1 DEF ByHandler, Column
  <2>4. ASSUME NEW m \in DOMAIN t, t[m].op = "warning" PROVE ByHandler(d)
    <3>1. m # Len(Front(stack)) + 1
      BY <1>1, <1>5, <1>11, <2>4
    <3>2. m \in DOMAIN Front(stack) /\ Front(stack)[m].op = "warning"
      BY <1>11, <2>4, <3>1
    <3>3. QED  BY <1>3, <2>3, <3>2
  <2>5. QED  BY <1>10, <2>1, <2>2, <2>4, CallsAppend
<1>13. QED  BY <1>1, <1>10, <1>12, SameVectors DEF Inv

(* Calls that return, or never do. *)
LEMMA ReturnInv ==
  ASSUME Inv, stack # <<>>, stack' \in {Front(stack), <<>>},
         UNCHANGED <<frame, vecs, data, used>>, infos' = infos
  PROVE  Inv'
<1>1. Calls(Front(stack))
  BY CallsFront DEF Inv, CallsFine
<1>2. Calls(<<>>)
  <2>1. DOMAIN <<>> = {} /\ Len(<<>>) = 0 /\ IsSequence(<<>>)
    BY DEF IsSequence
  <2>2. QED  BY <2>1 DEF Calls
<1>3. QED  BY <1>1, <1>2, SameVectors DEF Inv

(* When the vectors that calls are parsing stay as they are. *)
LEMMA KeepsCalls ==
  ASSUME frame' = frame, DOMAIN vecs \subseteq DOMAIN vecs',
         \A v \in DOMAIN vecs : vecs'[v] = vecs[v],
         NEW t, Calls(t), stack' = t,
         \A n \in DOMAIN t : Unfinished(t[n]) =>
           t[n].vec \in used' /\ data'[t[n].vec] = data[t[n].vec]
  PROVE  CallsFine'
<1>1. ASSUME NEW c, c.op = "materialize", c.vec \in DOMAIN vecs
      PROVE  /\ vecs'[c.vec] = vecs[c.vec] /\ c.vec \in DOMAIN vecs'
             /\ Column(vecs[c.vec])' = Column(vecs[c.vec])
             /\ Size(vecs[c.vec])' = Size(vecs[c.vec])
             /\ Parses(vecs[c.vec])' = Parses(vecs[c.vec])
  BY <1>1 DEF Column, Size, Parses
<1>2. \A n \in DOMAIN t : CallFine(t[n])'
  BY <1>1 DEF Calls, CallFine, Unfinished, Stored
<1>3. \A n \in 1 .. (Len(t) - 1) : Follows(t[n], t[n + 1])'
  BY <1>1 DEF Calls, CallFine, Follows, Unfinished, IsSequence
<1>4. \A m, n \in DOMAIN t : m < n /\ t[m].op = "warning" => ByHandler(t[n])'
  BY <1>1 DEF Calls, CallFine, ByHandler, Columns
<1>5. QED  BY <1>2, <1>3, <1>4 DEF Calls, CallsFine

(* A vector that is stored is not one that a factor's handler interrupted.  *)
LEMMA StoreInv == ASSUME Inv, "fct" \notin Reentered, Store PROVE Inv'
<1> DEFINE v == Top.vec
<1>1. /\ Top.op = "materialize" /\ Top.at = Size(vecs[v])
      /\ data' = [data EXCEPT ![v] = Top.out]
      /\ infos' = infos \ {vecs[v].info}
      /\ stack' = Front(stack)
      /\ UNCHANGED <<frame, vecs, used>>
  BY DEF Store
<1>2. stack # <<>> /\ Top = Last(stack)
  BY <1>1 DEF Top, Warning
<1>3. Calls(stack) /\ Calls(Front(stack)) /\ CallFine(Top)
  BY <1>2, CallsFront DEF Inv, CallsFine
<1>4. /\ v \in DOMAIN vecs /\ v \in DOMAIN data /\ vecs[v].info = v
      /\ Size(vecs[v]) \in Nat \ {0}
  BY <1>1, <1>3 DEF CallFine, Inv, VectorsFine
<1>5. Parses(vecs[v]) => Top.out # NoData
  BY <1>1, <1>3, <1>4 DEF CallFine
<1>6. /\ data'[v] = Top.out /\ DOMAIN data' = DOMAIN data
      /\ \A u \in DOMAIN data : u # v => data'[u] = data[u]
  BY <1>1, <1>4
<1> HIDE DEF v
<1>7. VectorsFine'
  <2>1. IsSequence(data')
    <3>1. PICK S : data \in Seq(S)
      BY DEF Inv, VectorsFine, IsSequence
    <3>2. data \in Seq(S \union {Top.out})
      BY <3>1
    <3>3. data' \in Seq(S \union {Top.out})
      BY <1>1, <1>4, <3>2
    <3>4. QED  BY <3>3 DEF IsSequence
  <2>2. ASSUME NEW u \in used, Parses(vecs[u]), ~Stored(u)' PROVE u \in infos'
    <3>1. u # v
      BY <1>5, <1>6, <2>2 DEF Stored
    <3>2. u \in DOMAIN data /\ vecs[u].info = u
      BY DEF Inv, VectorsFine
    <3>3. ~Stored(u)
      BY <1>6, <2>2, <3>1, <3>2 DEF Stored
    <3>4. u \in infos
      BY <2>2, <3>3 DEF Inv, VectorsFine
    <3>5. QED  BY <1>1, <1>4, <3>1, <3>4 DEF v
  <2>3. QED
    BY <1>1, <1>6, <2>1, <2>2
    DEF Inv, VectorsFine, Columns, Size, Parses, Column
<1>8. CallsFine'
  <2>1. ASSUME NEW n \in DOMAIN Front(stack), Unfinished(Front(stack)[n])
        PROVE  Front(stack)[n].vec # v
    <3>1. /\ Len(stack) \in Nat \ {0} /\ n \in 1 .. (Len(stack) - 1)
          /\ Front(stack)[n] = stack[n] /\ DOMAIN stack = 1 .. Len(stack)
      BY <1>2, <1>3, FrontFacts DEF Calls
    <3>2. Follows(stack[n], stack[n + 1])
      BY <1>3, <3>1 DEF Calls
    <3>3. stack[n + 1].op = "warning" /\ Column(vecs[stack[n].vec]).kind = "fct"
      BY <2>1, <3>1, <3>2 DEF Follows
    <3>4. n + 1 # Len(stack) /\ Last(stack) = stack[Len(stack)]
      BY <1>1, <1>2, <3>3 DEF Last
    <3>5. n + 1 < Len(stack) /\ n + 1 \in DOMAIN stack /\ Len(stack) \in DOMAIN stack
      BY <3>1, <3>4
    <3>6. ByHandler(stack[Len(stack)])
      BY <1>3, <3>3, <3>5 DEF Calls
    <3>7. Column(vecs[v]).kind \in Reentered
      BY <1>1, <1>2, <3>4, <3>6 DEF ByHandler, v
    <3>8. QED  BY <3>1, <3>3, <3>7
  <2>2. ASSUME NEW n \in DOMAIN Front(stack), Unfinished(Front(stack)[n])
        PROVE  /\ Front(stack)[n].vec \in used'
               /\ data'[Front(stack)[n].vec] = data[Front(stack)[n].vec]
    <3>1. Front(stack)[n].vec \in DOMAIN vecs /\ Front(stack)[n].vec \in used
      BY <1>3, <2>2 DEF Calls, CallFine, Unfinished
    <3>2. Front(stack)[n].vec \in DOMAIN data
      BY <3>1 DEF Inv, VectorsFine
    <3>3. QED  BY <1>1, <1>6, <2>1, <2>2, <3>1, <3>2
  <2>3. QED  BY <1>1, <1>3, <2>2, KeepsCalls
<1>9. QED  BY <1>7, <1>8 DEF Inv

(* A vector more, or less. *)
LEMMA MakeInv ==
  ASSUME Inv, NEW v \in used, NEW rows, NEW picked, Make(v, rows, picked),
         Len(rows) \in Nat \ {0}
  PROVE  Inv'
<1> DEFINE l   == Len(vecs) + 1
           vec == [column |-> vecs[v].column, rows |-> rows, info |-> l,
                   subset |-> vecs[v].subset \/ picked # <<>>]
<1>1. /\ vecs' = Append(vecs, vec) /\ data' = Append(data, NoData)
      /\ used' = used \union {l} /\ infos' = infos \union {l}
      /\ frame' = frame /\ stack' = stack
  BY DEF Make
<1>2. vec.info = l /\ vec.rows = rows
  OBVIOUS
<1>3. /\ IsSequence(vecs) /\ IsSequence(data) /\ DOMAIN data = DOMAIN vecs
      /\ Len(frame.columns) <= Len(vecs) /\ used \subseteq DOMAIN vecs
      /\ DOMAIN frame.columns = 1 .. Len(frame.columns) /\ Len(frame.columns) \in Nat
  BY DEF Inv, VectorsFine, IsSequence
<1> HIDE DEF vec
<1>4. /\ IsSequence(vecs') /\ Len(vecs) \in Nat /\ DOMAIN vecs = 1 .. Len(vecs)
      /\ Len(vecs') = l /\ DOMAIN vecs' = 1 .. l /\ vecs'[l] = vec
      /\ \A u \in 1 .. Len(vecs) : vecs'[u] = vecs[u]
  BY <1>1, <1>3, AppendFacts
<1>5. /\ IsSequence(data') /\ Len(data) = Len(vecs) /\ DOMAIN data' = 1 .. l
      /\ \A u \in 1 .. Len(vecs) : data'[u] = data[u]
  <2>1. /\ IsSequence(data') /\ Len(data) \in Nat /\ DOMAIN data = 1 .. Len(data)
        /\ DOMAIN data' = 1 .. (Len(data) + 1)
        /\ \A u \in 1 .. Len(data) : data'[u] = data[u]
    BY <1>1, <1>3, AppendFacts
  <2>2. Len(data) = Len(vecs)
    BY <1>3, <1>4, <2>1
  <2>3. QED  BY <2>1, <2>2
<1>6. VectorsFine'
  <2>1. /\ IsSequence(frame.columns)' /\ (Len(frame.columns) <= Len(vecs))'
        /\ DOMAIN data' = DOMAIN vecs'
    BY <1>1, <1>3, <1>4, <1>5 DEF Inv, VectorsFine
  <2>2. (Columns \subseteq used)' /\ used' \subseteq DOMAIN vecs'
    BY <1>1, <1>3, <1>4 DEF Inv, VectorsFine, Columns
  <2>3. ASSUME NEW u \in DOMAIN vecs' PROVE vecs'[u].info = u /\ Size(vecs[u])' \in Nat \ {0}
    <3>1. CASE u = l
      BY <1>2, <1>4, <3>1 DEF Size
    <3>2. CASE u \in 1 .. Len(vecs)
      BY <1>4, <3>2 DEF Inv, VectorsFine, Size
    <3>3. QED  BY <1>4, <2>3, <3>1, <3>2
  <2>4. ASSUME NEW c \in Columns' PROVE vecs'[c].column = c
    <3>1. c \in Columns /\ c \in 1 .. Len(vecs)
      BY <1>1, <1>3, <1>4 DEF Columns
    <3>2. QED  BY <1>4, <3>1 DEF Inv, VectorsFine
  <2>5. ASSUME NEW u \in used', Parses(vecs[u])', ~Stored(u)' PROVE u \in infos'
    <3>1. CASE u = l
      BY <1>1, <3>1
    <3>2. CASE u \in used /\ u # l
      <4>1. u \in 1 .. Len(vecs)
        BY <1>3, <1>4, <3>2
      <4>2. Parses(vecs[u]) /\ ~Stored(u)
        BY <1>1, <1>4, <1>5, <2>5, <4>1 DEF Parses, Column, Stored
      <4>3. QED  BY <1>1, <3>2, <4>2 DEF Inv, VectorsFine
    <3>3. QED  BY <1>1, <3>1, <3>2
  <2>6. QED  BY <1>4, <1>5, <2>1, <2>2, <2>3, <2>4, <2>5 DEF VectorsFine
<1>7. CallsFine'
  <2>1. Calls(stack)
    BY DEF Inv, CallsFine
  <2>2. ASSUME NEW n \in DOMAIN stack, Unfinished(stack[n])
        PROVE  stack[n].vec \in used' /\ data'[stack[n].vec] = data[stack[n].vec]
    <3>1. stack[n].vec \in used
      BY <2>1, <2>2 DEF Calls, CallFine
    <3>2. QED  BY <1>1, <1>3, <1>4, <1>5, <3>1
  <2>3. DOMAIN vecs \subseteq DOMAIN vecs' /\ \A u \in DOMAIN vecs : vecs'[u] = vecs[u]
    BY <1>4
  <2>4. QED  BY <1>1, <2>1, <2>2, <2>3, KeepsCalls
<1>8. QED  BY <1>6, <1>7 DEF Inv

(* A subset is a vector more, and not empty. *)
LEMMA ExtractSubsetInv ==
  ASSUME Inv, NEW v \in used, NEW n \in 1 .. MaxPicked,
         NEW picked \in [1 .. n -> 1 .. Size(vecs[v])], ExtractSubset(v, picked)
  PROVE  Inv'
<1> DEFINE rows == [m \in DOMAIN picked |-> vecs[v].rows[picked[m]]]
<1>1. n \in Nat \ {0}
  BY FramesAssumption
<1>2. rows \in Seq({rows[m] : m \in 1 .. n}) /\ Len(rows) = n
  BY <1>1
<1>3. Make(v, rows, picked)
  BY DEF ExtractSubset
<1> HIDE DEF rows
<1>4. QED  BY <1>1, <1>2, <1>3, MakeInv

(* A copy is a vector more. *)
LEMMA DuplicateInv == ASSUME Inv, NEW v \in used, Duplicate(v) PROVE Inv'
<1>1. Make(v, vecs[v].rows, <<>>)
  BY DEF Duplicate
<1>2. Len(vecs[v].rows) \in Nat \ {0}
  BY DEF Inv, VectorsFine, Size
<1>3. QED  BY <1>1, <1>2, MakeInv

(* R drops only vectors that no call is about. *)
LEMMA CollectInv == ASSUME Inv, NEW v \in used, Collect(v) PROVE Inv'
<1>1. /\ v > Len(frame.columns) /\ used' = used \ {v} /\ infos' = infos \ {vecs[v].info}
      /\ UNCHANGED <<frame, vecs, data, stack>> /\ ~InCall(v)
  BY DEF Collect
<1>2. vecs[v].info = v /\ v \notin Columns
  <2>1. Columns = 1 .. Len(frame.columns) /\ Len(frame.columns) \in Nat
    BY DEF Inv, VectorsFine, IsSequence, Columns
  <2>2. v \in DOMAIN vecs /\ DOMAIN vecs = 1 .. Len(vecs)
    BY DEF Inv, VectorsFine, IsSequence
  <2>3. QED  BY <1>1, <2>1, <2>2 DEF Inv, VectorsFine
<1>3. VectorsFine'
  BY <1>1, <1>2 DEF Inv, VectorsFine, Columns, Size, Parses, Column, Stored
<1>4. CallsFine'
  <2>1. Calls(stack)
    BY DEF Inv, CallsFine
  <2>2. ASSUME NEW n \in DOMAIN stack, Unfinished(stack[n])
        PROVE  stack[n].vec \in used' /\ data'[stack[n].vec] = data[stack[n].vec]
    BY <1>1, <2>1, <2>2 DEF Calls, CallFine, InCall
  <2>3. QED  BY <1>1, <2>1, <2>2, KeepsCalls
<1>5. QED  BY <1>3, <1>4 DEF Inv

(* Every step keeps the invariant. *)
LEMMA NextInv == Inv /\ "fct" \notin Reentered /\ [Next]_vars => Inv'
<1> SUFFICES ASSUME Inv, "fct" \notin Reentered, [Next]_vars PROVE Inv'
  OBVIOUS
<1>1. ASSUME UNCHANGED <<frame, vecs, data, used, infos, stack>> PROVE Inv'
  BY <1>1, SameVectors DEF Inv, CallsFine
<1>2. ASSUME NEW v \in used,
             \/ \E k \in 1 .. Size(vecs[v]) : EltStored(v, k) \/ EltParsed(v, k)
             \/ DataptrStored(v) \/ Dataptr(v) \/ Duplicate(v)
             \/ \E n \in 1 .. MaxPicked : \E picked \in [1 .. n -> 1 .. Size(vecs[v])] :
                  ExtractSubset(v, picked)
             \/ Collect(v)
      PROVE  Inv'
  <2>1. CASE \E k \in 1 .. Size(vecs[v]) : EltStored(v, k)
    BY <1>1, <2>1 DEF EltStored
  <2>2. CASE \E k \in 1 .. Size(vecs[v]) : EltParsed(v, k)
    BY <2>2, EltParsedInv
  <2>3. CASE DataptrStored(v)
    BY <1>1, <2>3 DEF DataptrStored
  <2>4. QED
    BY <1>2, <2>1, <2>2, <2>3, DataptrInv, DuplicateInv, ExtractSubsetInv, CollectInv
<1>3. CASE \E op \in {"problems", "convert"} : Start(op)
  BY <1>3, StartInv
<1>4. CASE HandlerReturns \/ HandlerLeaves
  BY <1>4, ReturnInv DEF HandlerReturns, HandlerLeaves
<1>5. CASE ReturnElt
  <2>1. stack # <<>>
    BY <1>5 DEF ReturnElt, Top, Warning
  <2>2. QED  BY <1>5, <2>1, ReturnInv DEF ReturnElt
<1>6. CASE ParseCells
  BY <1>6, ParseCellsInv
<1>7. CASE Store
  BY <1>7, StoreInv
<1>8. CASE NextColumn
  BY <1>8, NextColumnInv
<1>9. CASE Finish
  <2>1. stack # <<>>
    BY <1>9 DEF Finish, Top, Warning
  <2>2. QED  BY <1>9, <2>1, ReturnInv DEF Finish
<1>10. CASE UNCHANGED vars
  BY <1>1, <1>10 DEF vars
<1>11. QED
  BY <1>2, <1>3, <1>4, <1>5, <1>6, <1>7, <1>8, <1>9, <1>10 DEF Next, RCode

(* No element is read through an info that was deleted, whatever vectors    *)
(* are made, parsed, dropped and interrupted in whatever order, when no     *)
(* handler of the warning parses a factor as a whole.                       *)
THEOREM InfoAlwaysInUse ==
  ASSUME "fct" \notin Reentered PROVE Spec => []InfoInUse
<1>1. Inv /\ [Next]_vars => Inv'
  BY NextInv
<1>2. QED
  BY <1>1, InitInv, InvInUse, PTL DEF Spec

----------------------------------------------------------------------------
(* The warning.                                                            *)

(* A stack has at most one warning, and none while no one was warned.       *)
Warnings(s, was) ==
  /\ IsSequence(s)
  /\ IF was THEN \E w \in Nat : \A n \in DOMAIN s : s[n].op = "warning" => n = w
     ELSE \A n \in DOMAIN s : s[n].op # "warning"

(* There are problems other than ragged rows, which reading the first       *)
(* column reports, only if someone was warned.                             *)
WarnInv ==
  /\ warned \in BOOLEAN
  /\ warned => errors # {}
  /\ errors \ Ragged # {} => warned
  /\ Warnings(stack, warned)

(* Calls that are made, and that return. *)
LEMMA WarningsAppend ==
  ASSUME NEW s, NEW was, Warnings(s, was), NEW c, c.op # "warning"
  PROVE  Warnings(Append(s, c), was)
<1>1. /\ IsSequence(Append(s, c)) /\ DOMAIN s = 1 .. Len(s) /\ Len(s) \in Nat
      /\ DOMAIN Append(s, c) = 1 .. (Len(s) + 1)
      /\ \A n \in 1 .. Len(s) : Append(s, c)[n] = s[n]
      /\ Append(s, c)[Len(s) + 1] = c
  BY AppendFacts DEF Warnings
<1>2. ASSUME NEW n \in DOMAIN Append(s, c), Append(s, c)[n].op = "warning"
      PROVE  n \in DOMAIN s /\ s[n].op = "warning"
  <2>1. n # Len(s) + 1
    BY <1>1, <1>2
  <2>2. n \in 1 .. Len(s)
    BY <1>1, <2>1
  <2>3. QED  BY <1>1, <1>2, <2>2
<1>3. QED  BY <1>1, <1>2 DEF Warnings

(* A call that returns leaves no more warnings. *)
LEMMA WarningsFront ==
  ASSUME NEW s, NEW was, Warnings(s, was), s # <<>>
  PROVE  Warnings(Front(s), was)
<1>1. /\ IsSequence(Front(s)) /\ DOMAIN s = 1 .. Len(s) /\ Len(s) \in Nat
      /\ DOMAIN Front(s) = 1 .. (Len(s) - 1)
      /\ \A n \in 1 .. (Len(s) - 1) : Front(s)[n] = s[n]
  BY FrontFacts DEF Warnings
<1>2. \A n \in DOMAIN Front(s) : n \in DOMAIN s /\ Front(s)[n] = s[n]
  BY <1>1
<1>3. QED  BY <1>1, <1>2 DEF Warnings

(* A report warns if no one was warned before. *)
LEMMA WarningsReport ==
  ASSUME WarnInv, NEW t, Warnings(t, warned), NEW cells, Report(cells, t), frame' = frame
  PROVE  WarnInv'
<1>1. /\ errors' = errors \union cells /\ warned' = (warned \/ errors' # {})
      /\ stack' = IF warned' /\ ~warned THEN Append(t, Warning) ELSE t
  BY DEF Report
<1>2. warned' \in BOOLEAN /\ (errors' # {} => warned') /\ (warned' => errors' # {})
  BY <1>1 DEF WarnInv
<1>3. CASE warned' /\ ~warned
  <2>1. /\ IsSequence(Append(t, Warning)) /\ DOMAIN t = 1 .. Len(t) /\ Len(t) \in Nat
        /\ DOMAIN Append(t, Warning) = 1 .. (Len(t) + 1)
        /\ \A n \in 1 .. Len(t) : Append(t, Warning)[n] = t[n]
    BY AppendFacts DEF Warnings
  <2>2. \A n \in DOMAIN t : t[n].op # "warning"
    BY <1>3 DEF Warnings
  <2>3. \A n \in 1 .. (Len(t) + 1) : Append(t, Warning)[n].op = "warning" => n = Len(t) + 1
    <3>1. ASSUME NEW n \in 1 .. (Len(t) + 1), n # Len(t) + 1
          PROVE  n \in 1 .. Len(t)
      BY <2>1, <3>1
    <3>2. QED  BY <2>1, <2>2, <3>1
  <2>4. Len(t) + 1 \in Nat
    BY <2>1
  <2>5. Warnings(stack', TRUE)
    BY <1>1, <1>3, <2>1, <2>3, <2>4 DEF Warnings
  <2>6. warned' = TRUE
    BY <1>2, <1>3
  <2>7. QED  BY <1>2, <2>5, <2>6 DEF WarnInv
<1>4. CASE ~(warned' /\ ~warned)
  <2>1. stack' = t /\ warned' = warned
    BY <1>1, <1>2, <1>4 DEF WarnInv
  <2>2. QED  BY <1>2, <2>1 DEF WarnInv
<1>5. QED  BY <1>3, <1>4

(* Reading the columns that are not lazy warns at once. *)
LEMMA InitWarnInv == Init => WarnInv
<1> SUFFICES ASSUME Init PROVE WarnInv
  OBVIOUS
<1>1. /\ errors = Ragged \union UNION {BadCells(frame.columns[c], 1 .. frame.rows) : c \in Eager}
      /\ warned = (Eager # {} /\ errors # {})
      /\ stack = <<>>
  BY DEF Init
<1>2. errors \ Ragged # {} => Eager # {}
  BY <1>1
<1>3. IsSequence(<<>>) /\ DOMAIN <<>> = {}
  BY DEF IsSequence
<1>4. Warnings(stack, warned)
  BY <1>1, <1>3 DEF Warnings
<1>5. QED  BY <1>1, <1>2, <1>4 DEF WarnInv

(* Steps that report nothing. *)
LEMMA QuietStep ==
  ASSUME WarnInv, UNCHANGED <<frame, errors, warned>>, Warnings(stack', warned)
  PROVE  WarnInv'
BY DEF WarnInv, Ragged

(* Every step warns when it must, and never twice. *)
LEMMA NextWarnInv == WarnInv /\ [Next]_vars => WarnInv'
<1> SUFFICES ASSUME WarnInv, [Next]_vars PROVE WarnInv'
  OBVIOUS
<1>1. Warnings(stack, warned)
  BY DEF WarnInv
<1>2. ASSUME UNCHANGED <<frame, errors, warned, stack>> PROVE WarnInv'
  BY <1>1, <1>2, QuietStep
<1>3. Top.op # "warning" => stack # <<>>
  BY DEF Top, Warning
<1>4. stack # <<>> => Warnings(Front(stack), warned)
  BY <1>1, WarningsFront
<1>5. Warnings(<<>>, warned)
  <2>1. IsSequence(<<>>) /\ DOMAIN <<>> = {}
    BY DEF IsSequence
  <2>2. QED  BY <2>1 DEF Warnings
<1>6. CASE \E v \in used : \E k : EltParsed(v, k)
  <2>1. PICK v, k : v \in used /\ EltParsed(v, k)
    BY <1>6
  <2> DEFINE c == Call("elt", v, k, <<ValueOf(Column(vecs[v]), vecs[v].rows[k])>>)
  <2>2. frame' = frame /\ \E cells : Report(cells, Append(stack, c))
    BY <2>1 DEF EltParsed
  <2>3. c.op # "warning"
    BY DEF Call
  <2> HIDE DEF c
  <2>4. Warnings(Append(stack, c), warned)
    BY <1>1, <2>3, WarningsAppend
  <2>5. QED  BY <2>2, <2>4, WarningsReport
<1>7. CASE ParseCells
  <2> DEFINE upto == Upto(vecs[Top.vec], Top.at)
             c    == Call("materialize", Top.vec, upto, Parsed(vecs[Top.vec], upto))
             t    == Append(Front(stack), c)
  <2>1. /\ Top.op = "materialize" /\ frame' = frame
        /\ \/ \E cells : Report(cells, t)
           \/ stack' = t /\ UNCHANGED <<errors, warned>>
    BY <1>7 DEF ParseCells
  <2>2. c.op # "warning"
    BY DEF Call
  <2> HIDE DEF c
  <2>3. Warnings(t, warned)
    BY <1>3, <1>4, <2>1, <2>2, WarningsAppend
  <2> HIDE DEF t
  <2>4. QED  BY <2>1, <2>3, WarningsReport, QuietStep
<1>8. CASE \E v \in used : Dataptr(v)
  <2>1. PICK v \in used : Dataptr(v)
    BY <1>8
  <2>2. /\ stack' = Append(stack, Call("materialize", v, 0, <<>>))
        /\ UNCHANGED <<frame, errors, warned>>
    BY <2>1 DEF Dataptr
  <2>3. Call("materialize", v, 0, <<>>).op # "warning"
    BY DEF Call
  <2>4. QED  BY <1>1, <2>2, <2>3, WarningsAppend, QuietStep
<1>9. CASE \E op \in {"problems", "convert"} : Start(op)
  <2>1. PICK op \in {"problems", "convert"} : Start(op)
    BY <1>9
  <2>2. stack' = Append(stack, Call(op, 0, 1, <<>>)) /\ UNCHANGED <<frame, errors, warned>>
    BY <2>1 DEF Start
  <2>3. Call(op, 0, 1, <<>>).op # "warning"
    BY DEF Call
  <2>4. QED  BY <1>1, <2>2, <2>3, WarningsAppend, QuietStep
<1>10. CASE NextColumn
  <2> DEFINE c == Call(Top.op, 0, Top.at + 1, <<>>)
             d == Call("materialize", Top.at, 0, <<>>)
             t == Append(Front(stack), c)
  <2>1. /\ Top.op \in {"problems", "convert"} /\ stack' \in {t, Append(t, d)}
        /\ UNCHANGED <<frame, errors, warned>>
    BY <1>10 DEF NextColumn
  <2>2. c.op # "warning" /\ d.op # "warning"
    BY <2>1 DEF Call
  <2> HIDE DEF c, d
  <2>3. Warnings(t, warned)
    BY <1>3, <1>4, <2>1, <2>2, WarningsAppend
  <2> HIDE DEF t
  <2>4. Warnings(Append(t, d), warned)
    BY <2>2, <2>3, WarningsAppend
  <2>5. QED  BY <2>1, <2>3, <2>4, QuietStep
<1>11. CASE ReturnElt \/ Store \/ Finish \/ HandlerReturns \/ HandlerLeaves
  <2>1. UNCHANGED <<frame, errors, warned>> /\ stack # <<>> /\ stack' \in {Front(stack), <<>>}
    BY <1>3, <1>11 DEF ReturnElt, Store, Finish, HandlerReturns, HandlerLeaves
  <2>2. QED  BY <1>4, <1>5, <2>1, QuietStep
<1>12. CASE \E v \in used :
              \/ \E k : EltStored(v, k)
              \/ DataptrStored(v) \/ Duplicate(v) \/ Collect(v)
              \/ \E picked : ExtractSubset(v, picked)
  BY <1>2, <1>12 DEF EltStored, DataptrStored, Duplicate, Collect, ExtractSubset, Make
<1>13. CASE UNCHANGED vars
  BY <1>2, <1>13 DEF vars
<1>14. QED
  BY <1>6, <1>7, <1>8, <1>9, <1>10, <1>11, <1>12, <1>13 DEF Next, RCode

(* Whatever calls are made, interrupted and left by handlers: R code goes   *)
(* on after a cell that cannot be parsed only when it has been warned, it   *)
(* is warned only of problems, and never while a warning is being handled.  *)
THEOREM AlwaysWarnsOfProblems == Spec => []WarnsOfProblems
<1>1. WarnInv => WarnsOfProblems
  <2> SUFFICES ASSUME WarnInv PROVE WarnsOfProblems
    OBVIOUS
  <2> DEFINE handled == {n \in DOMAIN stack : stack[n].op = "warning"}
  <2>1. \E w \in Nat : \A n \in DOMAIN stack : stack[n].op = "warning" => n = w
    BY DEF WarnInv, Warnings
  <2>2. handled = {} \/ \E w \in Nat : handled = {w}
    BY <2>1
  <2> HIDE DEF handled
  <2>3. Cardinality(handled) <= 1
    <3>1. CASE handled = {}
      BY <3>1, FS_EmptySet
    <3>2. CASE \E w \in Nat : handled = {w}
      <4>1. PICK w \in Nat : handled = {w}
        BY <3>2
      <4>2. Cardinality({w}) = 1
        BY FS_Singleton
      <4>3. QED  BY <4>1, <4>2
    <3>3. QED  BY <2>2, <3>1, <3>2
  <2>4. QED  BY <2>3 DEF WarnInv, WarnsOfProblems, handled
<1>2. QED
  BY <1>1, InitWarnInv, NextWarnInv, PTL DEF Spec

----------------------------------------------------------------------------
(* The problems.                                                           *)

(* A call that parses a column has reported its bad cells so far. *)
CallReports(call, reported) ==
  /\ call.op = "materialize" =>
       /\ call.vec \in DOMAIN vecs /\ call.at \in 0 .. Size(vecs[call.vec])
       /\ call.at > 0 => call.out # NoData
       /\ call.vec \in Columns =>
            BadCells(frame.columns[call.vec], 1 .. call.at) \subseteq reported
  /\ call.op \in {"problems", "convert"} => call.at \in Nat \ {0}

(* A call has passed a column that it needs and that is not parsed. *)
Lacks(call, c) ==
  call.op \in {"problems", "convert"} /\ c < call.at /\ Needs(call.op, c)

(* It does so only while it waits for the call that parses it. *)
Reporting(s, reported) ==
  /\ IsSequence(s)
  /\ \A n \in DOMAIN s : CallReports(s[n], reported)
  /\ \A n \in 1 .. (Len(s) - 1), c \in Columns :
       Lacks(s[n], c) => s[n + 1].op = "materialize" /\ s[n + 1].vec = c

(* The columns are vectors of all rows. *)
ColumnsWhole ==
  /\ frame \in Frames /\ IsSequence(frame.columns) /\ frame.rows \in Nat \ {0}
  /\ IsSequence(vecs) /\ IsSequence(data) /\ DOMAIN data = DOMAIN vecs
  /\ Columns \subseteq DOMAIN vecs /\ used \subseteq DOMAIN vecs
  /\ \A c \in Columns : vecs[c].column = c /\ vecs[c].rows = AllRows /\ ~vecs[c].subset
  /\ \A v \in DOMAIN vecs : Size(vecs[v]) \in Nat \ {0} /\ vecs[v].column \in Columns

(* What is stored has been reported. *)
StoredReported ==
  /\ Ragged \subseteq errors
  /\ \A c \in Columns :
       Stored(c) => BadCells(frame.columns[c], 1 .. frame.rows) \subseteq errors

(* The inductive invariant of ProblemsAreComplete. *)
CompleteInv ==
  /\ ColumnsWhole
  /\ StoredReported
  /\ Reporting(stack, errors)
  /\ \A c \in Columns : ~Lacks(Top, c)
  /\ ProblemsAreComplete

(* More reports do no harm. *)
LEMMA ReportingMore ==
  ASSUME NEW s, NEW r, NEW q, Reporting(s, r), r \subseteq q
  PROVE  Reporting(s, q)
BY DEF Reporting, CallReports

(* One call more, or less. *)
LEMMA ReportingAppend ==
  ASSUME NEW s, NEW r, Reporting(s, r), NEW c, CallReports(c, r),
         s # <<>> => \A b \in Columns :
           Lacks(Last(s), b) => c.op = "materialize" /\ c.vec = b
  PROVE  /\ Reporting(Append(s, c), r)
         /\ Append(s, c) # <<>> /\ Last(Append(s, c)) = c
<1> DEFINE t == Append(s, c)
<1>1. /\ IsSequence(t) /\ Len(s) \in Nat /\ DOMAIN s = 1 .. Len(s)
      /\ Len(t) = Len(s) + 1 /\ DOMAIN t = 1 .. (Len(s) + 1)
      /\ \A n \in 1 .. Len(s) : t[n] = s[n]
      /\ t[Len(s) + 1] = c
  BY AppendFacts DEF Reporting
<1> HIDE DEF t
<1>2. \A n \in DOMAIN t : CallReports(t[n], r)
  <2>1. ASSUME NEW n \in DOMAIN t PROVE n = Len(s) + 1 \/ n \in 1 .. Len(s)
    BY <1>1
  <2>2. QED  BY <1>1, <2>1 DEF Reporting
<1>3. ASSUME NEW n \in 1 .. Len(s), NEW b \in Columns, Lacks(t[n], b)
      PROVE  t[n + 1].op = "materialize" /\ t[n + 1].vec = b
  <2>1. CASE n = Len(s)
    <3>1. s # <<>> /\ Last(s) = s[Len(s)]
      BY <1>1, <2>1 DEF Last
    <3>2. QED  BY <1>1, <1>3, <2>1, <3>1
  <2>2. CASE n # Len(s)
    <3>1. Len(s) \in Nat
      BY <1>1
    <3>2. n \in 1 .. (Len(s) - 1) /\ n + 1 \in 1 .. Len(s)
      BY <2>2, <3>1
    <3>3. QED  BY <1>1, <1>3, <3>2 DEF Reporting
  <2>3. QED  BY <2>1, <2>2
<1>4. Len(t) - 1 = Len(s)
  BY <1>1
<1>5. Reporting(t, r)
  BY <1>1, <1>2, <1>3, <1>4 DEF Reporting
<1>6. t # <<>> /\ Last(t) = c
  BY <1>1 DEF Last
<1>7. QED  BY <1>5, <1>6 DEF t

(* What is left awaits only what the call parsed. *)
LEMMA ReportingFront ==
  ASSUME NEW s, NEW r, Reporting(s, r), s # <<>>
  PROVE  /\ Reporting(Front(s), r)
         /\ CallReports(Last(s), r)
         /\ Front(s) # <<>> => \A b \in Columns :
              Lacks(Last(Front(s)), b) => Last(s).op = "materialize" /\ Last(s).vec = b
<1> DEFINE t == Front(s)
<1>1. /\ IsSequence(t) /\ Len(s) \in Nat \ {0} /\ DOMAIN s = 1 .. Len(s)
      /\ Len(t) = Len(s) - 1 /\ DOMAIN t = 1 .. (Len(s) - 1)
      /\ \A n \in 1 .. (Len(s) - 1) : t[n] = s[n]
  BY FrontFacts DEF Reporting
<1>2. Last(s) = s[Len(s)] /\ Last(t) = t[Len(t)]
  BY DEF Last
<1> HIDE DEF t
<1>3. \A n \in DOMAIN t : n \in DOMAIN s /\ t[n] = s[n]
  BY <1>1
<1>4. \A n \in 1 .. (Len(t) - 1) :
        n \in 1 .. (Len(s) - 1) /\ n \in DOMAIN t /\ n + 1 \in DOMAIN t
  BY <1>1
<1>5. Reporting(t, r)
  BY <1>1, <1>3, <1>4 DEF Reporting
<1>6. CallReports(Last(s), r)
  BY <1>1, <1>2 DEF Reporting
<1>7. ASSUME t # <<>>, NEW b \in Columns, Lacks(Last(t), b)
      PROVE  Last(s).op = "materialize" /\ Last(s).vec = b
  <2>1. Len(t) # 0
    BY <1>1, <1>7 DEF IsSequence
  <2>2. /\ Len(t) \in 1 .. (Len(s) - 1) /\ t[Len(t)] = s[Len(t)]
        /\ Len(t) + 1 = Len(s)
    BY <1>1, <2>1
  <2>3. QED  BY <1>2, <1>7, <2>2 DEF Reporting
<1>8. QED  BY <1>5, <1>6, <1>7 DEF t

(* Steps that leave the vectors alone. *)
LEMMA SameColumns ==
  ASSUME CompleteInv, UNCHANGED <<frame, vecs, data>>, used' \subseteq used,
         errors \subseteq errors',
         NEW t, stack' = t, Reporting(t, errors'),
         t # <<>> => \A c \in Columns : ~Lacks(Last(t), c),
         ProblemsAreComplete'
  PROVE  CompleteInv'
<1>1. ColumnsWhole'
  BY DEF CompleteInv, ColumnsWhole, Columns, AllRows, Size
<1>2. StoredReported'
  BY DEF CompleteInv, StoredReported, Columns, Ragged, Stored, BadCells, IsBad
<1>3. Reporting(stack, errors)'
  BY DEF Reporting, CallReports, Lacks, Needs, Columns, Size, Parses, Column, Stored, BadCells,
         IsBad
<1>4. \A c \in Columns' : ~Lacks(Top, c)'
  <2>1. CASE t = <<>>
    BY <2>1 DEF Top, Warning, Lacks
  <2>2. CASE t # <<>>
    BY <2>2 DEF Top, Lacks, Needs, Columns, Parses, Column, Stored
  <2>3. QED  BY <2>1, <2>2
<1>5. QED  BY <1>1, <1>2, <1>3, <1>4 DEF CompleteInv

(* Nothing is read yet but the columns that are not lazy. *)
LEMMA InitCompleteInv == Init => CompleteInv
<1> SUFFICES ASSUME Init PROVE CompleteInv
  OBVIOUS
<1>1. IsSequence(frame.columns) /\ frame.rows \in Nat \ {0}
  BY FramesAssumption DEF Init, IsSequence
<1>2. PICK n \in Nat : Columns = 1 .. n
  BY <1>1 DEF IsSequence, Columns
<1>3. IsSequence(vecs) /\ DOMAIN vecs = Columns
  <2>1. vecs = [c \in 1 .. n |-> Made(c)]
    BY <1>2 DEF Init
  <2>2. vecs \in Seq({Made(c) : c \in 1 .. n}) /\ DOMAIN vecs = 1 .. n
    BY <2>1
  <2>3. QED  BY <1>2, <2>2 DEF IsSequence
<1>4. IsSequence(data) /\ DOMAIN data = Columns
  <2> DEFINE D(c) == IF frame.columns[c].lazy THEN NoData
                     ELSE [k \in 1 .. frame.rows |-> ValueOf(frame.columns[c], k)]
  <2>1. data = [c \in 1 .. n |-> D(c)]
    BY <1>2 DEF Init
  <2> HIDE DEF D
  <2>2. data \in Seq({D(c) : c \in 1 .. n})
    BY <1>2, <2>1
  <2>3. QED  BY <1>2, <2>1, <2>2 DEF IsSequence
<1>5. ColumnsWhole
  <2>1. AllRows \in Seq(1 .. frame.rows) /\ Len(AllRows) = frame.rows
    BY <1>1 DEF AllRows
  <2>2. \A c \in Columns : vecs[c] = Made(c)
    BY DEF Init
  <2>3. frame \in Frames
    BY DEF Init
  <2>4. \A c : Made(c).column = c /\ Made(c).rows = AllRows /\ ~Made(c).subset
    BY DEF Made
  <2>5. \A c \in Columns : vecs[c].column = c /\ vecs[c].rows = AllRows /\ ~vecs[c].subset
    BY <2>2, <2>4
  <2>6. used = Columns
    BY DEF Init
  <2>7. QED  BY <1>1, <1>3, <1>4, <2>1, <2>3, <2>5, <2>6 DEF ColumnsWhole, Size
<1>6. StoredReported
  <2>1. errors = Ragged \union UNION {BadCells(frame.columns[c], 1 .. frame.rows) : c \in Eager}
    BY DEF Init
  <2>2. ASSUME NEW c \in Columns, Stored(c) PROVE c \in Eager
    BY <2>2 DEF Init, Stored, Eager
  <2>3. QED  BY <2>1, <2>2 DEF StoredReported
<1>7. Reporting(stack, errors)
  <2>1. stack = <<>> /\ DOMAIN stack = {} /\ Len(stack) = 0
    BY DEF Init
  <2>2. QED  BY <2>1 DEF Reporting, IsSequence
<1>8. \A c \in Columns : ~Lacks(Top, c)
  BY DEF Init, Top, Warning, Lacks
<1>9. ProblemsAreComplete
  BY DEF Init, NoAnswer, ProblemsAreComplete
<1>10. QED  BY <1>5, <1>6, <1>7, <1>8, <1>9 DEF CompleteInv

(* Other answers than those of problems() say nothing of problems. *)
LEMMA OtherAnswer ==
  ASSUME CompleteInv, frame' = frame, answer' = answer \/ answer'.op # "problems"
  PROVE  ProblemsAreComplete'
BY DEF CompleteInv, ProblemsAreComplete, BadInFrame, Columns, Ragged, BadCells, IsBad

(* Steps that report some cells, and go on with a call that does not read   *)
(* the whole data frame.                                                   *)
LEMMA ReportedCall ==
  ASSUME CompleteInv, UNCHANGED <<frame, vecs, data, used>>,
         answer' = answer \/ answer'.op # "problems",
         NEW s, Reporting(s, errors),
         NEW c, c.op \notin {"problems", "convert"},
         s # <<>> => \A b \in Columns :
           Lacks(Last(s), b) => c.op = "materialize" /\ c.vec = b,
         errors \subseteq errors', CallReports(c, errors'),
         stack' \in {Append(s, c), Append(Append(s, c), Warning)}
  PROVE  CompleteInv'
<1> DEFINE t == Append(s, c)
<1>1. Reporting(s, errors')
  BY ReportingMore
<1>2. Reporting(t, errors') /\ t # <<>> /\ Last(t) = c
  BY <1>1, ReportingAppend
<1> HIDE DEF t
<1>3. \A b \in Columns : ~Lacks(Last(t), b)
  BY <1>2 DEF Lacks
<1>4. Warning.op = "warning" /\ CallReports(Warning, errors')
  BY DEF Warning, CallReports
<1>5. /\ Reporting(Append(t, Warning), errors')
      /\ Append(t, Warning) # <<>> /\ Last(Append(t, Warning)) = Warning
  BY <1>2, <1>3, <1>4, ReportingAppend
<1>6. \A b \in Columns : ~Lacks(Warning, b)
  BY <1>4 DEF Lacks
<1>7. ProblemsAreComplete'
  BY OtherAnswer
<1>8. CASE stack' = t
  BY <1>2, <1>3, <1>7, <1>8, SameColumns
<1>9. CASE stack' = Append(t, Warning)
  BY <1>5, <1>6, <1>7, <1>9, SameColumns
<1>10. QED  BY <1>8, <1>9 DEF t

(* R code makes calls when nothing is lacking. *)
LEMMA TopLacksNothing ==
  ASSUME CompleteInv, stack # <<>> PROVE \A b \in Columns : ~Lacks(Last(stack), b)
BY DEF CompleteInv, Top

(* The column of a call, and the cells of its rows. *)
LEMMA ColumnFacts ==
  ASSUME CompleteInv, NEW v \in Columns
  PROVE  /\ v \in DOMAIN vecs /\ Column(vecs[v]) = frame.columns[v]
         /\ Size(vecs[v]) = frame.rows /\ frame.rows \in Nat \ {0}
         /\ \A k \in 1 .. frame.rows : vecs[v].rows[k] = k
         /\ ~vecs[v].subset
<1>1. frame.rows \in Nat \ {0}
  BY DEF CompleteInv, ColumnsWhole
<1>2. AllRows \in Seq(Nat) /\ Len(AllRows) = frame.rows
  BY <1>1 DEF AllRows
<1>3. \A k \in 1 .. frame.rows : AllRows[k] = k
  BY DEF AllRows
<1>4. QED
  BY <1>1, <1>2, <1>3 DEF CompleteInv, ColumnsWhole, Column, Size

(* What the runs of a "rle" expand to. *)
LEMMA RunFacts ==
  ASSUME CompleteInv, NEW v \in DOMAIN vecs, ~Parses(vecs[v])
  PROVE  LET runs == Column(vecs[v]).cells
         IN  /\ ExpandRuns(runs) \in [1 .. frame.rows -> Nat] /\ ExpandRuns(runs) # NoData
             /\ \A row \in 1 .. frame.rows : RunAt(runs, row) = ExpandRuns(runs)[row]
<1> DEFINE runs == Column(vecs[v]).cells
<1>1. frame \in Frames /\ vecs[v].column \in DOMAIN frame.columns /\ frame.rows \in Nat \ {0}
  BY DEF CompleteInv, ColumnsWhole, Columns
<1>2. Column(vecs[v]) = frame.columns[vecs[v].column]
  BY DEF Column
<1>3. Column(vecs[v]).kind = "rle"
  BY DEF Parses
<1>4. /\ ExpandRuns(runs) \in [1 .. frame.rows -> Nat]
      /\ \A row \in 1 .. frame.rows : RunAt(runs, row) = ExpandRuns(runs)[row]
  BY <1>1, <1>2, <1>3, RunsAssumption
<1>5. 1 \in DOMAIN ExpandRuns(runs)
  BY <1>1, <1>4
<1>6. QED  BY <1>4, <1>5 DEF NoData

(* Reading an element reports its cell, or the first one; neither is asked  *)
(* of a call.                                                              *)
LEMMA EltParsedComplete ==
  ASSUME CompleteInv, NEW v \in used, NEW k, EltParsed(v, k) PROVE CompleteInv'
<1> DEFINE c == Call("elt", v, k, <<ValueOf(Column(vecs[v]), vecs[v].rows[k])>>)
<1>1. /\ UNCHANGED <<frame, vecs, data, used>> /\ answer' = NoAnswer
      /\ \E cells : Report(cells, Append(stack, c))
  BY DEF EltParsed, Answers
<1>2. c.op = "elt" /\ CallReports(c, errors')
  BY DEF Call, CallReports
<1> HIDE DEF c
<1>3. errors \subseteq errors' /\ stack' \in {Append(stack, c), Append(Append(stack, c), Warning)}
  BY <1>1 DEF Report
<1>4. answer'.op # "problems"
  BY <1>1 DEF NoAnswer
<1>5. Reporting(stack, errors)
  BY DEF CompleteInv
<1>6. QED  BY <1>1, <1>2, <1>3, <1>4, <1>5, TopLacksNothing, ReportedCall

(* Parsing reports the bad cells among those it parses. *)
LEMMA ParseCellsComplete == ASSUME CompleteInv, ParseCells PROVE CompleteInv'
<1> DEFINE v    == Top.vec
           vec  == vecs[v]
           from == Top.at + 1
           upto == Upto(vec, Top.at)
           c    == Call("materialize", v, upto, Parsed(vec, upto))
           t    == Append(Front(stack), c)
<1>1. /\ Top.op = "materialize" /\ from <= Size(vec)
      /\ IF Parses(vec) THEN Report(Found(vec, from, upto), t)
         ELSE stack' = t /\ errors' = errors
      /\ UNCHANGED <<frame, vecs, data, used, answer>>
  BY DEF ParseCells
<1>2. stack # <<>> /\ Top = Last(stack)
  BY <1>1 DEF Top, Warning
<1>3. /\ Reporting(Front(stack), errors) /\ CallReports(Top, errors)
      /\ Front(stack) # <<>> => \A b \in Columns : Lacks(Last(Front(stack)), b) => v = b
  BY <1>2, ReportingFront DEF CompleteInv
<1>4. /\ v \in DOMAIN vecs /\ Top.at \in Nat /\ Size(vec) \in Nat \ {0}
      /\ v \in Columns => BadCells(frame.columns[v], 1 .. Top.at) \subseteq errors
  BY <1>1, <1>3 DEF CallReports, CompleteInv, ColumnsWhole
<1>5. c.op = "materialize" /\ c.vec = v /\ c.at = upto /\ c.out = Parsed(vec, upto)
  BY DEF Call
<1>6. upto \in from .. Size(vec) /\ (Column(vec).kind = "fct" => upto = from)
  BY <1>1, <1>4 DEF Upto
<1> HIDE DEF c, upto
<1>7. errors \subseteq errors' /\ (Parses(vec) => errors' = errors \union Found(vec, from, upto))
  BY <1>1 DEF Report
<1>8. stack' \in {t, Append(t, Warning)}
  BY <1>1 DEF Report
<1>9. Parsed(vec, upto) # NoData
  <2>1. CASE Parses(vec)
    <3>1. Parsed(vec, upto) = [k \in 1 .. upto |-> ValueOf(Column(vec), vec.rows[k])]
      BY <2>1 DEF Parsed, Parses
    <3>2. 1 \in DOMAIN Parsed(vec, upto)
      BY <1>4, <1>6, <3>1
    <3>3. QED  BY <3>2 DEF NoData
  <2>2. CASE ~Parses(vec)
    BY <1>4, <2>2, RunFacts DEF Parsed, Parses
  <2>3. QED  BY <2>1, <2>2
<1>10. ASSUME v \in Columns
       PROVE  BadCells(frame.columns[v], 1 .. upto) \subseteq errors'
  <2>1. /\ Column(vec) = frame.columns[v] /\ Size(vec) = frame.rows
        /\ \A k \in 1 .. frame.rows : vec.rows[k] = k
        /\ ~vec.subset
    BY <1>10, ColumnFacts
  <2>2. ASSUME NEW r \in 1 .. upto, IsBad(frame.columns[v], r)
        PROVE  <<r, frame.columns[v].number>> \in errors'
    <3>1. r \in 1 .. Top.at \/ r \in from .. upto
      BY <1>4, <1>6
    <3>2. CASE r \in 1 .. Top.at
      BY <1>4, <1>7, <1>10, <2>2, <3>2 DEF BadCells
    <3>3. CASE r \in from .. upto
      <4>1. Parses(vec) /\ r \in 1 .. frame.rows /\ vec.rows[r] = r
        BY <1>4, <1>6, <2>1, <2>2, <3>3 DEF Parses, IsBad
      <4>2. <<r, frame.columns[v].number>> \in Found(vec, from, upto)
        <5>1. CASE Column(vec).kind = "fct"
          <6>1. r = from
            BY <1>4, <1>6, <3>3, <5>1
          <6>2. ReportedRow(vec, from) = from
            BY <2>1, <4>1, <5>1, <6>1 DEF ReportedRow
          <6>3. QED  BY <2>1, <2>2, <4>1, <5>1, <6>1, <6>2 DEF Found
        <5>2. CASE Column(vec).kind # "fct"
          <6>1. r \in {vec.rows[k] : k \in from .. upto}
            BY <3>3, <4>1
          <6>2. QED  BY <2>1, <2>2, <5>2, <6>1 DEF Found, BadCells
        <5>3. QED  BY <5>1, <5>2
      <4>3. QED  BY <1>7, <4>1, <4>2
    <3>4. QED  BY <3>1, <3>2, <3>3
  <2>3. QED  BY <2>2 DEF BadCells
<1>11. CallReports(c, errors')
  <2>1. upto \in 0 .. Size(vec)
    BY <1>4, <1>6
  <2>2. QED  BY <1>4, <1>5, <1>9, <1>10, <2>1 DEF CallReports
<1>12. QED
  BY <1>1, <1>3, <1>5, <1>7, <1>8, <1>11, ReportedCall

(* Calls that start and call others. *)
LEMMA DataptrComplete ==
  ASSUME CompleteInv, NEW v \in used, Dataptr(v) PROVE CompleteInv'
<1> DEFINE c == Call("materialize", v, 0, <<>>)
<1>1. /\ UNCHANGED <<frame, vecs, data, used, errors>> /\ answer' = NoAnswer
      /\ stack' = Append(stack, c)
  BY DEF Dataptr, Answers
<1>2. c.op = "materialize" /\ c.vec = v /\ c.at = 0
  BY DEF Call
<1> HIDE DEF c
<1>3. v \in DOMAIN vecs /\ Size(vecs[v]) \in Nat
  BY DEF CompleteInv, ColumnsWhole
<1>4. CallReports(c, errors')
  BY <1>2, <1>3 DEF CallReports, BadCells
<1>5. answer'.op # "problems"
  BY <1>1 DEF NoAnswer
<1>6. Reporting(stack, errors)
  BY DEF CompleteInv
<1>7. QED  BY <1>1, <1>2, <1>4, <1>5, <1>6, TopLacksNothing, ReportedCall

(* The columns are numbered from 1. *)
LEMMA ColumnNumbers ==
  ASSUME CompleteInv
  PROVE  Len(frame.columns) \in Nat /\ Columns = 1 .. Len(frame.columns)
BY DEF CompleteInv, ColumnsWhole, IsSequence, Columns

(* Going over the columns starts at the first one. *)
LEMMA StartComplete ==
  ASSUME CompleteInv, NEW op \in {"problems", "convert"}, Start(op) PROVE CompleteInv'
<1> DEFINE c == Call(op, 0, 1, <<>>)
           t == Append(stack, c)
<1>1. /\ UNCHANGED <<frame, vecs, data, used, errors>> /\ answer' = NoAnswer
      /\ stack' = t
  BY DEF Start, Answers
<1>2. c.op = op /\ c.at = 1
  BY DEF Call
<1> HIDE DEF c
<1>3. CallReports(c, errors)
  BY <1>2 DEF CallReports
<1>4. \A b \in Columns : ~Lacks(c, b)
  BY <1>2, ColumnNumbers DEF Lacks
<1>5. Reporting(t, errors) /\ t # <<>> /\ Last(t) = c
  BY <1>3, TopLacksNothing, ReportingAppend DEF CompleteInv
<1> HIDE DEF t
<1>6. ProblemsAreComplete'
  BY <1>1, OtherAnswer DEF NoAnswer
<1>7. QED  BY <1>1, <1>4, <1>5, <1>6, SameColumns

(* A column that is passed has been parsed, or is about to be. *)
LEMMA NextColumnComplete == ASSUME CompleteInv, NextColumn PROVE CompleteInv'
<1> DEFINE c == Call(Top.op, 0, Top.at + 1, <<>>)
           d == Call("materialize", Top.at, 0, <<>>)
           t == Append(Front(stack), c)
<1>1. /\ Top.op \in {"problems", "convert"} /\ Top.at <= Len(frame.columns)
      /\ stack' = IF Needs(Top.op, Top.at) THEN Append(t, d) ELSE t
      /\ UNCHANGED <<frame, vecs, data, used, errors, answer>>
  BY DEF NextColumn
<1>2. stack # <<>> /\ Top = Last(stack)
  BY <1>1 DEF Top, Warning
<1>3. /\ Reporting(Front(stack), errors) /\ CallReports(Top, errors)
      /\ Front(stack) # <<>> => \A b \in Columns : ~Lacks(Last(Front(stack)), b)
  BY <1>1, <1>2, ReportingFront DEF CompleteInv
<1>4. Top.at \in Nat \ {0} /\ Top.at \in Columns
  BY <1>1, <1>3, ColumnNumbers DEF CallReports
<1>5. c.op = Top.op /\ c.at = Top.at + 1
  BY DEF Call
<1>6. d.op = "materialize" /\ d.vec = Top.at /\ d.at = 0
  BY DEF Call
<1> HIDE DEF c, d
<1>7. CallReports(c, errors) /\ CallReports(d, errors)
  <2>1. Top.at + 1 \in Nat \ {0}
    BY <1>4
  <2>2. Top.at \in DOMAIN vecs /\ Size(vecs[Top.at]) \in Nat
    BY <1>4 DEF CompleteInv, ColumnsWhole
  <2>3. CallReports(c, errors)
    BY <1>1, <1>5, <2>1 DEF CallReports
  <2>4. CallReports(d, errors)
    BY <1>6, <2>2 DEF CallReports, BadCells
  <2>5. QED  BY <2>3, <2>4
<1>8. ASSUME NEW b \in Columns, Lacks(c, b)
      PROVE  Needs(Top.op, Top.at) /\ b = Top.at
  <2>1. b < Top.at + 1 /\ Needs(Top.op, b)
    BY <1>5, <1>8 DEF Lacks
  <2>2. ~Lacks(Top, b)
    BY DEF CompleteInv
  <2>3. b \in Nat
    BY ColumnNumbers
  <2>4. ~(b < Top.at)
    BY <1>1, <2>1, <2>2 DEF Lacks
  <2>5. b = Top.at
    BY <1>4, <2>1, <2>3, <2>4
  <2>6. QED  BY <2>1, <2>5
<1>9. Reporting(t, errors) /\ t # <<>> /\ Last(t) = c
  BY <1>3, <1>7, ReportingAppend
<1> HIDE DEF t
<1>10. ProblemsAreComplete'
  BY <1>1, OtherAnswer
<1>11. CASE Needs(Top.op, Top.at)
  <2>1. Reporting(Append(t, d), errors) /\ Append(t, d) # <<>> /\ Last(Append(t, d)) = d
    BY <1>6, <1>7, <1>8, <1>9, ReportingAppend
  <2>2. \A b \in Columns : ~Lacks(d, b)
    BY <1>6 DEF Lacks
  <2>3. QED  BY <1>1, <1>10, <1>11, <2>1, <2>2, SameColumns
<1>12. CASE ~Needs(Top.op, Top.at)
  BY <1>1, <1>8, <1>9, <1>10, <1>12, SameColumns
<1>13. QED  BY <1>11, <1>12

(* Other calls than those that parse may end, or the whole stack. *)
LEMMA ReturnComplete ==
  ASSUME CompleteInv, stack # <<>>, Top.op # "materialize", stack' \in {Front(stack), <<>>},
         UNCHANGED <<frame, vecs, data, used, errors>>, ProblemsAreComplete'
  PROVE  CompleteInv'
<1>1. Top = Last(stack)
  BY DEF Top
<1>2. /\ Reporting(Front(stack), errors)
      /\ Front(stack) # <<>> => \A b \in Columns : ~Lacks(Last(Front(stack)), b)
  BY <1>1, ReportingFront DEF CompleteInv
<1>3. Reporting(<<>>, errors)
  <2>1. DOMAIN <<>> = {} /\ Len(<<>>) = 0 /\ IsSequence(<<>>)
    BY DEF IsSequence
  <2>2. QED  BY <2>1 DEF Reporting
<1>4. QED  BY <1>2, <1>3, SameColumns

(* problems() returns when it has passed all columns. *)
LEMMA FinishComplete == ASSUME CompleteInv, Finish PROVE CompleteInv'
<1>1. /\ Top.op \in {"problems", "convert"} /\ Top.at > Len(frame.columns)
      /\ answer' = IF Top.op = "problems" THEN ErrorTable
                   ELSE [op |-> "table", is |-> [c \in Columns |-> data[c]]]
      /\ stack' = Front(stack) /\ UNCHANGED <<frame, vecs, data, used, errors>>
  BY DEF Finish, Answers
<1>2. stack # <<>>
  BY <1>1 DEF Top, Warning
<1>3. ProblemsAreComplete'
  <2>1. CASE Top.op = "problems"
    <3>1. ASSUME NEW c \in Columns
          PROVE  BadCells(frame.columns[c], 1 .. frame.rows) \subseteq errors
      <4>1. CASE Stored(c)
        BY <4>1 DEF CompleteInv, StoredReported
      <4>2. CASE ~Stored(c)
        <5>1. c < Top.at
          <6>1. Last(stack) = Top
            BY <1>2 DEF Top
          <6>2. CallReports(Top, errors)
            BY <1>2, <6>1, ReportingFront DEF CompleteInv
          <6>3. Top.at \in Nat
            BY <1>1, <6>2 DEF CallReports
          <6>4. QED  BY <1>1, <6>3, ColumnNumbers
        <5>2. ~Parses(vecs[c])
          BY <1>1, <4>2, <5>1 DEF CompleteInv, Lacks, Needs
        <5>3. frame.columns[c].kind = "rle"
          BY <5>2, ColumnFacts DEF Parses
        <5>4. QED  BY <5>3 DEF BadCells, IsBad
      <4>3. QED  BY <4>1, <4>2
    <3>2. BadInFrame \union Ragged \subseteq errors
      BY <3>1 DEF BadInFrame, CompleteInv, StoredReported
    <3>3. BadInFrame' = BadInFrame /\ Ragged' = Ragged
      BY <1>1 DEF BadInFrame, Columns, Ragged, BadCells, IsBad
    <3>4. answer'.is = errors
      BY <1>1, <2>1 DEF ErrorTable
    <3>5. QED  BY <3>2, <3>3, <3>4 DEF ProblemsAreComplete
  <2>2. CASE Top.op # "problems"
    <3>1. answer'.op # "problems"
      BY <1>1, <2>2
    <3>2. QED  BY <3>1 DEF ProblemsAreComplete
  <2>3. QED  BY <2>1, <2>2
<1>4. QED  BY <1>1, <1>2, <1>3, ReturnComplete

(* When vectors are added or stored. *)
LEMMA MoreStored ==
  ASSUME CompleteInv, UNCHANGED <<frame, errors>>,
         DOMAIN vecs \subseteq DOMAIN vecs',
         \A v \in DOMAIN vecs :
           vecs'[v] = vecs[v] /\ (Stored(v) => data'[v] # NoData),
         Reporting(stack', errors)
  PROVE  /\ Reporting(stack, errors)'
         /\ \A c \in Columns : Lacks(Top, c)' => stack' # <<>> /\ Lacks(Last(stack'), c)
<1>1. ASSUME NEW v \in DOMAIN vecs
      PROVE  /\ v \in DOMAIN vecs' /\ vecs'[v] = vecs[v]
             /\ Size(vecs[v])' = Size(vecs[v])
             /\ Parses(vecs[v])' = Parses(vecs[v])
  BY <1>1 DEF Size, Parses, Column
<1>2. Columns' = Columns /\ Columns \subseteq DOMAIN vecs
  BY DEF Columns, CompleteInv, ColumnsWhole
<1>3. ASSUME NEW call, CallReports(call, errors) PROVE CallReports(call, errors)'
  BY <1>1, <1>2, <1>3 DEF CallReports, BadCells, IsBad
<1>4. ASSUME NEW call, NEW c \in Columns, Lacks(call, c)' PROVE Lacks(call, c)
  BY <1>1, <1>2, <1>4 DEF Lacks, Needs, Stored
<1> DEFINE t == stack'
<1>5. /\ IsSequence(t)
      /\ \A n \in DOMAIN t : CallReports(t[n], errors)
      /\ \A n \in 1 .. (Len(t) - 1), c \in Columns :
           Lacks(t[n], c) => t[n + 1].op = "materialize" /\ t[n + 1].vec = c
  BY DEF Reporting
<1>6. Reporting(stack, errors)'
  BY <1>2, <1>3, <1>4, <1>5 DEF Reporting
<1>7. ASSUME NEW c \in Columns, Lacks(Top, c)' PROVE t # <<>> /\ Lacks(Last(t), c)
  <2>1. t # <<>>
    BY <1>7 DEF Lacks, Top, Warning
  <2>2. Top' = Last(t)
    BY <2>1 DEF Top
  <2>3. QED  BY <1>4, <1>7, <2>1, <2>2
<1>8. QED  BY <1>6, <1>7

(* A column is stored when all its cells have been parsed. *)
LEMMA StoreComplete == ASSUME CompleteInv, Store PROVE CompleteInv'
<1> DEFINE v == Top.vec
<1>1. /\ Top.op = "materialize" /\ Top.at = Size(vecs[v])
      /\ data' = [data EXCEPT ![v] = Top.out]
      /\ stack' = Front(stack)
      /\ answer' = [op |-> "elements", of |-> v, is |-> Top.out]
      /\ UNCHANGED <<frame, vecs, used, errors>>
  BY DEF Store, Answers
<1>2. stack # <<>> /\ Top = Last(stack)
  BY <1>1 DEF Top, Warning
<1>3. /\ Reporting(Front(stack), errors) /\ CallReports(Top, errors)
      /\ Front(stack) # <<>> => \A b \in Columns : Lacks(Last(Front(stack)), b) => v = b
  BY <1>2, ReportingFront DEF CompleteInv
<1>4. /\ v \in DOMAIN vecs /\ v \in DOMAIN data /\ Size(vecs[v]) \in Nat \ {0}
      /\ Top.out # NoData
      /\ v \in Columns => BadCells(frame.columns[v], 1 .. Size(vecs[v])) \subseteq errors
  BY <1>1, <1>3 DEF CallReports, CompleteInv, ColumnsWhole
<1>5. /\ data'[v] = Top.out /\ DOMAIN data' = DOMAIN data
      /\ \A u \in DOMAIN data : u # v => data'[u] = data[u]
  BY <1>1, <1>4
<1>6. IsSequence(data')
  <2>1. PICK S : data \in Seq(S)
    BY DEF CompleteInv, ColumnsWhole, IsSequence
  <2>2. data \in Seq(S \union {Top.out})
    BY <2>1
  <2>3. data' \in Seq(S \union {Top.out})
    BY <1>1, <1>4, <2>2
  <2>4. QED  BY <2>3 DEF IsSequence
<1> HIDE DEF v
<1>7. ColumnsWhole'
  BY <1>1, <1>5, <1>6 DEF CompleteInv, ColumnsWhole, Columns, AllRows, Size
<1>8. StoredReported'
  <2>1. ASSUME NEW c \in Columns, Stored(c)'
        PROVE  BadCells(frame.columns[c], 1 .. frame.rows) \subseteq errors
    <3>1. CASE c = v
      BY <1>4, <2>1, <3>1, ColumnFacts
    <3>2. CASE c # v
      <4>1. c \in DOMAIN data
        BY DEF CompleteInv, ColumnsWhole
      <4>2. Stored(c)
        BY <1>5, <2>1, <3>2, <4>1 DEF Stored
      <4>3. QED  BY <4>2 DEF CompleteInv, StoredReported
    <3>3. QED  BY <3>1, <3>2
  <2>2. QED
    BY <1>1, <2>1 DEF CompleteInv, StoredReported, Columns, Ragged, BadCells, IsBad
<1>9. \A u \in DOMAIN vecs :
        vecs'[u] = vecs[u] /\ (Stored(u) => data'[u] # NoData)
  BY <1>1, <1>4, <1>5 DEF Stored, CompleteInv, ColumnsWhole
<1>10. /\ Reporting(stack, errors)'
       /\ \A c \in Columns : Lacks(Top, c)' => stack' # <<>> /\ Lacks(Last(stack'), c)
  BY <1>1, <1>3, <1>9, MoreStored
<1>11. \A c \in Columns : ~Lacks(Top, c)'
  <2>1. SUFFICES ASSUME NEW c \in Columns, Lacks(Top, c)' PROVE FALSE
    OBVIOUS
  <2>2. Lacks(Last(stack'), c) /\ c = v
    BY <1>1, <1>3, <1>10, <2>1
  <2>3. ~(data'[v] = NoData)
    BY <1>4, <1>5
  <2>4. data'[v] = NoData
    BY <2>1, <2>2 DEF Lacks, Needs, Stored
  <2>5. QED  BY <2>3, <2>4
<1>12. Columns' = Columns
  BY <1>1 DEF Columns
<1>13. ProblemsAreComplete'
  BY <1>1, OtherAnswer
<1>14. QED  BY <1>7, <1>8, <1>10, <1>11, <1>12, <1>13 DEF CompleteInv

(* New vectors are not columns. *)
LEMMA MakeComplete ==
  ASSUME CompleteInv, NEW v \in used, NEW rows, NEW picked, Make(v, rows, picked),
         Len(rows) \in Nat \ {0}
  PROVE  CompleteInv'
<1> DEFINE l   == Len(vecs) + 1
           vec == [column |-> vecs[v].column, rows |-> rows, info |-> l,
                   subset |-> vecs[v].subset \/ picked # <<>>]
<1>1. /\ vecs' = Append(vecs, vec) /\ data' = Append(data, NoData)
      /\ used' = used \union {l}
      /\ answer' = [op |-> "vector", of |-> v, picked |-> picked]
      /\ UNCHANGED <<frame, errors, stack>>
  BY DEF Make, Answers
<1>2. vec.rows = rows /\ vec.column = vecs[v].column
  OBVIOUS
<1> HIDE DEF vec
<1>3. /\ IsSequence(vecs) /\ IsSequence(data) /\ DOMAIN data = DOMAIN vecs
      /\ vecs[v].column \in Columns
      /\ Columns \subseteq DOMAIN vecs /\ used \subseteq DOMAIN vecs
  BY DEF CompleteInv, ColumnsWhole
<1>4. /\ IsSequence(vecs') /\ Len(vecs) \in Nat /\ DOMAIN vecs = 1 .. Len(vecs)
      /\ DOMAIN vecs' = 1 .. l /\ vecs'[l] = vec
      /\ \A u \in 1 .. Len(vecs) : vecs'[u] = vecs[u]
  BY <1>1, <1>3, AppendFacts
<1>5. /\ IsSequence(data') /\ DOMAIN data' = 1 .. l
      /\ \A u \in 1 .. Len(vecs) : data'[u] = data[u]
  <2>1. /\ IsSequence(data') /\ Len(data) \in Nat /\ DOMAIN data = 1 .. Len(data)
        /\ DOMAIN data' = 1 .. (Len(data) + 1)
        /\ \A u \in 1 .. Len(data) : data'[u] = data[u]
    BY <1>1, <1>3, AppendFacts
  <2>2. Len(data) = Len(vecs)
    BY <1>3, <1>4, <2>1
  <2>3. QED  BY <2>1, <2>2
<1>6. Columns' = Columns /\ DOMAIN vecs \subseteq DOMAIN vecs' /\ l \in DOMAIN vecs'
  BY <1>1, <1>4 DEF Columns
<1>7. ColumnsWhole'
  <2>1. \A c \in Columns :
          vecs'[c].column = c /\ vecs'[c].rows = AllRows /\ ~vecs'[c].subset
    BY <1>3, <1>4 DEF CompleteInv, ColumnsWhole
  <2>2. ASSUME NEW u \in DOMAIN vecs'
        PROVE  Size(vecs[u])' \in Nat \ {0} /\ vecs'[u].column \in Columns
    <3>1. CASE u = l
      BY <1>2, <1>3, <1>4, <3>1 DEF Size
    <3>2. CASE u # l
      <4>1. u \in 1 .. Len(vecs)
        BY <1>4, <2>2, <3>2
      <4>2. QED  BY <1>4, <4>1 DEF CompleteInv, ColumnsWhole, Size
    <3>3. QED  BY <3>1, <3>2
  <2>3. AllRows' = AllRows
    BY <1>1 DEF AllRows
  <2>4. DOMAIN data' = DOMAIN vecs' /\ used' \subseteq DOMAIN vecs'
    BY <1>1, <1>3, <1>4, <1>5, <1>6
  <2>5. (frame \in Frames /\ IsSequence(frame.columns) /\ frame.rows \in Nat \ {0})'
    BY <1>1 DEF CompleteInv, ColumnsWhole
  <2>6. QED
    BY <1>3, <1>4, <1>5, <1>6, <2>1, <2>2, <2>3, <2>4, <2>5 DEF ColumnsWhole
<1>8. StoredReported'
  <2>1. ASSUME NEW c \in Columns, Stored(c)' PROVE Stored(c)
    BY <1>3, <1>4, <1>5, <2>1 DEF Stored
  <2>2. QED
    BY <1>1, <2>1 DEF CompleteInv, StoredReported, Columns, Ragged, BadCells, IsBad
<1>9. \A u \in DOMAIN vecs :
        vecs'[u] = vecs[u] /\ (Stored(u) => data'[u] # NoData)
  BY <1>4, <1>5 DEF Stored
<1>10. /\ Reporting(stack, errors)'
       /\ \A c \in Columns : Lacks(Top, c)' => stack' # <<>> /\ Lacks(Last(stack'), c)
  <2>1. Reporting(stack', errors)
    BY <1>1 DEF CompleteInv
  <2>2. QED  BY <1>1, <1>6, <1>9, <2>1, MoreStored
<1>11. \A c \in Columns : ~Lacks(Top, c)'
  BY <1>1, <1>10, TopLacksNothing
<1>12. ProblemsAreComplete'
  BY <1>1, OtherAnswer
<1>13. QED  BY <1>6, <1>7, <1>8, <1>10, <1>11, <1>12 DEF CompleteInv

(* Every step keeps the invariant, whatever handlers parse. *)
LEMMA NextCompleteInv == CompleteInv /\ [Next]_vars => CompleteInv'
<1> SUFFICES ASSUME CompleteInv, [Next]_vars PROVE CompleteInv'
  OBVIOUS
<1>1. ASSUME UNCHANGED <<frame, vecs, data, errors, stack>>, used' \subseteq used,
             answer' = answer \/ answer'.op # "problems"
      PROVE  CompleteInv'
  <2>1. Reporting(stack, errors)
    BY DEF CompleteInv
  <2>2. ProblemsAreComplete'
    BY <1>1, OtherAnswer
  <2>3. QED  BY <1>1, <2>1, <2>2, TopLacksNothing, SameColumns
<1>2. ASSUME NEW v \in used, NEW k, EltStored(v, k) PROVE CompleteInv'
  <2>1. answer'.op = "element" /\ UNCHANGED <<frame, vecs, data, used, errors, stack>>
    BY <1>2 DEF EltStored, Answers
  <2>2. QED  BY <1>1, <2>1
<1>3. ASSUME NEW v \in used, DataptrStored(v) PROVE CompleteInv'
  <2>1. answer'.op = "elements" /\ UNCHANGED <<frame, vecs, data, used, errors, stack>>
    BY <1>3 DEF DataptrStored, Answers
  <2>2. QED  BY <1>1, <2>1
<1>4. ASSUME NEW v \in used, Duplicate(v) PROVE CompleteInv'
  <2>1. Make(v, vecs[v].rows, <<>>)
    BY <1>4 DEF Duplicate
  <2>2. Len(vecs[v].rows) \in Nat \ {0}
    BY DEF CompleteInv, ColumnsWhole, Size
  <2>3. QED  BY <2>1, <2>2, MakeComplete
<1>5. ASSUME NEW v \in used, NEW n \in 1 .. MaxPicked,
             NEW picked \in [1 .. n -> 1 .. Size(vecs[v])], ExtractSubset(v, picked)
      PROVE  CompleteInv'
  <2> DEFINE rows == [m \in DOMAIN picked |-> vecs[v].rows[picked[m]]]
  <2>1. n \in Nat \ {0}
    BY FramesAssumption
  <2>2. rows \in Seq({rows[m] : m \in 1 .. n}) /\ Len(rows) = n
    BY <2>1
  <2>3. Make(v, rows, picked)
    BY <1>5 DEF ExtractSubset
  <2> HIDE DEF rows
  <2>4. QED  BY <2>1, <2>2, <2>3, MakeComplete
<1>6. ASSUME NEW v \in used, Collect(v) PROVE CompleteInv'
  BY <1>1, <1>6 DEF Collect
<1>7. CASE ReturnElt
  <2>1. Top.op = "elt" /\ answer'.op = "element" /\ stack' = Front(stack)
    BY <1>7 DEF ReturnElt, Answers
  <2>2. stack # <<>> /\ UNCHANGED <<frame, vecs, data, used, errors>>
    BY <1>7 DEF ReturnElt, Top, Warning
  <2>3. ProblemsAreComplete'
    BY <2>1 DEF ProblemsAreComplete
  <2>4. QED  BY <2>1, <2>2, <2>3, ReturnComplete
<1>8. CASE HandlerReturns \/ HandlerLeaves
  <2>1. /\ stack # <<>> /\ Top.op = "warning" /\ stack' \in {Front(stack), <<>>}
        /\ UNCHANGED <<frame, vecs, data, used, errors>>
    BY <1>8 DEF HandlerReturns, HandlerLeaves, RCodeRuns
  <2>2. answer' = answer \/ answer' = NoAnswer
    BY <1>8 DEF HandlerReturns, HandlerLeaves, Answers
  <2>3. ProblemsAreComplete'
    BY <2>1, <2>2, OtherAnswer DEF NoAnswer
  <2>4. QED  BY <2>1, <2>3, ReturnComplete
<1>9. CASE UNCHANGED vars
  BY <1>1, <1>9 DEF vars
<1>10. QED
  BY <1>2, <1>3, <1>4, <1>5, <1>6, <1>7, <1>8, <1>9, EltParsedComplete, ParseCellsComplete,
     DataptrComplete, StartComplete, StoreComplete, NextColumnComplete, FinishComplete
  DEF Next, RCode

(* problems() returns every bad cell and ragged row, for every data frame,  *)
(* whoever parsed its columns before, in whatever order, and however often  *)
(* handlers interrupted, left or repeated calls.                           *)
THEOREM ProblemsAlwaysComplete == Spec => []ProblemsAreComplete
<1>1. CompleteInv => ProblemsAreComplete
  BY DEF CompleteInv
<1>2. QED
  BY <1>1, InitCompleteInv, NextCompleteInv, PTL DEF Spec

----------------------------------------------------------------------------
(* The elements.                                                           *)

(* The rows of a vector are rows of the data frame, and a "rle" is always a *)
(* column.                                                                 *)
RowsFine(vec) ==
  /\ IsSequence(vec.rows)
  /\ \A k \in 1 .. Size(vec) : vec.rows[k] \in 1 .. frame.rows
  /\ ~Parses(vec) => vec.rows = AllRows

(* What a call is about to return is what the vector holds. *)
CallHolds(call) ==
  /\ call.op \in {"elt", "materialize"} => call.vec \in DOMAIN vecs
  /\ call.op = "elt" =>
       /\ call.at \in 1 .. Size(vecs[call.vec])
       /\ call.out[1] = Holds(vecs[call.vec])[call.at]
  /\ call.op = "materialize" /\ call.at = Size(vecs[call.vec]) =>
       call.out = Holds(vecs[call.vec])

(* So are all calls on a stack. *)
AllHold(s) == IsSequence(s) /\ \A n \in DOMAIN s : CallHolds(s[n])

(* The inductive invariant of the refinement. *)
ValuesInv ==
  /\ CompleteInv
  /\ \A v \in DOMAIN vecs :
       RowsFine(vecs[v]) /\ (Stored(v) => data[v] = Holds(vecs[v]))
  /\ AllHold(stack)

(* The elements of a vector are the values of its rows. *)
LEMMA HoldsFacts ==
  ASSUME CompleteInv, NEW v \in DOMAIN vecs, RowsFine(vecs[v])
  PROVE  /\ Size(vecs[v]) \in Nat \ {0}
         /\ Holds(vecs[v]) =
              [k \in 1 .. Size(vecs[v]) |-> ValueOf(Column(vecs[v]), vecs[v].rows[k])]
<1> DEFINE vec == vecs[v]
<1>1. Size(vec) \in Nat \ {0} /\ frame.rows \in Nat \ {0}
  BY DEF CompleteInv, ColumnsWhole
<1>2. DOMAIN vec.rows = 1 .. Size(vec)
  BY DEF RowsFine, IsSequence, Size
<1>3. CASE Parses(vec)
  BY <1>1, <1>2, <1>3 DEF Holds
<1>4. CASE ~Parses(vec)
  <2> DEFINE runs == Column(vec).cells
  <2>1. /\ ExpandRuns(runs) \in [1 .. frame.rows -> Nat]
        /\ \A row \in 1 .. frame.rows : RunAt(runs, row) = ExpandRuns(runs)[row]
    BY <1>4, RunFacts
  <2>2. AllRows \in Seq(Nat) /\ Len(AllRows) = frame.rows
    BY <1>1 DEF AllRows
  <2>3. Size(vec) = frame.rows /\ \A k \in 1 .. frame.rows : vec.rows[k] = k
    BY <1>4, <2>2 DEF RowsFine, AllRows, Size
  <2>4. Holds(vec) = ExpandRuns(runs)
    BY <1>4 DEF Holds
  <2>5. \A k \in 1 .. frame.rows : ValueOf(Column(vec), vec.rows[k]) = ExpandRuns(runs)[k]
    BY <1>4, <2>1, <2>3 DEF ValueOf, Parses
  <2> HIDE DEF runs
  <2>6. ExpandRuns(runs) = [k \in 1 .. frame.rows |-> ExpandRuns(runs)[k]]
    BY <2>1
  <2>7. QED  BY <1>1, <2>3, <2>4, <2>5, <2>6
<1>5. QED  BY <1>3, <1>4

(* A vector holds the same for ever. *)
LEMMA HoldsSame ==
  ASSUME NEW v \in DOMAIN vecs, frame' = frame, vecs'[v] = vecs[v]
  PROVE  /\ Holds(vecs[v])' = Holds(vecs[v])
         /\ RowsFine(vecs[v])' = RowsFine(vecs[v])
         /\ Size(vecs[v])' = Size(vecs[v])
<1>1. Column(vecs[v])' = Column(vecs[v]) /\ Parses(vecs[v])' = Parses(vecs[v])
  BY DEF Column, Parses
<1>2. Size(vecs[v])' = Size(vecs[v]) /\ AllRows' = AllRows
  BY DEF Size, AllRows
<1>3. Holds(vecs[v])' = Holds(vecs[v])
  BY <1>1 DEF Holds
<1>4. RowsFine(vecs[v])' = RowsFine(vecs[v])
  BY <1>1, <1>2 DEF RowsFine
<1>5. QED  BY <1>2, <1>3, <1>4

(* One call more. *)
LEMMA HoldAppend ==
  ASSUME NEW s, AllHold(s), NEW c, CallHolds(c) PROVE AllHold(Append(s, c))
<1>1. /\ IsSequence(Append(s, c)) /\ DOMAIN s = 1 .. Len(s) /\ Len(s) \in Nat
      /\ DOMAIN Append(s, c) = 1 .. (Len(s) + 1)
      /\ \A n \in 1 .. Len(s) : Append(s, c)[n] = s[n]
      /\ Append(s, c)[Len(s) + 1] = c
  BY AppendFacts DEF AllHold
<1>2. ASSUME NEW n \in DOMAIN Append(s, c) PROVE CallHolds(Append(s, c)[n])
  <2>1. n = Len(s) + 1 \/ n \in 1 .. Len(s)
    BY <1>1
  <2>2. QED  BY <1>1, <2>1 DEF AllHold
<1>3. QED  BY <1>1, <1>2 DEF AllHold

(* What is left of the calls, and the one that returns. *)
LEMMA HoldFront ==
  ASSUME NEW s, AllHold(s), s # <<>> PROVE AllHold(Front(s)) /\ CallHolds(Last(s))
<1>1. /\ IsSequence(Front(s)) /\ DOMAIN s = 1 .. Len(s) /\ Len(s) \in Nat \ {0}
      /\ DOMAIN Front(s) = 1 .. (Len(s) - 1)
      /\ \A n \in 1 .. (Len(s) - 1) : Front(s)[n] = s[n]
  BY FrontFacts DEF AllHold
<1>2. \A n \in DOMAIN Front(s) : n \in DOMAIN s /\ Front(s)[n] = s[n]
  BY <1>1
<1>3. Last(s) = s[Len(s)] /\ Len(s) \in DOMAIN s
  BY <1>1 DEF Last
<1>4. QED  BY <1>1, <1>2, <1>3 DEF AllHold

(* A warning returns nothing. *)
LEMMA WarningHolds == CallHolds(Warning)
BY DEF Warning, CallHolds

(* Steps that make no vector and store nothing. *)
LEMMA SameValues ==
  ASSUME ValuesInv, CompleteInv', UNCHANGED <<frame, vecs, data>>, AllHold(stack')
  PROVE  ValuesInv'
<1>1. \A v \in DOMAIN vecs :
        /\ Holds(vecs[v])' = Holds(vecs[v])
        /\ RowsFine(vecs[v])' = RowsFine(vecs[v])
        /\ Size(vecs[v])' = Size(vecs[v])
        /\ Stored(v)' = Stored(v)
  BY HoldsSame DEF Stored
<1> DEFINE t == stack'
<1>2. IsSequence(t) /\ \A n \in DOMAIN t : CallHolds(t[n])
  BY DEF AllHold
<1>3. ASSUME NEW call, CallHolds(call) PROVE CallHolds(call)'
  BY <1>1, <1>3 DEF CallHolds
<1>4. AllHold(stack)'
  BY <1>2, <1>3 DEF AllHold
<1>5. QED  BY <1>1, <1>4 DEF ValuesInv

(* The columns that are not lazy hold what was parsed. *)
LEMMA InitValuesInv == Init => ValuesInv
<1> SUFFICES ASSUME Init PROVE ValuesInv
  OBVIOUS
<1>1. CompleteInv
  BY InitCompleteInv
<1>2. DOMAIN vecs = Columns
  BY DEF Init
<1>3. ASSUME NEW c \in Columns PROVE RowsFine(vecs[c])
  <2>1. vecs[c].rows = AllRows /\ Size(vecs[c]) = frame.rows /\ frame.rows \in Nat
    BY <1>1, ColumnFacts DEF CompleteInv, ColumnsWhole
  <2>2. AllRows \in Seq(1 .. frame.rows)
    BY <2>1 DEF AllRows
  <2>3. \A k \in 1 .. frame.rows : AllRows[k] \in 1 .. frame.rows
    BY DEF AllRows
  <2>4. IsSequence(AllRows)
    BY <2>2 DEF IsSequence
  <2>5. QED  BY <2>1, <2>3, <2>4 DEF RowsFine
<1>4. ASSUME NEW c \in Columns, Stored(c) PROVE data[c] = Holds(vecs[c])
  <2>1. /\ Column(vecs[c]) = frame.columns[c] /\ Size(vecs[c]) = frame.rows
        /\ \A k \in 1 .. frame.rows : vecs[c].rows[k] = k
    BY <1>1, ColumnFacts
  <2>2. data[c] = [k \in 1 .. frame.rows |-> ValueOf(frame.columns[c], k)]
    BY <1>4 DEF Init, Stored
  <2>3. Holds(vecs[c]) =
          [k \in 1 .. Size(vecs[c]) |-> ValueOf(Column(vecs[c]), vecs[c].rows[k])]
    BY <1>1, <1>2, <1>3, HoldsFacts
  <2>4. Holds(vecs[c]) = [k \in 1 .. frame.rows |-> ValueOf(frame.columns[c], k)]
    BY <2>1, <2>3
  <2>5. QED  BY <2>2, <2>4
<1>5. AllHold(stack)
  <2>1. stack = <<>> /\ DOMAIN <<>> = {}
    BY DEF Init
  <2>2. QED  BY <2>1 DEF AllHold, IsSequence
<1>6. QED  BY <1>1, <1>2, <1>3, <1>4, <1>5 DEF ValuesInv

(* An element that is returned was parsed. *)
LEMMA EltParsedValues ==
  ASSUME ValuesInv, CompleteInv', NEW v \in used, NEW k \in 1 .. Size(vecs[v]), EltParsed(v, k)
  PROVE  ValuesInv'
<1> DEFINE c == Call("elt", v, k, <<ValueOf(Column(vecs[v]), vecs[v].rows[k])>>)
<1>1. /\ UNCHANGED <<frame, vecs, data>>
      /\ \E cells : Report(cells, Append(stack, c))
  BY DEF EltParsed
<1>2. c.op = "elt" /\ c.vec = v /\ c.at = k
      /\ c.out[1] = ValueOf(Column(vecs[v]), vecs[v].rows[k])
  BY DEF Call
<1> HIDE DEF c
<1>3. v \in DOMAIN vecs
  BY DEF ValuesInv, CompleteInv, ColumnsWhole
<1>4. Holds(vecs[v]) = [n \in 1 .. Size(vecs[v]) |-> ValueOf(Column(vecs[v]), vecs[v].rows[n])]
  BY <1>3, HoldsFacts DEF ValuesInv
<1>5. CallHolds(c)
  BY <1>2, <1>3, <1>4 DEF CallHolds
<1>6. AllHold(Append(stack, c)) /\ AllHold(Append(Append(stack, c), Warning))
  BY <1>5, WarningHolds, HoldAppend DEF ValuesInv
<1>7. stack' \in {Append(stack, c), Append(Append(stack, c), Warning)}
  BY <1>1 DEF Report
<1>8. QED  BY <1>1, <1>6, <1>7, SameValues

(* When all is parsed, it is what the vector holds. *)
LEMMA ParseCellsValues == ASSUME ValuesInv, CompleteInv', ParseCells PROVE ValuesInv'
<1> DEFINE v    == Top.vec
           vec  == vecs[v]
           upto == Upto(vec, Top.at)
           c    == Call("materialize", v, upto, Parsed(vec, upto))
           t    == Append(Front(stack), c)
<1>1. /\ Top.op = "materialize"
      /\ \/ \E cells : Report(cells, t)
         \/ stack' = t
      /\ UNCHANGED <<frame, vecs, data>>
  BY DEF ParseCells
<1>2. stack # <<>> /\ Top = Last(stack)
  BY <1>1 DEF Top, Warning
<1>3. AllHold(Front(stack)) /\ CallHolds(Top)
  BY <1>2, HoldFront DEF ValuesInv
<1>4. v \in DOMAIN vecs
  BY <1>1, <1>3 DEF CallHolds
<1>5. c.op = "materialize" /\ c.vec = v /\ c.at = upto /\ c.out = Parsed(vec, upto)
  BY DEF Call
<1> HIDE DEF c, upto
<1>6. ASSUME upto = Size(vec) PROVE Parsed(vec, upto) = Holds(vec)
  <2>1. CASE Parses(vec)
    <3>1. Holds(vec) = [k \in 1 .. Size(vec) |-> ValueOf(Column(vec), vec.rows[k])]
      BY <1>4, HoldsFacts DEF ValuesInv
    <3>2. QED  BY <1>6, <2>1, <3>1 DEF Parsed, Parses
  <2>2. CASE ~Parses(vec)
    BY <2>2 DEF Parsed, Parses, Holds
  <2>3. QED  BY <2>1, <2>2
<1>7. CallHolds(c)
  BY <1>4, <1>5, <1>6 DEF CallHolds
<1>8. AllHold(t) /\ AllHold(Append(t, Warning))
  BY <1>3, <1>7, WarningHolds, HoldAppend
<1>9. stack' \in {t, Append(t, Warning)}
  BY <1>1 DEF Report
<1> HIDE DEF t
<1>10. QED  BY <1>1, <1>8, <1>9, SameValues

(* Calls that only start have nothing to return yet. *)
LEMMA StartHolds ==
  ASSUME CompleteInv, NEW c,
         \/ c.op = "materialize" /\ c.vec \in DOMAIN vecs /\ c.at = 0
         \/ c.op \in {"problems", "convert"}
  PROVE  CallHolds(c)
<1>1. c.op = "materialize" => Size(vecs[c.vec]) # 0
  BY DEF CompleteInv, ColumnsWhole
<1>2. QED  BY <1>1 DEF CallHolds

(* The next column. *)
LEMMA NextColumnValues == ASSUME ValuesInv, CompleteInv', NextColumn PROVE ValuesInv'
<1> DEFINE c == Call(Top.op, 0, Top.at + 1, <<>>)
           d == Call("materialize", Top.at, 0, <<>>)
           t == Append(Front(stack), c)
<1>1. /\ Top.op \in {"problems", "convert"} /\ Top.at <= Len(frame.columns)
      /\ stack' \in {t, Append(t, d)} /\ UNCHANGED <<frame, vecs, data>>
  BY DEF NextColumn
<1>2. stack # <<>> /\ Top = Last(stack)
  BY <1>1 DEF Top, Warning
<1>3. AllHold(Front(stack)) /\ CallReports(Top, errors)
  BY <1>2, HoldFront, ReportingFront DEF ValuesInv, CompleteInv
<1>4. Top.at \in DOMAIN vecs
  <2>1. Top.at \in Columns
    BY <1>1, <1>3, ColumnNumbers DEF CallReports, ValuesInv
  <2>2. QED  BY <2>1 DEF ValuesInv, CompleteInv, ColumnsWhole
<1>5. c.op = Top.op /\ d.op = "materialize" /\ d.vec = Top.at /\ d.at = 0
  BY DEF Call
<1> HIDE DEF c, d
<1>6. CallHolds(c) /\ CallHolds(d)
  BY <1>1, <1>4, <1>5, StartHolds DEF ValuesInv
<1>7. AllHold(t) /\ AllHold(Append(t, d))
  BY <1>3, <1>6, HoldAppend
<1> HIDE DEF t
<1>8. QED  BY <1>1, <1>7, SameValues

(* What is stored is what the vector holds. *)
LEMMA StoreValues == ASSUME ValuesInv, CompleteInv', Store PROVE ValuesInv'
<1> DEFINE v == Top.vec
<1>1. /\ Top.op = "materialize" /\ Top.at = Size(vecs[v])
      /\ data' = [data EXCEPT ![v] = Top.out]
      /\ stack' = Front(stack) /\ UNCHANGED <<frame, vecs>>
  BY DEF Store
<1>2. stack # <<>> /\ Top = Last(stack)
  BY <1>1 DEF Top, Warning
<1>3. AllHold(Front(stack)) /\ CallHolds(Top)
  BY <1>2, HoldFront DEF ValuesInv
<1>4. v \in DOMAIN vecs /\ Top.out = Holds(vecs[v]) /\ DOMAIN data = DOMAIN vecs
  BY <1>1, <1>3 DEF CallHolds, ValuesInv, CompleteInv, ColumnsWhole
<1>5. \A u \in DOMAIN vecs :
        /\ Holds(vecs[u])' = Holds(vecs[u])
        /\ RowsFine(vecs[u])' = RowsFine(vecs[u])
        /\ Size(vecs[u])' = Size(vecs[u])
  BY <1>1, HoldsSame
<1>6. ASSUME NEW u \in DOMAIN vecs, Stored(u)' PROVE data'[u] = Holds(vecs[u])
  BY <1>1, <1>4, <1>6 DEF ValuesInv, Stored
<1> DEFINE t == stack'
<1>7. IsSequence(t) /\ \A n \in DOMAIN t : CallHolds(t[n])
  BY <1>1, <1>3 DEF AllHold
<1>8. ASSUME NEW call, CallHolds(call) PROVE CallHolds(call)'
  BY <1>1, <1>5, <1>8 DEF CallHolds
<1>9. AllHold(stack)'
  BY <1>7, <1>8 DEF AllHold
<1>10. QED  BY <1>1, <1>5, <1>6, <1>9 DEF ValuesInv

(* A new vector has rows of the data frame. *)
LEMMA MakeValues ==
  ASSUME ValuesInv, CompleteInv', NEW v \in used, NEW rows, NEW picked,
         Make(v, rows, picked), Parses(vecs[v]), IsSequence(rows),
         \A k \in 1 .. Len(rows) : rows[k] \in 1 .. frame.rows
  PROVE  ValuesInv'
<1> DEFINE l   == Len(vecs) + 1
           vec == [column |-> vecs[v].column, rows |-> rows, info |-> l,
                   subset |-> vecs[v].subset \/ picked # <<>>]
<1>1. /\ vecs' = Append(vecs, vec) /\ data' = Append(data, NoData)
      /\ UNCHANGED <<frame, stack>>
  BY DEF Make
<1>2. vec.rows = rows /\ vec.column = vecs[v].column
  OBVIOUS
<1> HIDE DEF vec
<1>3. IsSequence(vecs) /\ IsSequence(data) /\ DOMAIN data = DOMAIN vecs
  BY DEF ValuesInv, CompleteInv, ColumnsWhole
<1>4. /\ Len(vecs) \in Nat /\ DOMAIN vecs = 1 .. Len(vecs)
      /\ DOMAIN vecs' = 1 .. l /\ vecs'[l] = vec
      /\ \A u \in 1 .. Len(vecs) : vecs'[u] = vecs[u]
  BY <1>1, <1>3, AppendFacts
<1>5. data'[l] = NoData /\ \A u \in 1 .. Len(vecs) : data'[u] = data[u]
  <2>1. /\ Len(data) \in Nat /\ DOMAIN data = 1 .. Len(data)
        /\ data'[Len(data) + 1] = NoData
        /\ \A u \in 1 .. Len(data) : data'[u] = data[u]
    BY <1>1, <1>3, AppendFacts
  <2>2. Len(data) = Len(vecs)
    BY <1>3, <1>4, <2>1
  <2>3. QED  BY <2>1, <2>2
<1>6. \A u \in DOMAIN vecs :
        /\ Holds(vecs[u])' = Holds(vecs[u])
        /\ RowsFine(vecs[u])' = RowsFine(vecs[u])
        /\ Size(vecs[u])' = Size(vecs[u])
  BY <1>1, <1>4, HoldsSame
<1>7. ASSUME NEW u \in DOMAIN vecs'
      PROVE  RowsFine(vecs[u])' /\ (Stored(u)' => data'[u] = Holds(vecs[u])')
  <2>1. CASE u \in DOMAIN vecs
    <3>1. data'[u] = data[u] /\ RowsFine(vecs[u])
      BY <1>4, <1>5, <2>1 DEF ValuesInv
    <3>2. Stored(u)' => data[u] = Holds(vecs[u])
      BY <2>1, <3>1 DEF ValuesInv, Stored
    <3>3. QED  BY <1>6, <2>1, <3>1, <3>2
  <2>2. CASE u = l
    <3>1. Parses(vecs[u])'
      BY <1>1, <1>2, <1>4, <2>2 DEF Parses, Column
    <3>2. RowsFine(vecs[u])'
      BY <1>1, <1>2, <1>4, <2>2, <3>1 DEF RowsFine, Size
    <3>3. ~Stored(u)'
      BY <1>5, <2>2 DEF Stored
    <3>4. QED  BY <3>2, <3>3
  <2>3. QED  BY <1>4, <1>7, <2>1, <2>2
<1> DEFINE t == stack'
<1>8. IsSequence(t) /\ \A n \in DOMAIN t : CallHolds(t[n])
  BY <1>1 DEF AllHold, ValuesInv
<1>9. ASSUME NEW call, CallHolds(call) PROVE CallHolds(call)'
  <2>1. call.op \in {"elt", "materialize"} => call.vec \in DOMAIN vecs
    BY <1>9 DEF CallHolds
  <2>2. DOMAIN vecs \subseteq DOMAIN vecs'
    BY <1>4
  <2>3. QED  BY <1>6, <1>9, <2>1, <2>2 DEF CallHolds
<1>10. AllHold(stack)'
  BY <1>8, <1>9 DEF AllHold
<1>11. QED  BY <1>7, <1>10 DEF ValuesInv

(* A subset picks rows that its vector has. *)
LEMMA PickedRows ==
  ASSUME ValuesInv, NEW v \in used, NEW n \in 1 .. MaxPicked,
         NEW picked \in [1 .. n -> 1 .. Size(vecs[v])]
  PROVE  LET rows == [m \in DOMAIN picked |-> vecs[v].rows[picked[m]]]
         IN  /\ IsSequence(rows) /\ Len(rows) = n /\ n \in Nat \ {0}
             /\ \A k \in 1 .. n : rows[k] \in 1 .. frame.rows
<1> DEFINE rows == [m \in DOMAIN picked |-> vecs[v].rows[picked[m]]]
<1>1. n \in Nat \ {0}
  BY FramesAssumption
<1>2. v \in DOMAIN vecs
  BY DEF ValuesInv, CompleteInv, ColumnsWhole
<1>3. \A k \in 1 .. n : rows[k] \in 1 .. frame.rows
  BY <1>2 DEF ValuesInv, RowsFine
<1>4. rows \in Seq(1 .. frame.rows) /\ Len(rows) = n
  BY <1>1, <1>3
<1>5. QED  BY <1>1, <1>3, <1>4 DEF IsSequence

(* Every step keeps the invariant. *)
LEMMA NextValuesInv == ValuesInv /\ [Next]_vars => ValuesInv'
<1> SUFFICES ASSUME ValuesInv, [Next]_vars PROVE ValuesInv'
  OBVIOUS
<1>1. CompleteInv'
  BY NextCompleteInv DEF ValuesInv
<1>2. AllHold(stack)
  BY DEF ValuesInv
<1>3. ASSUME UNCHANGED <<frame, vecs, data, stack>> PROVE ValuesInv'
  BY <1>1, <1>2, <1>3, SameValues
<1>4. ASSUME stack # <<>>, stack' \in {Front(stack), <<>>}, UNCHANGED <<frame, vecs, data>>
      PROVE  ValuesInv'
  <2>1. AllHold(<<>>)
    <3>1. DOMAIN <<>> = {} /\ IsSequence(<<>>)
      BY DEF IsSequence
    <3>2. QED  BY <3>1 DEF AllHold
  <2>2. QED  BY <1>1, <1>2, <1>4, <2>1, HoldFront, SameValues
<1>5. ASSUME NEW c, CallHolds(c), stack' = Append(stack, c), UNCHANGED <<frame, vecs, data>>
      PROVE  ValuesInv'
  BY <1>1, <1>2, <1>5, HoldAppend, SameValues
<1>6. ASSUME NEW v \in used, Dataptr(v) PROVE ValuesInv'
  <2> DEFINE c == Call("materialize", v, 0, <<>>)
  <2>1. stack' = Append(stack, c) /\ UNCHANGED <<frame, vecs, data>>
    BY <1>6 DEF Dataptr
  <2>2. c.op = "materialize" /\ c.vec = v /\ c.at = 0
    BY DEF Call
  <2>3. v \in DOMAIN vecs
    BY DEF ValuesInv, CompleteInv, ColumnsWhole
  <2> HIDE DEF c
  <2>4. CallHolds(c)
    BY <2>2, <2>3, StartHolds DEF ValuesInv
  <2>5. QED  BY <1>5, <2>1, <2>4
<1>7. ASSUME NEW op \in {"problems", "convert"}, Start(op) PROVE ValuesInv'
  <2> DEFINE c == Call(op, 0, 1, <<>>)
  <2>1. stack' = Append(stack, c) /\ UNCHANGED <<frame, vecs, data>>
    BY <1>7 DEF Start
  <2>2. c.op = op
    BY DEF Call
  <2> HIDE DEF c
  <2>3. CallHolds(c)
    BY <2>2, StartHolds DEF ValuesInv
  <2>4. QED  BY <1>5, <2>1, <2>3
<1>8. ASSUME NEW v \in used, Duplicate(v) PROVE ValuesInv'
  <2>1. Make(v, vecs[v].rows, <<>>) /\ Parses(vecs[v])
    BY <1>8 DEF Duplicate, Parses
  <2>2. IsSequence(vecs[v].rows)
        /\ \A k \in 1 .. Len(vecs[v].rows) : vecs[v].rows[k] \in 1 .. frame.rows
    BY DEF ValuesInv, CompleteInv, ColumnsWhole, RowsFine, Size
  <2>3. QED  BY <1>1, <2>1, <2>2, MakeValues
<1>9. ASSUME NEW v \in used, NEW n \in 1 .. MaxPicked,
             NEW picked \in [1 .. n -> 1 .. Size(vecs[v])], ExtractSubset(v, picked)
      PROVE  ValuesInv'
  <2> DEFINE rows == [m \in DOMAIN picked |-> vecs[v].rows[picked[m]]]
  <2>1. Make(v, rows, picked) /\ Parses(vecs[v])
    BY <1>9 DEF ExtractSubset
  <2>2. IsSequence(rows) /\ Len(rows) = n /\ \A k \in 1 .. n : rows[k] \in 1 .. frame.rows
    BY PickedRows
  <2> HIDE DEF rows
  <2>3. QED  BY <1>1, <2>1, <2>2, MakeValues
<1>10. ASSUME NEW v \in used, NEW k \in 1 .. Size(vecs[v]), EltStored(v, k) \/ EltParsed(v, k)
       PROVE  ValuesInv'
  BY <1>1, <1>3, <1>10, EltParsedValues DEF EltStored
<1>11. ASSUME NEW v \in used, DataptrStored(v) \/ Collect(v) PROVE ValuesInv'
  BY <1>3, <1>11 DEF DataptrStored, Collect
<1>12. CASE ReturnElt \/ Finish \/ HandlerReturns \/ HandlerLeaves
  <2>1. stack # <<>>
    BY <1>12 DEF ReturnElt, Finish, HandlerReturns, HandlerLeaves, Top, Warning
  <2>2. stack' \in {Front(stack), <<>>} /\ UNCHANGED <<frame, vecs, data>>
    BY <1>12 DEF ReturnElt, Finish, HandlerReturns, HandlerLeaves
  <2>3. QED  BY <1>4, <2>1, <2>2
<1>13. CASE UNCHANGED vars
  BY <1>3, <1>13 DEF vars
<1>14. QED
  BY <1>1, <1>6, <1>7, <1>8, <1>9, <1>10, <1>11, <1>12, <1>13,
     ParseCellsValues, StoreValues, NextColumnValues
  DEF Next, RCode

(* What the vectors hold, and what the last call returned. *)
Contents == [v \in DOMAIN vecs |-> Holds(vecs[v])]
Returned == IF answer.op = "problems" THEN NoAnswer ELSE answer

(* What an answer is for Vectors. *)
LEMMA Returning ==
  ASSUME UNCHANGED <<frame, vecs>>, NEW result, answer' = result, result.op # "problems"
  PROVE  Values!Returns(result)
<1>1. Contents' = Contents
  BY HoldsSame DEF Contents
<1>2. Returned' = result
  BY DEF Returned
<1>3. QED  BY <1>1, <1>2 DEF Values!Returns, Contents, Returned

(* Steps after which nothing was returned. *)
LEMMA Forgetting ==
  ASSUME UNCHANGED <<frame, vecs>>, Returned' = NoAnswer PROVE Values!Next
<1>1. Contents' = Contents
  BY HoldsSame DEF Contents
<1>2. QED
  BY <1>1 DEF Values!Next, Values!Forget, Values!Returns, Values!NoAnswer, NoAnswer, Contents,
              Returned

(* Steps that return nothing. *)
LEMMA Stuttering ==
  ASSUME UNCHANGED <<frame, vecs, answer>> PROVE UNCHANGED Values!vars
<1>1. Contents' = Contents
  BY HoldsSame DEF Contents
<1>2. QED  BY <1>1 DEF Values!vars, Contents, Returned

(* An element that is returned is the one that the vector holds. *)
LEMMA ReturnsElement ==
  ASSUME ValuesInv, UNCHANGED <<frame, vecs>>, NEW v \in DOMAIN vecs,
         NEW k \in 1 .. Size(vecs[v]),
         answer' = [op |-> "element", of |-> v, at |-> k, is |-> Holds(vecs[v])[k]]
  PROVE  Values!Next
<1>1. v \in DOMAIN Contents /\ Contents[v] = Holds(vecs[v]) /\ k \in DOMAIN Contents[v]
  BY HoldsFacts DEF Contents, ValuesInv
<1> DEFINE result == [op |-> "element", of |-> v, at |-> k, is |-> Holds(vecs[v])[k]]
<1>2. Values!Returns(result)
  BY Returning
<1>3. Values!Element(v, k)
  BY <1>1, <1>2 DEF Values!Element, Contents
<1>4. QED  BY <1>1, <1>3 DEF Values!Next, Contents

(* And all that are returned are those that it holds. *)
LEMMA ReturnsElements ==
  ASSUME UNCHANGED <<frame, vecs>>, NEW v \in DOMAIN vecs,
         answer' = [op |-> "elements", of |-> v, is |-> Holds(vecs[v])]
  PROVE  Values!Next
<1>1. v \in DOMAIN Contents /\ Contents[v] = Holds(vecs[v])
  BY DEF Contents
<1> DEFINE result == [op |-> "elements", of |-> v, is |-> Holds(vecs[v])]
<1>2. Values!Returns(result)
  BY Returning
<1>3. Values!Elements(v)
  BY <1>1, <1>2 DEF Values!Elements, Contents
<1>4. QED  BY <1>1, <1>3 DEF Values!Next, Contents

(* A vector that is made holds what is picked from its original. *)
LEMMA MakesVector ==
  ASSUME ValuesInv, ValuesInv', NEW v \in used, NEW rows, NEW picked,
         Make(v, rows, picked), Parses(vecs[v]), IsSequence(rows)
  PROVE  /\ Returned' = [op |-> "vector", of |-> v, picked |-> picked]
         /\ Contents' = Append(Contents,
                          [k \in 1 .. Len(rows) |-> ValueOf(Column(vecs[v]), rows[k])])
<1> DEFINE l   == Len(vecs) + 1
           vec == [column |-> vecs[v].column, rows |-> rows, info |-> l,
                   subset |-> vecs[v].subset \/ picked # <<>>]
           new == [k \in 1 .. Len(rows) |-> ValueOf(Column(vecs[v]), rows[k])]
<1>1. /\ vecs' = Append(vecs, vec) /\ frame' = frame
      /\ answer' = [op |-> "vector", of |-> v, picked |-> picked]
  BY DEF Make, Answers
<1>2. vec.rows = rows /\ vec.column = vecs[v].column
  OBVIOUS
<1> HIDE DEF vec
<1>3. /\ Len(vecs) \in Nat /\ DOMAIN vecs = 1 .. Len(vecs)
      /\ DOMAIN vecs' = 1 .. l /\ vecs'[l] = vec
      /\ \A u \in 1 .. Len(vecs) : vecs'[u] = vecs[u]
  BY <1>1, AppendFacts DEF ValuesInv, CompleteInv, ColumnsWhole
<1>4. ASSUME NEW u, u = l PROVE Holds(vecs[u])' = new
  <2>1. vecs'[u].column = vecs[v].column /\ vecs'[u].rows = rows
    BY <1>2, <1>3, <1>4
  <2>2. Parses(vecs[u])' /\ Column(vecs[u])' = Column(vecs[v])
    BY <1>1, <2>1 DEF Parses, Column
  <2>3. DOMAIN rows = 1 .. Len(rows)
    BY DEF IsSequence
  <2>4. QED  BY <2>1, <2>2, <2>3 DEF Holds
<1>5. \A u \in 1 .. Len(vecs) : Holds(vecs[u])' = Holds(vecs[u])
  BY <1>1, <1>3, HoldsSame
<1> HIDE DEF new
<1>6. Contents' = [u \in 1 .. l |-> IF u = l THEN new ELSE Contents[u]]
  <2>1. Contents' = [u \in 1 .. l |-> Holds(vecs[u])']
    BY <1>3 DEF Contents
  <2>2. ASSUME NEW u \in 1 .. l PROVE u = l \/ u \in 1 .. Len(vecs)
    BY <1>3
  <2>3. ASSUME NEW u \in 1 .. Len(vecs) PROVE u # l /\ Contents[u] = Holds(vecs[u])
    BY <1>3 DEF Contents
  <2>4. \A u \in 1 .. l : Holds(vecs[u])' = IF u = l THEN new ELSE Contents[u]
    BY <1>4, <1>5, <2>2, <2>3
  <2>5. QED  BY <2>1, <2>4
<1>7. Contents \in Seq({Contents[u] : u \in DOMAIN vecs}) /\ Len(Contents) = Len(vecs)
  BY <1>3 DEF Contents
<1>8. IsSequence(Contents)
  BY <1>7 DEF IsSequence
<1>9. /\ DOMAIN Append(Contents, new) = 1 .. l /\ IsSequence(Append(Contents, new))
      /\ \A u \in 1 .. Len(vecs) : Append(Contents, new)[u] = Contents[u]
      /\ Append(Contents, new)[l] = new
  BY <1>7, <1>8, AppendFacts
<1>10. Append(Contents, new) = [u \in 1 .. l |-> Append(Contents, new)[u]]
  BY <1>9, SequenceIsFunction
<1>11. ASSUME NEW u \in 1 .. l
       PROVE  Append(Contents, new)[u] = IF u = l THEN new ELSE Contents[u]
  BY <1>3, <1>9
<1>12. Contents' = Append(Contents, new)
  BY <1>6, <1>10, <1>11
<1>13. Returned' = [op |-> "vector", of |-> v, picked |-> picked]
  BY <1>1 DEF Returned
<1>14. QED  BY <1>12, <1>13 DEF new

(* A subset selects, as its elements are those of the rows it picked. *)
LEMMA ExtractSubsetSelects ==
  ASSUME ValuesInv, ValuesInv', NEW v \in used, NEW n \in 1 .. MaxPicked,
         NEW picked \in [1 .. n -> 1 .. Size(vecs[v])], ExtractSubset(v, picked)
  PROVE  Values!Next
<1> DEFINE rows == [m \in DOMAIN picked |-> vecs[v].rows[picked[m]]]
           new  == [k \in 1 .. n |-> ValueOf(Column(vecs[v]), rows[k])]
<1>1. Make(v, rows, picked) /\ Parses(vecs[v])
  BY DEF ExtractSubset
<1>2. IsSequence(rows) /\ Len(rows) = n
  BY PickedRows
<1>3. /\ Returned' = [op |-> "vector", of |-> v, picked |-> picked]
      /\ Contents' = Append(Contents, new)
  <2> HIDE DEF rows
  <2>1. QED  BY <1>1, <1>2, MakesVector
<1>4. v \in DOMAIN vecs /\ v \in DOMAIN Contents /\ Contents[v] = Holds(vecs[v])
  BY DEF ValuesInv, CompleteInv, ColumnsWhole, Contents
<1>5. Holds(vecs[v]) = [k \in 1 .. Size(vecs[v]) |-> ValueOf(Column(vecs[v]), vecs[v].rows[k])]
  BY <1>4, HoldsFacts DEF ValuesInv
<1>6. new = [m \in DOMAIN picked |-> Contents[v][picked[m]]]
  BY <1>4, <1>5
<1>7. picked \in [1 .. n -> DOMAIN Contents[v]]
  BY <1>4, <1>5
<1> HIDE DEF new
<1>8. Values!Select(v, picked)
  BY <1>3, <1>6 DEF Values!Select, Values!New, Contents, Returned
<1>9. QED  BY <1>4, <1>7, <1>8 DEF Values!Next, Contents

(* A copy holds the same. *)
LEMMA DuplicateCopies ==
  ASSUME ValuesInv, ValuesInv', NEW v \in used, Duplicate(v) PROVE Values!Next
<1> DEFINE new == [k \in 1 .. Len(vecs[v].rows) |->
                     ValueOf(Column(vecs[v]), vecs[v].rows[k])]
<1>1. Make(v, vecs[v].rows, <<>>) /\ Parses(vecs[v])
  BY DEF Duplicate, Parses
<1>2. v \in DOMAIN vecs /\ v \in DOMAIN Contents /\ Contents[v] = Holds(vecs[v])
  BY DEF ValuesInv, CompleteInv, ColumnsWhole, Contents
<1>3. IsSequence(vecs[v].rows)
  BY <1>2 DEF ValuesInv, RowsFine
<1>4. /\ Returned' = [op |-> "vector", of |-> v, picked |-> <<>>]
      /\ Contents' = Append(Contents, new)
  BY <1>1, <1>3, MakesVector
<1>5. Holds(vecs[v]) = new
  BY <1>2, HoldsFacts DEF ValuesInv, Size
<1> HIDE DEF new
<1>6. Values!Copy(v)
  BY <1>2, <1>4, <1>5 DEF Values!Copy, Values!New, Contents, Returned
<1>7. QED  BY <1>2, <1>6 DEF Values!Next, Contents

(* vroom_convert returns the columns, all of which are stored by then. *)
LEMMA FinishReturns == ASSUME ValuesInv, Finish PROVE Values!Next
<1>1. /\ Top.op \in {"problems", "convert"} /\ Top.at > Len(frame.columns)
      /\ answer' = IF Top.op = "problems" THEN ErrorTable
                   ELSE [op |-> "table", is |-> [c \in Columns |-> data[c]]]
      /\ UNCHANGED <<frame, vecs, data>>
  BY DEF Finish, Answers
<1>2. CASE Top.op = "problems"
  <2>1. answer'.op = "problems"
    BY <1>1, <1>2 DEF ErrorTable
  <2>2. Returned' = NoAnswer
    BY <2>1 DEF Returned
  <2>3. QED  BY <1>1, <2>2, Forgetting
<1>3. CASE Top.op = "convert"
  <2> DEFINE l      == Len(frame.columns)
             table  == [c \in Columns |-> data[c]]
             result == [op |-> "table", is |-> table]
  <2>1. /\ l \in Nat \ {0} /\ Columns = 1 .. l /\ Columns \subseteq DOMAIN vecs
        /\ DOMAIN vecs = 1 .. Len(vecs) /\ Len(vecs) \in Nat
    <3>1. l \in Nat /\ Columns = 1 .. l
      BY ColumnNumbers DEF ValuesInv
    <3>2. frame \in Frames /\ frame.columns # <<>> /\ IsSequence(frame.columns)
      BY RunsAssumption DEF ValuesInv, CompleteInv, ColumnsWhole
    <3>3. l # 0
      BY <3>2 DEF IsSequence
    <3>4. QED
      BY <3>1, <3>3 DEF ValuesInv, CompleteInv, ColumnsWhole, IsSequence
  <2>2. ASSUME NEW c \in Columns PROVE data[c] = Contents[c]
    <3>1. c < Top.at
      <4>1. stack # <<>> /\ Last(stack) = Top
        BY <1>3 DEF Top, Warning
      <4>2. CallReports(Top, errors)
        BY <4>1, ReportingFront DEF ValuesInv, CompleteInv
      <4>3. Top.at \in Nat
        BY <1>1, <4>2 DEF CallReports
      <4>4. QED  BY <1>1, <2>1, <4>3
    <3>2. Stored(c)
      BY <1>3, <3>1 DEF ValuesInv, CompleteInv, Lacks, Needs
    <3>3. c \in DOMAIN vecs /\ data[c] = Holds(vecs[c])
      BY <2>1, <3>2 DEF ValuesInv
    <3>4. QED  BY <3>3 DEF Contents
  <2>3. Contents \in Seq({Contents[u] : u \in DOMAIN vecs}) /\ Len(Contents) = Len(vecs)
    BY <2>1 DEF Contents
  <2>4. l \in 1 .. Len(Contents)
    BY <2>1, <2>3
  <2>5. table = SubSeq(Contents, 1, l)
    <3>1. SubSeq(Contents, 1, l) = [c \in 1 .. l |-> Contents[c]]
      BY <2>1, <2>3, <2>4
    <3>2. QED  BY <2>1, <2>2, <3>1
  <2> HIDE DEF table
  <2>6. answer' = result
    BY <1>1, <1>3 DEF table
  <2>7. Values!Returns(result)
    BY <1>1, <2>6, Returning
  <2>8. Values!Table
    BY <2>4, <2>5, <2>7 DEF Values!Table, Contents
  <2>9. QED  BY <2>8 DEF Values!Next
<1>4. QED  BY <1>1, <1>2, <1>3

(* Every step is a step of Vectors, or returns and makes nothing. *)
LEMMA StepsOfVectors ==
  ValuesInv /\ ValuesInv' /\ [Next]_vars => [Values!Next]_(Values!vars)
<1> SUFFICES ASSUME ValuesInv, ValuesInv', [Next]_vars
             PROVE  Values!Next \/ UNCHANGED Values!vars
  OBVIOUS
<1>1. used \subseteq DOMAIN vecs
  BY DEF ValuesInv, CompleteInv, ColumnsWhole
<1>2. ASSUME answer' = NoAnswer, UNCHANGED <<frame, vecs>> PROVE Values!Next
  <2>1. Returned' = NoAnswer
    BY <1>2 DEF Returned, NoAnswer
  <2>2. QED  BY <1>2, <2>1, Forgetting
<1>3. ASSUME NEW v \in used, NEW k \in 1 .. Size(vecs[v]), EltStored(v, k) PROVE Values!Next
  <2> DEFINE elt == IF Stored(v) THEN data[v][k] ELSE ValueOf(Column(vecs[v]), vecs[v].rows[k])
  <2>1. /\ answer' = [op |-> "element", of |-> v, at |-> k, is |-> elt]
        /\ UNCHANGED <<frame, vecs>>
    BY <1>3 DEF EltStored, Answers
  <2>2. elt = Holds(vecs[v])[k]
    <3>1. Holds(vecs[v]) =
            [n \in 1 .. Size(vecs[v]) |-> ValueOf(Column(vecs[v]), vecs[v].rows[n])]
      BY <1>1, HoldsFacts DEF ValuesInv
    <3>2. Stored(v) => data[v] = Holds(vecs[v])
      BY <1>1 DEF ValuesInv
    <3>3. QED  BY <3>1, <3>2
  <2> HIDE DEF elt
  <2>3. QED  BY <1>1, <2>1, <2>2, ReturnsElement
<1>4. ASSUME NEW v \in used, NEW k, EltParsed(v, k) PROVE Values!Next
  BY <1>2, <1>4 DEF EltParsed, Answers
<1>5. ASSUME NEW v \in used, DataptrStored(v) PROVE Values!Next
  <2>1. Stored(v) /\ answer' = [op |-> "elements", of |-> v, is |-> data[v]]
        /\ UNCHANGED <<frame, vecs>>
    BY <1>5 DEF DataptrStored, Answers
  <2>2. data[v] = Holds(vecs[v])
    BY <1>1, <2>1 DEF ValuesInv
  <2>3. QED  BY <1>1, <2>1, <2>2, ReturnsElements
<1>6. ASSUME NEW v \in used, Dataptr(v) PROVE Values!Next
  BY <1>2, <1>6 DEF Dataptr, Answers
<1>7. ASSUME NEW v \in used, Collect(v) PROVE UNCHANGED Values!vars
  BY <1>7, Stuttering DEF Collect
<1>8. ASSUME NEW op, Start(op) PROVE Values!Next
  BY <1>2, <1>8 DEF Start, Answers
<1>9. ASSUME HandlerReturns \/ ParseCells \/ NextColumn PROVE UNCHANGED Values!vars
  BY <1>9, Stuttering DEF HandlerReturns, ParseCells, NextColumn
<1>10. CASE HandlerLeaves
  BY <1>2, <1>10 DEF HandlerLeaves, Answers
<1>11. CASE ReturnElt
  <2>1. /\ Top.op = "elt" /\ UNCHANGED <<frame, vecs>>
        /\ answer' = [op |-> "element", of |-> Top.vec, at |-> Top.at, is |-> Top.out[1]]
    BY <1>11 DEF ReturnElt, Answers
  <2>2. stack # <<>> /\ Top = Last(stack)
    BY <2>1 DEF Top, Warning
  <2>3. CallHolds(Top)
    BY <2>2, HoldFront DEF ValuesInv
  <2>4. /\ Top.vec \in DOMAIN vecs /\ Top.at \in 1 .. Size(vecs[Top.vec])
        /\ Top.out[1] = Holds(vecs[Top.vec])[Top.at]
    BY <2>1, <2>3 DEF CallHolds
  <2>5. QED  BY <2>1, <2>4, ReturnsElement
<1>12. CASE Store
  <2>1. /\ Top.op = "materialize" /\ Top.at = Size(vecs[Top.vec]) /\ UNCHANGED <<frame, vecs>>
        /\ answer' = [op |-> "elements", of |-> Top.vec, is |-> Top.out]
    BY <1>12 DEF Store, Answers
  <2>2. stack # <<>> /\ Top = Last(stack)
    BY <2>1 DEF Top, Warning
  <2>3. CallHolds(Top)
    BY <2>2, HoldFront DEF ValuesInv
  <2>4. Top.vec \in DOMAIN vecs /\ Top.out = Holds(vecs[Top.vec])
    BY <2>1, <2>3 DEF CallHolds
  <2>5. QED  BY <2>1, <2>4, ReturnsElements
<1>13. CASE UNCHANGED vars
  BY <1>13, Stuttering DEF vars
<1>14. QED
  BY <1>3, <1>4, <1>5, <1>6, <1>7, <1>8, <1>9, <1>10, <1>11, <1>12, <1>13,
     ExtractSubsetSelects, DuplicateCopies, FinishReturns
  DEF Next, RCode

(* Vectors keep their elements: whatever is asked of the columns of any     *)
(* data frame, of their subsets and copies, in whatever order, and whatever *)
(* handlers of the warning do in between, each answer is the one that       *)
(* vectors parsed beforehand would give.                                   *)
THEOREM AlwaysKeepsItsElements == Spec => KeepsItsElements
<1>1. Init => (IF answer.op = "problems" THEN NoAnswer ELSE answer) = Values!NoAnswer
  BY DEF Init, NoAnswer, Values!NoAnswer
<1>2. QED
  BY <1>1, InitValuesInv, NextValuesInv, StepsOfVectors, PTL
  DEF Spec, KeepsItsElements, Values!Spec

----------------------------------------------------------------------------
(* Types.                                                                  *)

(* What the types need beside the invariants above. *)
Numbered ==
  /\ \A v \in DOMAIN vecs : vecs[v].info \in Nat /\ vecs[v].subset \in BOOLEAN
  /\ infos \subseteq DOMAIN vecs
  /\ errors \subseteq (1 .. frame.rows) \X Nat
  /\ \A n \in DOMAIN stack : stack[n].vec \in DOMAIN vecs \union {0}

(* The inductive invariant of the types. *)
TypeInv == ValuesInv /\ WarnInv /\ Numbered

(* A value is the number of a row, of a run, or NA. *)
LEMMA ValueType ==
  ASSUME ValuesInv, NEW v \in DOMAIN vecs, NEW row \in 1 .. frame.rows
  PROVE  ValueOf(Column(vecs[v]), row) \in Nat /\ Column(vecs[v]).number \in Nat
<1> DEFINE col == Column(vecs[v])
<1>1. /\ frame \in Frames /\ vecs[v].column \in DOMAIN frame.columns
      /\ col = frame.columns[vecs[v].column] /\ frame.rows \in Nat
  BY DEF ValuesInv, CompleteInv, ColumnsWhole, Columns, Column
<1>2. /\ col.number \in Nat
      /\ col.kind # "rle" => col.cells \in [1 .. frame.rows -> Cell]
  BY <1>1, FramesAssumption
<1>3. CASE col.kind = "rle"
  <2>1. ~Parses(vecs[v])
    BY <1>3 DEF Parses
  <2>2. /\ ExpandRuns(col.cells) \in [1 .. frame.rows -> Nat]
        /\ RunAt(col.cells, row) = ExpandRuns(col.cells)[row]
    BY <2>1, RunFacts DEF ValuesInv
  <2>3. RunAt(col.cells, row) \in Nat
    BY <2>2
  <2>4. QED  BY <1>2, <1>3, <2>3 DEF ValueOf
<1>4. CASE col.kind # "rle"
  <2>1. col.cells[row] \in {"ok", "na", "bad"} /\ row \in Nat
    BY <1>1, <1>2, <1>4 DEF Cell
  <2> HIDE DEF col
  <2>2. ValueOf(col, row) \in {row, NA}
    BY <1>4, <2>1 DEF ValueOf
  <2>3. QED  BY <1>2, <2>1, <2>2 DEF NA, col
<1>5. QED  BY <1>3, <1>4

(* The types follow. *)
LEMMA TypeInvType == TypeInv => TypeOK
<1> SUFFICES ASSUME TypeInv PROVE TypeOK
  OBVIOUS
<1>1. ASSUME NEW v \in DOMAIN vecs PROVE IsVector(vecs[v])
  <2>1. /\ vecs[v].column \in Columns /\ Size(vecs[v]) \in Nat \ {0} /\ RowsFine(vecs[v])
        /\ vecs[v].info \in Nat /\ vecs[v].subset \in BOOLEAN
    BY DEF TypeInv, ValuesInv, CompleteInv, ColumnsWhole, Numbered
  <2>2. /\ DOMAIN vecs[v].rows = 1 .. Size(vecs[v])
        /\ vecs[v].rows = [k \in DOMAIN vecs[v].rows |-> vecs[v].rows[k]]
    BY <2>1, SequenceIsFunction DEF RowsFine, IsSequence, Size
  <2>3. vecs[v].rows \in Seq(1 .. frame.rows)
    <3>1. vecs[v].rows \in [1 .. Size(vecs[v]) -> 1 .. frame.rows]
      BY <2>1, <2>2 DEF RowsFine
    <3>2. \A T : \A n \in Nat : [1 .. n -> T] \subseteq Seq(T)
      OBVIOUS
    <3>3. QED  BY <2>1, <3>1, <3>2
  <2>4. vecs[v].rows # <<>>
    BY <2>1 DEF Size
  <2>5. QED  BY <2>1, <2>3, <2>4 DEF IsVector
<1>2. ASSUME NEW v \in DOMAIN vecs, Stored(v) PROVE data[v] \in [1 .. Size(vecs[v]) -> Nat]
  <2>1. RowsFine(vecs[v]) /\ data[v] = Holds(vecs[v])
    BY <1>2 DEF TypeInv, ValuesInv
  <2>2. data[v] = [k \in 1 .. Size(vecs[v]) |-> ValueOf(Column(vecs[v]), vecs[v].rows[k])]
    BY <2>1, HoldsFacts DEF TypeInv, ValuesInv
  <2>3. \A k \in 1 .. Size(vecs[v]) : ValueOf(Column(vecs[v]), vecs[v].rows[k]) \in Nat
    BY <2>1, ValueType DEF TypeInv, RowsFine
  <2>4. QED  BY <2>2, <2>3
<1>3. QED
  BY <1>1, <1>2
  DEF TypeInv, ValuesInv, CompleteInv, ColumnsWhole, WarnInv, Numbered, TypeOK

(* Reports are about rows of the data frame. *)
LEMMA ReportType ==
  ASSUME ValuesInv, NEW v \in DOMAIN vecs
  PROVE  /\ \A k \in 1 .. Size(vecs[v]) :
              <<ReportedRow(vecs[v], k), Column(vecs[v]).number>> \in (1 .. frame.rows) \X Nat
         /\ \A from \in Nat \ {0}, upto \in 1 .. Size(vecs[v]) :
              from <= upto => Found(vecs[v], from, upto) \subseteq (1 .. frame.rows) \X Nat
<1>1. /\ frame.rows \in Nat \ {0} /\ RowsFine(vecs[v]) /\ Size(vecs[v]) \in Nat
      /\ 1 \in 1 .. frame.rows
  BY DEF ValuesInv, CompleteInv, ColumnsWhole
<1>2. Column(vecs[v]).number \in Nat
  BY <1>1, ValueType
<1>3. ASSUME NEW k \in 1 .. Size(vecs[v])
      PROVE  <<ReportedRow(vecs[v], k), Column(vecs[v]).number>> \in (1 .. frame.rows) \X Nat
  BY <1>1, <1>2 DEF RowsFine, ReportedRow
<1>4. ASSUME NEW from \in Nat \ {0}, NEW upto \in 1 .. Size(vecs[v]), from <= upto
      PROVE  Found(vecs[v], from, upto) \subseteq (1 .. frame.rows) \X Nat
  <2>1. from \in 1 .. Size(vecs[v]) /\ from .. upto \subseteq 1 .. Size(vecs[v])
    BY <1>1, <1>4
  <2>2. \A k \in from .. upto : vecs[v].rows[k] \in 1 .. frame.rows
    BY <1>1, <2>1 DEF RowsFine
  <2>3. QED  BY <1>2, <1>3, <2>1, <2>2 DEF Found, BadCells
<1>5. QED  BY <1>3, <1>4

(* Steps that make no vector. *)
LEMMA SameNumbers ==
  ASSUME TypeInv, UNCHANGED <<frame, vecs>>, infos' \subseteq infos,
         errors' \subseteq (1 .. frame.rows) \X Nat,
         \A n \in DOMAIN stack' : stack'[n].vec \in DOMAIN vecs \union {0}
  PROVE  Numbered'
BY DEF TypeInv, Numbered

(* Calls are about vectors. *)
LEMMA NumberedAppend ==
  ASSUME NEW s, NEW V, IsSequence(s), \A n \in DOMAIN s : s[n].vec \in V,
         NEW c, c.vec \in V
  PROVE  IsSequence(Append(s, c)) /\ \A n \in DOMAIN Append(s, c) : Append(s, c)[n].vec \in V
<1>1. /\ IsSequence(Append(s, c)) /\ DOMAIN s = 1 .. Len(s) /\ Len(s) \in Nat
      /\ DOMAIN Append(s, c) = 1 .. (Len(s) + 1)
      /\ \A n \in 1 .. Len(s) : Append(s, c)[n] = s[n]
      /\ Append(s, c)[Len(s) + 1] = c
  BY AppendFacts
<1>2. ASSUME NEW n \in DOMAIN Append(s, c) PROVE Append(s, c)[n].vec \in V
  <2>1. n = Len(s) + 1 \/ n \in 1 .. Len(s)
    BY <1>1
  <2>2. QED  BY <1>1, <2>1
<1>3. QED  BY <1>1, <1>2

(* Every step keeps the numbers. *)
LEMMA NextNumbered == TypeInv /\ [Next]_vars => Numbered'
<1> SUFFICES ASSUME TypeInv, [Next]_vars PROVE Numbered'
  OBVIOUS
<1> DEFINE V == DOMAIN vecs \union {0}
<1>1. /\ IsSequence(stack) /\ \A n \in DOMAIN stack : stack[n].vec \in V
      /\ errors \subseteq (1 .. frame.rows) \X Nat
      /\ used \subseteq DOMAIN vecs /\ Columns \subseteq DOMAIN vecs
  BY DEF TypeInv, ValuesInv, AllHold, Numbered, CompleteInv, ColumnsWhole
<1>2. Warning.vec \in V
  BY DEF Warning
<1>3. stack # <<>> =>
        /\ IsSequence(Front(stack)) /\ \A n \in DOMAIN Front(stack) : Front(stack)[n].vec \in V
        /\ Top.vec \in V
  <2> SUFFICES ASSUME stack # <<>>
               PROVE  /\ IsSequence(Front(stack))
                      /\ \A n \in DOMAIN Front(stack) : Front(stack)[n].vec \in V
                      /\ Top.vec \in V
    OBVIOUS
  <2>1. /\ IsSequence(Front(stack)) /\ DOMAIN stack = 1 .. Len(stack) /\ Len(stack) \in Nat \ {0}
        /\ DOMAIN Front(stack) = 1 .. (Len(stack) - 1)
        /\ \A n \in 1 .. (Len(stack) - 1) : Front(stack)[n] = stack[n]
    BY <1>1, FrontFacts
  <2>2. \A n \in DOMAIN Front(stack) : n \in DOMAIN stack /\ Front(stack)[n] = stack[n]
    BY <2>1
  <2>3. Top = stack[Len(stack)] /\ Len(stack) \in DOMAIN stack
    BY <2>1 DEF Top, Last
  <2>4. QED  BY <1>1, <2>1, <2>2, <2>3
<1>4. ASSUME UNCHANGED <<frame, vecs, errors>>, infos' \subseteq infos, stack' = stack
      PROVE  Numbered'
  BY <1>1, <1>4, SameNumbers
<1>5. ASSUME UNCHANGED <<frame, vecs, errors>>, infos' \subseteq infos, stack # <<>>,
             stack' \in {Front(stack), <<>>}
      PROVE  Numbered'
  <2>1. DOMAIN <<>> = {}
    OBVIOUS
  <2>2. QED  BY <1>1, <1>3, <1>5, <2>1, SameNumbers
<1>6. ASSUME NEW s, IsSequence(s), \A n \in DOMAIN s : s[n].vec \in V,
             NEW c, c.vec \in V, UNCHANGED <<frame, vecs, infos>>,
             errors' \subseteq (1 .. frame.rows) \X Nat,
             stack' \in {s, Append(s, c), Append(Append(s, c), Warning)}
      PROVE  Numbered'
  <2> DEFINE t == Append(s, c)
  <2>1. IsSequence(t) /\ \A n \in DOMAIN t : t[n].vec \in V
    BY <1>6, NumberedAppend
  <2> HIDE DEF t
  <2>2. \A n \in DOMAIN Append(t, Warning) : Append(t, Warning)[n].vec \in V
    BY <1>2, <2>1, NumberedAppend
  <2>3. stack' \in {s, t, Append(t, Warning)}
    BY <1>6 DEF t
  <2>4. QED  BY <1>6, <2>1, <2>2, <2>3, SameNumbers
<1>7. ASSUME NEW v \in used, NEW k \in 1 .. Size(vecs[v]), EltParsed(v, k) PROVE Numbered'
  <2> DEFINE c == Call("elt", v, k, <<ValueOf(Column(vecs[v]), vecs[v].rows[k])>>)
             cells == IF IsBad(Column(vecs[v]), vecs[v].rows[k])
                      THEN {<<ReportedRow(vecs[v], k), Column(vecs[v]).number>>} ELSE {}
  <2>1. UNCHANGED <<frame, vecs, infos>> /\ Report(cells, Append(stack, c))
    BY <1>7 DEF EltParsed
  <2>2. c.vec = v
    BY DEF Call
  <2>3. cells \subseteq (1 .. frame.rows) \X Nat
    BY <1>1, ReportType DEF TypeInv
  <2> HIDE DEF c, cells
  <2>4. /\ errors' = errors \union cells
        /\ stack' \in {Append(stack, c), Append(Append(stack, c), Warning)}
    BY <2>1 DEF Report
  <2>5. QED  BY <1>1, <1>6, <2>1, <2>2, <2>3, <2>4
<1>8. CASE ParseCells
  <2> DEFINE vec  == vecs[Top.vec]
             from == Top.at + 1
             upto == Upto(vec, Top.at)
             c    == Call("materialize", Top.vec, upto, Parsed(vec, upto))
             t    == Append(Front(stack), c)
  <2>1. /\ Top.op = "materialize" /\ from <= Size(vec) /\ UNCHANGED <<frame, vecs, infos>>
        /\ \/ Report(Found(vec, from, upto), t)
           \/ stack' = t /\ errors' = errors
    BY <1>8 DEF ParseCells
  <2>2. stack # <<>> /\ Top = Last(stack)
    BY <2>1 DEF Top, Warning
  <2>3. Top.vec \in DOMAIN vecs /\ Top.at \in Nat /\ Size(vec) \in Nat
    <3>1. CallReports(Top, errors)
      BY <2>2, ReportingFront DEF TypeInv, ValuesInv, CompleteInv
    <3>2. QED
      BY <2>1, <3>1 DEF CallReports, TypeInv, ValuesInv, CompleteInv, ColumnsWhole
  <2>4. from \in Nat \ {0} /\ upto \in 1 .. Size(vec) /\ from <= upto
    BY <2>1, <2>3 DEF Upto
  <2>5. c.vec = Top.vec
    BY DEF Call
  <2> HIDE DEF c, upto
  <2>6. Found(vec, from, upto) \subseteq (1 .. frame.rows) \X Nat
    BY <2>3, <2>4, ReportType DEF TypeInv
  <2>7. errors' \subseteq (1 .. frame.rows) \X Nat /\ stack' \in {t, Append(t, Warning)}
    BY <1>1, <2>1, <2>6 DEF Report
  <2>8. QED  BY <1>3, <1>6, <2>1, <2>2, <2>3, <2>5, <2>7
<1>9. ASSUME NEW v \in used, Dataptr(v) PROVE Numbered'
  <2> DEFINE c == Call("materialize", v, 0, <<>>)
  <2>1. UNCHANGED <<frame, vecs, infos, errors>> /\ stack' = Append(stack, c) /\ c.vec = v
    BY <1>9 DEF Dataptr, Call
  <2> HIDE DEF c
  <2>2. QED  BY <1>1, <1>6, <2>1
<1>10. ASSUME NEW op, Start(op) PROVE Numbered'
  <2> DEFINE c == Call(op, 0, 1, <<>>)
  <2>1. UNCHANGED <<frame, vecs, infos, errors>> /\ stack' = Append(stack, c) /\ c.vec = 0
    BY <1>10 DEF Start, Call
  <2> HIDE DEF c
  <2>2. QED  BY <1>1, <1>6, <2>1
<1>11. CASE NextColumn
  <2> DEFINE c == Call(Top.op, 0, Top.at + 1, <<>>)
             d == Call("materialize", Top.at, 0, <<>>)
             t == Append(Front(stack), c)
  <2>1. /\ Top.op \in {"problems", "convert"} /\ Top.at <= Len(frame.columns)
        /\ stack' \in {t, Append(t, d)} /\ UNCHANGED <<frame, vecs, infos, errors>>
    BY <1>11 DEF NextColumn
  <2>2. stack # <<>> /\ Top = Last(stack)
    BY <2>1 DEF Top, Warning
  <2>3. Top.at \in Columns
    <3>1. CallReports(Top, errors)
      BY <2>2, ReportingFront DEF TypeInv, ValuesInv, CompleteInv
    <3>2. QED  BY <2>1, <3>1, ColumnNumbers DEF CallReports, TypeInv, ValuesInv
  <2>4. c.vec = 0 /\ d.vec = Top.at
    BY DEF Call
  <2> HIDE DEF c, d
  <2>5. IsSequence(t) /\ \A n \in DOMAIN t : t[n].vec \in V
    BY <1>3, <2>2, <2>4, NumberedAppend
  <2> HIDE DEF t
  <2>6. QED  BY <1>1, <1>6, <2>1, <2>3, <2>4, <2>5
<1>12. ASSUME NEW v \in used, NEW rows, NEW picked, Make(v, rows, picked) PROVE Numbered'
  <2> DEFINE l   == Len(vecs) + 1
             vec == [column |-> vecs[v].column, rows |-> rows, info |-> l,
                     subset |-> vecs[v].subset \/ picked # <<>>]
  <2>1. /\ vecs' = Append(vecs, vec) /\ infos' = infos \union {l}
        /\ UNCHANGED <<frame, errors, stack>>
    BY <1>12 DEF Make
  <2>2. vec.info = l /\ vec.subset \in BOOLEAN
    OBVIOUS
  <2> HIDE DEF vec
  <2>3. /\ Len(vecs) \in Nat /\ DOMAIN vecs = 1 .. Len(vecs)
        /\ DOMAIN vecs' = 1 .. l /\ vecs'[l] = vec
        /\ \A u \in 1 .. Len(vecs) : vecs'[u] = vecs[u]
    BY <2>1, AppendFacts DEF TypeInv, ValuesInv, CompleteInv, ColumnsWhole
  <2>4. ASSUME NEW u \in DOMAIN vecs' PROVE vecs'[u].info \in Nat /\ vecs'[u].subset \in BOOLEAN
    <3>1. CASE u = l
      BY <2>2, <2>3, <3>1
    <3>2. CASE u \in 1 .. Len(vecs)
      BY <2>3, <3>2 DEF TypeInv, Numbered
    <3>3. QED  BY <2>3, <3>1, <3>2
  <2>5. DOMAIN vecs \subseteq DOMAIN vecs' /\ infos' \subseteq DOMAIN vecs'
    BY <2>1, <2>3 DEF TypeInv, Numbered
  <2>6. QED  BY <1>1, <2>1, <2>4, <2>5 DEF Numbered
<1>13. ASSUME NEW v \in used, Duplicate(v) \/ \E picked : ExtractSubset(v, picked)
       PROVE  Numbered'
  BY <1>12, <1>13 DEF Duplicate, ExtractSubset
<1>14. ASSUME NEW v \in used, (\E k : EltStored(v, k)) \/ DataptrStored(v) \/ Collect(v)
       PROVE  Numbered'
  BY <1>4, <1>14 DEF EltStored, DataptrStored, Collect
<1>15. CASE ReturnElt \/ Store \/ Finish \/ HandlerReturns \/ HandlerLeaves
  <2>1. stack # <<>>
    BY <1>15 DEF ReturnElt, Store, Finish, HandlerReturns, HandlerLeaves, Top, Warning
  <2>2. /\ UNCHANGED <<frame, vecs, errors>> /\ infos' \subseteq infos
        /\ stack' \in {Front(stack), <<>>}
    BY <1>15 DEF ReturnElt, Store, Finish, HandlerReturns, HandlerLeaves
  <2>3. QED  BY <1>5, <2>1, <2>2
<1>16. CASE UNCHANGED vars
  BY <1>4, <1>16 DEF vars
<1>17. QED
  BY <1>7, <1>8, <1>9, <1>10, <1>11, <1>13, <1>14, <1>15, <1>16 DEF Next, RCode

(* Nothing that is read, made, dropped or reported is out of its range: in  *)
(* particular a bad cell is reported for a row of the data frame.          *)
THEOREM TypeCorrect == Spec => []TypeOK
<1>1. Init => TypeInv
  <2> SUFFICES ASSUME Init PROVE Numbered
    BY InitValuesInv, InitWarnInv DEF TypeInv
  <2>1. ValuesInv /\ Columns \subseteq Nat
    BY InitValuesInv, ColumnNumbers DEF ValuesInv
  <2>2. \A c \in Columns : vecs[c].info = c /\ vecs[c].subset = FALSE
    BY DEF Init, Made
  <2>3. DOMAIN vecs = Columns /\ infos \subseteq Columns /\ DOMAIN stack = {}
    BY DEF Init
  <2>4. ASSUME NEW c \in Columns
        PROVE  BadCells(frame.columns[c], 1 .. frame.rows) \subseteq (1 .. frame.rows) \X Nat
    <3>1. Column(vecs[c]) = frame.columns[c] /\ frame.rows \in Nat \ {0} /\ c \in DOMAIN vecs
      BY <2>1, ColumnFacts DEF ValuesInv
    <3>2. frame.columns[c].number \in Nat
      <4>1. 1 \in 1 .. frame.rows
        BY <3>1
      <4>2. QED  BY <2>1, <3>1, <4>1, ValueType
    <3>3. QED  BY <3>2 DEF BadCells
  <2>5. Ragged \subseteq (1 .. frame.rows) \X Nat
    BY FramesAssumption DEF Init, Ragged
  <2>6. errors \subseteq (1 .. frame.rows) \X Nat
    BY <2>4, <2>5 DEF Init, Eager
  <2>7. QED  BY <2>1, <2>2, <2>3, <2>6 DEF Numbered
<1>2. TypeInv /\ [Next]_vars => TypeInv'
  BY NextValuesInv, NextWarnInv, NextNumbered DEF TypeInv
<1>3. QED  BY <1>1, <1>2, TypeInvType, PTL DEF Spec

=============================================================================
