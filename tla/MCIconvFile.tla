---------------------------- MODULE MCIconvFile ----------------------------
(***************************************************************************)
(* Small instances of IconvFile: files of up to MaxLength characters, cut  *)
(* anywhere, some with a byte that belongs to no character.                *)
(***************************************************************************)
EXTENDS IconvFile

CONSTANT MaxLength

(* Characters of two and four bytes, as in UTF-16. *)
Chars == {"narrow", "wide", "cjk"}

Widths == [c \in Chars |-> IF c = "wide" THEN 4 ELSE 2]

Utf8Widths == [narrow |-> 1, wide |-> 4, cjk |-> 3]

Bytes(text) ==
  FlattenSeq([j \in 1 .. Len(text) |->
                [k \in 1 .. Widths[text[j]] |-> [of |-> text[j], nth |-> k]]])

Texts == UNION {[1 .. n -> Chars] : n \in 0 .. MaxLength}

WholeFiles == {Bytes(text) : text \in Texts}

(* The last character may lack bytes, and some byte may be wrong. *)
CutFiles == {SubSeq(f, 1, Len(f) - 1) : f \in WholeFiles \ {<<>>}}

WrongFiles ==
  UNION {{[f EXCEPT ![i] = [@ EXCEPT !.nth = 4 - @]] : i \in DOMAIN f} :
           f \in {Bytes(text) : text \in [1 .. 3 -> {"narrow", "wide"}]}}

AllCalls ==
  [file : WholeFiles \union CutFiles \union WrongFiles,
   known : {TRUE}, in_open : BOOLEAN, out_open : {FALSE}]
  \union [file : WholeFiles, known : {FALSE}, in_open : BOOLEAN, out_open : BOOLEAN]
=============================================================================
