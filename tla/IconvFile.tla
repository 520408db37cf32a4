------------------------------ MODULE IconvFile ------------------------------
(***************************************************************************)
(* A file whose encoding is not a superset of ASCII (UTF-16, UTF-32) is    *)
(* converted to UTF-8 before it is indexed: reencode_file() in R/path.R    *)
(* and convert_connection() in src/iconv_file.cc, which works block by     *)
(* block and carries what is left of a character to the next block.        *)
(*                                                                         *)
(* A byte is a character and which of its bytes it is; what the bytes are  *)
(* in either encoding is left out, but for how many there are.             *)
(***************************************************************************)
EXTENDS Integers, Sequences, SequencesExt

CONSTANTS
  Calls,      \* the calls: the file, whether iconv knows its encoding, and
              \* which of the connections are open already
  Character,  \* the characters
  Width,      \* how many bytes each of them has in the file
  Utf8Width,  \* and in UTF-8
  BufSize     \* VROOM_BUFSIZ

Byte == [of : Character, nth : Nat]

ASSUME CallsAssumption ==
  Calls \subseteq [file : Seq(Byte), known : BOOLEAN, in_open : BOOLEAN, out_open : BOOLEAN]

(* No character is wider than four bytes, in either encoding, or than the   *)
(* buffer.                                                                 *)
ASSUME WidthAssumption ==
  /\ Character # {}
  /\ Width \in [Character -> 1 .. 4]
  /\ Utf8Width \in [Character -> 1 .. 4]

ASSUME BufferAssumption == BufSize \in Nat /\ \A c \in Character : Width[c] < BufSize

VARIABLES
  call,      \* the arguments; they never change
  pc,        \* "open", "loop", "done" or "error"
  in_con, out_con, \* whether the connections are open
  cd,        \* the converter is open
  at,        \* how many bytes of the file have been read
  inbuf,     \* the input buffer
  insize,    \* how many bytes at its beginning are in use
  written    \* what has been written, a sequence of characters

vars == <<call, pc, in_con, out_con, cd, at, inbuf, insize, written>>

----------------------------------------------------------------------------
(* iconv()                                                                 *)

IsLast(byte) == byte.nth = Width[byte.of]

(* Byte i of s goes on with what the bytes before it began. *)
Fits(s, i) ==
  IF i = 1 \/ IsLast(s[i - 1])
  THEN s[i].nth = 1
  ELSE s[i] = [s[i - 1] EXCEPT !.nth = @ + 1]

(* How many bytes iconv() leaves: it stops at the first byte that does not  *)
(* fit, and at the beginning of a character that is not whole.             *)
Left(s) ==
  LET stops == {k \in 0 .. Len(s) :
                  /\ \A i \in 1 .. (Len(s) - k) : Fits(s, i)
                  /\ k = Len(s) \/ IsLast(s[Len(s) - k])}
  IN  CHOOSE k \in stops : \A m \in stops : k <= m

(* The characters that end in the first n bytes of s. *)
Characters(s) ==
  LET characters[n \in 0 .. Len(s)] ==
        IF n = 0 THEN <<>>
        ELSE IF IsLast(s[n]) THEN Append(characters[n - 1], s[n].of)
        ELSE characters[n - 1]
  IN  characters

(* The characters of s. *)
Decoded(s) == Characters(s)[Len(s) - Left(s)]

(* What the first n of some characters take in UTF-8 *)
Utf8Sizes(characters) ==
  LET size[n \in 0 .. Len(characters)] ==
        IF n = 0 THEN 0 ELSE size[n - 1] + Utf8Width[characters[n]]
  IN  size

Utf8Size(characters) == Utf8Sizes(characters)[Len(characters)]

(* What iconv() returns when there is room for avail bytes. *)
Riconv(s, avail) ==
  IF Utf8Size(Decoded(s)) > avail THEN "E2BIG"
  ELSE IF \E i \in 1 .. Len(s) : ~Fits(s, i) THEN "EILSEQ"
  ELSE IF Left(s) > 0 THEN "EINVAL"
  ELSE "OK"

----------------------------------------------------------------------------
(* The function.                                                           *)

(* What is on the stack; no character begins with it. *)
Garbage == [of |-> CHOOSE c \in Character : TRUE, nth |-> 0]

Init ==
  /\ call \in Calls
  /\ pc = "open"
  /\ in_con = call.in_open /\ out_con = call.out_open
  /\ cd = FALSE
  /\ at = 0
  /\ inbuf = [i \in 1 .. BufSize |-> Garbage]
  /\ insize = 0
  /\ written = <<>>

(* The connections that were opened here are closed. *)
Close ==
  /\ in_con' = call.in_open
  /\ out_con' = call.out_open

(* The connections and the converter are opened; an encoding that iconv     *)
(* does not know is an error.                                              *)
Open ==
  /\ pc = "open"
  /\ IF call.known
     THEN pc' = "loop" /\ cd' = TRUE /\ in_con' = TRUE /\ out_con' = TRUE
     ELSE pc' = "error" /\ cd' = FALSE /\ Close
  /\ UNCHANGED <<call, at, inbuf, insize, written>>

(* memcpy() and memmove() of some values into memory *)
Copied(values, memory) ==
  [k \in DOMAIN values \union DOMAIN memory |->
     IF k \in DOMAIN values THEN values[k] ELSE memory[k]]

(* inbuf after nread bytes have been read behind those in use *)
Filled(nread) ==
  Copied([i \in (insize + 1) .. (insize + nread) |-> call.file[at + i - insize]], inbuf)

(* memmove() of the last left bytes of the first n to the front *)
Moved(buffer, n, left) == Copied([i \in 1 .. left |-> buffer[n - left + i]], buffer)

(* A mistake: the bytes in use are not taken off the size of the buffer. *)
Reads_SizeOfBuffer ==
  LET rest == Len(call.file) - at
  IN  1 .. (IF BufSize < rest THEN BufSize ELSE rest)

(* What a read may return: a connection may have less at hand. *)
Reads ==
  LET room == BufSize - insize
      rest == Len(call.file) - at
  IN  1 .. (IF room < rest THEN room ELSE rest)

(* A mistake: no more room for the output than for the input. *)
Avail_Input == BufSize

(* The room in wrbuf: a byte never becomes more than four. *)
Avail == 4 * BufSize

(* A mistake: the bytes of a character that is not whole are not kept. *)
Convert_NotMoved ==
  /\ pc = "loop"
  /\ \E nread \in Reads : \E buffer \in {Filled(nread)} :
       LET n == insize + nread
           s == SubSeq(buffer, 1, n)
       IN  /\ Riconv(s, Avail) \in {"OK", "EINVAL"}
           /\ inbuf' = buffer
           /\ insize' = Left(s)
           /\ at' = at + nread
           /\ written' = written \o Decoded(s)
           /\ UNCHANGED <<call, pc, in_con, out_con, cd>>

(* One block: read, convert, write, and keep what is not a whole character. *)
Convert ==
  /\ pc = "loop"
  /\ \E nread \in Reads : \E buffer \in {Filled(nread)} :
       LET n == insize + nread
           s == SubSeq(buffer, 1, n)
       IN  /\ Riconv(s, Avail) \in {"OK", "EINVAL"}
           /\ inbuf' = Moved(buffer, n, Left(s))
           /\ insize' = Left(s)
           /\ at' = at + nread
           /\ written' = written \o Decoded(s)
           /\ UNCHANGED <<call, pc, in_con, out_con, cd>>

(* A mistake: an error leaves the input open. *)
Fail_LeavesOpen ==
  /\ pc = "loop"
  /\ \E nread \in Reads : \E buffer \in {Filled(nread)} :
       /\ Riconv(SubSeq(buffer, 1, insize + nread), Avail) \in {"EILSEQ", "E2BIG"}
       /\ inbuf' = buffer
       /\ at' = at + nread
  /\ pc' = "error" /\ out_con' = call.out_open
  /\ UNCHANGED <<call, in_con, cd, insize, written>>

(* iconv() fails: the output is given up, and the converter is not closed. *)
Fail ==
  /\ pc = "loop"
  /\ \E nread \in Reads : \E buffer \in {Filled(nread)} :
       /\ Riconv(SubSeq(buffer, 1, insize + nread), Avail) \in {"EILSEQ", "E2BIG"}
       /\ inbuf' = buffer
       /\ at' = at + nread
  /\ pc' = "error" /\ Close
  /\ UNCHANGED <<call, cd, insize, written>>

(* A read of nothing ends the loop.  The bytes that are still in use are    *)
(* dropped, without an error.                                              *)
Finish ==
  /\ pc = "loop" /\ Reads = {}
  /\ pc' = "done" /\ Close
  /\ cd' = FALSE
  /\ UNCHANGED <<call, at, inbuf, insize, written>>

Done == pc \in {"done", "error"} /\ UNCHANGED vars

Next == Open \/ Convert \/ Fail \/ Finish \/ Done

(* One thread runs the function to its end. *)
Spec == Init /\ [][Next]_vars /\ WF_vars(Next)

----------------------------------------------------------------------------
(* Properties.                                                             *)

(* Type invariant: a read stays within the buffer. *)
TypeOK ==
  /\ call \in Calls
  /\ pc \in {"open", "loop", "done", "error"}
  /\ in_con \in BOOLEAN /\ out_con \in BOOLEAN /\ cd \in BOOLEAN
  /\ at \in 0 .. Len(call.file)
  /\ inbuf \in [1 .. BufSize -> Byte]
  /\ insize \in 0 .. BufSize
  /\ written \in Seq(Character)

(* The bytes in use are always the last ones that were read: what is left   *)
(* of one block is in front of the next.                                   *)
KeepsWhatIsLeft ==
  pc # "error" =>
    /\ insize <= at
    /\ \A i \in 1 .. insize : inbuf[i] = call.file[at - insize + i]

(* Every byte that was read is either in use or was written as part of a    *)
(* character, whatever the sizes of the blocks, and an unknown encoding, or *)
(* a byte that belongs to no character, is what errors are for: the output  *)
(* buffer is never too small.  It implements Conversion.                    *)
Output == INSTANCE Conversion WITH
  characters <- Decoded(call.file),
  valid <- call.known /\ \A i \in 1 .. Len(call.file) : Fits(call.file, i),
  text <- written,
  result <- IF pc \in {"open", "loop"} THEN "none" ELSE pc

ConvertsTheFile == Output!Spec

(* However the function ends, connections that the caller had opened are    *)
(* still open, and those that it opened are closed.                        *)
ConnectionsAsFound ==
  pc \in {"done", "error"} => in_con = call.in_open /\ out_con = call.out_open

=============================================================================
