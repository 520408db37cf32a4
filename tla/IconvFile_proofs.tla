-------------------------- MODULE IconvFile_proofs --------------------------
(***************************************************************************)
(* Proofs about IconvFile, for all files, encodings and sizes of blocks:   *)
(* what is left of one block is in front of the next, connections are left *)
(* as they were found, and every step is one of Conversion or not seen     *)
(* from outside.                                                           *)
(***************************************************************************)
EXTENDS IconvFile, LeastElements, TLAPS

(* The types of what holds the input. *)
InputOK ==
  /\ call \in Calls
  /\ at \in 0 .. Len(call.file)
  /\ inbuf \in [1 .. BufSize -> Byte]
  /\ insize \in 0 .. BufSize

(* The inductive invariant. *)
IInv == InputOK /\ KeepsWhatIsLeft

(* The file of a call is a sequence of bytes. *)
LEMMA FileType == InputOK => call.file \in Seq(Byte) /\ Len(call.file) \in Nat
BY CallsAssumption DEF InputOK

(* iconv() leaves no more bytes than there are. *)
LEMMA LeftInSequence ==
  ASSUME NEW s \in Seq(Byte)
  PROVE  Left(s) \in 0 .. Len(s)
<1> DEFINE stops == {k \in 0 .. Len(s) :
                       /\ \A i \in 1 .. (Len(s) - k) : Fits(s, i)
                       /\ k = Len(s) \/ IsLast(s[Len(s) - k])}
<1>1. Len(s) \in Nat
  OBVIOUS
<1>2. Len(s) \in stops
  BY <1>1
<1>3. stops \subseteq Nat /\ stops # {}
  BY <1>1, <1>2
<1>4. \E k \in stops : \A m \in stops : k <= m
  BY <1>3, LeastElement
<1>5. Left(s) \in stops
  BY <1>4 DEF Left
<1>6. QED  BY <1>5

(* A read is of bytes that are there, and fits into the buffer. *)
LEMMA ReadFits ==
  ASSUME InputOK, NEW nread \in Reads
  PROVE  /\ nread \in Nat /\ nread > 0
         /\ at + nread \in 0 .. Len(call.file)
         /\ insize + nread \in 0 .. BufSize
<1>1. Len(call.file) \in Nat /\ BufSize \in Nat /\ at \in Nat /\ insize \in Nat
  BY FileType, BufferAssumption DEF InputOK
<1>2. at <= Len(call.file) /\ insize <= BufSize
  BY <1>1 DEF InputOK
<1>3. QED  BY <1>1, <1>2 DEF Reads

(* After a read the bytes in use are the last ones of the file that were    *)
(* read, those from the read included.                                     *)
LEMMA FilledWindow ==
  ASSUME IInv, pc = "loop", NEW nread \in Reads
  PROVE  /\ Filled(nread) \in [1 .. BufSize -> Byte]
         /\ insize + nread <= at + nread
         /\ \A i \in 1 .. (insize + nread) :
              Filled(nread)[i] = call.file[at + nread - (insize + nread) + i]
<1>1. /\ nread \in Nat /\ nread > 0 /\ at + nread \in 0 .. Len(call.file)
      /\ insize + nread \in 0 .. BufSize
  BY ReadFits DEF IInv
<1>2. Len(call.file) \in Nat /\ BufSize \in Nat /\ at \in Nat /\ insize \in Nat
  BY FileType, BufferAssumption DEF IInv, InputOK
<1>3. call.file \in Seq(Byte) /\ inbuf \in [1 .. BufSize -> Byte]
  BY FileType DEF IInv, InputOK
<1>4. insize <= at /\ \A i \in 1 .. insize : inbuf[i] = call.file[at - insize + i]
  BY DEF IInv, KeepsWhatIsLeft
<1>5. ASSUME NEW i \in 1 .. BufSize
      PROVE  Filled(nread)[i] \in Byte
  <2>1. CASE i \in (insize + 1) .. (insize + nread)
    <3>1. at + i - insize \in 1 .. Len(call.file)
      BY <1>1, <1>2, <2>1
    <3>2. QED  BY <1>3, <3>1, <2>1 DEF Filled, Copied
  <2>2. CASE i \notin (insize + 1) .. (insize + nread)
    BY <1>3, <2>2 DEF Filled, Copied
  <2>3. QED  BY <2>1, <2>2
<1>6. Filled(nread) \in [1 .. BufSize -> Byte]
  <2>1. (insize + 1) .. (insize + nread) \union 1 .. BufSize = 1 .. BufSize
    BY <1>1, <1>2
  <2>2. DOMAIN Filled(nread) = 1 .. BufSize
    BY <1>3, <2>1 DEF Filled, Copied
  <2>3. Filled(nread) = [i \in DOMAIN Filled(nread) |-> Filled(nread)[i]]
    BY DEF Filled, Copied
  <2>4. QED  BY <1>5, <2>2, <2>3
<1>7. ASSUME NEW i \in 1 .. (insize + nread)
      PROVE  Filled(nread)[i] = call.file[at + nread - (insize + nread) + i]
  <2>1. i \in 1 .. BufSize /\ at + nread - (insize + nread) + i = at - insize + i
    BY <1>1, <1>2
  <2>2. CASE i \in 1 .. insize
    <3>1. i \notin (insize + 1) .. (insize + nread)
      BY <1>1, <1>2, <2>2
    <3>2. Filled(nread)[i] = inbuf[i]
      BY <1>3, <2>1, <3>1 DEF Filled, Copied
    <3>3. QED  BY <1>4, <2>1, <2>2, <3>2
  <2>3. CASE i \notin 1 .. insize
    <3>1. i \in (insize + 1) .. (insize + nread) /\ at - insize + i = at + i - insize
      BY <1>1, <1>2, <2>3
    <3>2. QED  BY <2>1, <3>1 DEF Filled, Copied
  <2>4. QED  BY <2>2, <2>3
<1>8. QED  BY <1>1, <1>2, <1>4, <1>6, <1>7

(* Nothing is in use at first. *)
LEMMA InitIInv == Init => IInv
<1> SUFFICES ASSUME Init PROVE IInv
  OBVIOUS
<1>1. call \in Calls /\ at = 0 /\ insize = 0 /\ BufSize \in Nat
  BY BufferAssumption DEF Init
<1>2. call.file \in Seq(Byte)
  BY <1>1, CallsAssumption
<1>3. at \in 0 .. Len(call.file) /\ insize \in 0 .. BufSize
  BY <1>1, <1>2
<1>4. Garbage \in Byte
  BY WidthAssumption DEF Garbage, Byte
<1>5. inbuf \in [1 .. BufSize -> Byte]
  BY <1>4 DEF Init
<1>6. QED  BY <1>1, <1>3, <1>5 DEF IInv, InputOK, KeepsWhatIsLeft

(* A block leaves its last bytes at the beginning of the buffer. *)
LEMMA ConvertIInv == IInv /\ Convert => IInv'
<1> SUFFICES ASSUME IInv, Convert PROVE IInv'
  OBVIOUS
<1>1. PICK nread \in Reads :
        LET n == insize + nread
            s == SubSeq(Filled(nread), 1, n)
        IN  /\ inbuf' = Moved(Filled(nread), n, Left(s))
            /\ insize' = Left(s)
            /\ at' = at + nread
  BY DEF Convert
<1> DEFINE n == insize + nread
           s == SubSeq(Filled(nread), 1, n)
<1>2. pc = "loop" /\ pc' = pc /\ call' = call
  BY DEF Convert
<1>3. /\ nread \in Nat /\ n \in 0 .. BufSize /\ at + nread \in 0 .. Len(call.file)
  BY ReadFits DEF IInv
<1>4. BufSize \in Nat /\ Len(call.file) \in Nat /\ at \in Nat /\ insize \in Nat
  BY FileType, BufferAssumption DEF IInv, InputOK
<1>5. /\ Filled(nread) \in [1 .. BufSize -> Byte]
      /\ n <= at + nread
      /\ \A i \in 1 .. n : Filled(nread)[i] = call.file[at + nread - n + i]
  BY <1>2, FilledWindow
<1>6. s \in Seq(Byte) /\ Len(s) = n
  BY <1>3, <1>4, <1>5
<1> HIDE DEF s, n
<1>7. Left(s) \in 0 .. n
  BY <1>6, LeftInSequence
<1>8. inbuf' \in [1 .. BufSize -> Byte]
  <2>1. ASSUME NEW i \in 1 .. BufSize PROVE Moved(Filled(nread), n, Left(s))[i] \in Byte
    <3>1. i <= Left(s) => n - Left(s) + i \in 1 .. BufSize
      BY <1>3, <1>4, <1>7
    <3>2. QED  BY <1>5, <3>1 DEF Moved, Copied
  <2>2. Moved(Filled(nread), n, Left(s)) \in [1 .. BufSize -> Byte]
    <3>1. 1 .. Left(s) \union 1 .. BufSize = 1 .. BufSize
      BY <1>3, <1>4, <1>7
    <3>2. DOMAIN Moved(Filled(nread), n, Left(s)) = 1 .. BufSize
      BY <1>5, <3>1 DEF Moved, Copied
    <3> DEFINE M == Moved(Filled(nread), n, Left(s))
    <3>3. M = [i \in DOMAIN M |-> M[i]]
      BY DEF Moved, Copied
    <3>4. QED  BY <2>1, <3>2, <3>3
  <2>3. QED  BY <1>1, <2>2 DEF n, s
<1>9. at' = at + nread /\ insize' = Left(s) /\ inbuf' = Moved(Filled(nread), n, Left(s))
  BY <1>1 DEF n, s
<1>10. ASSUME NEW i \in 1 .. Left(s)
       PROVE  inbuf'[i] = call.file[at' - Left(s) + i]
  <2>1. i \in 1 .. BufSize /\ n - Left(s) + i \in 1 .. n
    BY <1>3, <1>4, <1>7
  <2>2. inbuf'[i] = Filled(nread)[n - Left(s) + i]
    BY <1>9, <2>1 DEF Moved, Copied
  <2>3. at + nread - n + (n - Left(s) + i) = at' - Left(s) + i
    BY <1>3, <1>4, <1>7, <1>9
  <2>4. QED  BY <1>5, <2>1, <2>2, <2>3
<1>11. insize' \in 0 .. BufSize /\ insize' <= at'
  BY <1>3, <1>4, <1>5, <1>7, <1>9
<1>12. call' \in Calls /\ at' \in 0 .. Len(call'.file)
  BY <1>2, <1>3, <1>9 DEF IInv, InputOK
<1>13. QED
  BY <1>2, <1>8, <1>9, <1>10, <1>11, <1>12 DEF IInv, InputOK, KeepsWhatIsLeft

(* The other actions leave the input alone, or end in an error. *)
LEMMA NextIInv == IInv /\ [Next]_vars => IInv'
<1> SUFFICES ASSUME IInv, [Next]_vars PROVE IInv'
  OBVIOUS
<1>1. CASE Convert
  BY <1>1, ConvertIInv
<1>2. CASE Fail
  <2>1. PICK nread \in Reads : inbuf' = Filled(nread) /\ at' = at + nread
    BY <1>2 DEF Fail
  <2>2. pc = "loop" /\ pc' = "error" /\ call' = call /\ insize' = insize
    BY <1>2 DEF Fail
  <2>3. Filled(nread) \in [1 .. BufSize -> Byte] /\ at + nread \in 0 .. Len(call.file)
    BY <2>2, FilledWindow, ReadFits DEF IInv
  <2>4. QED  BY <2>1, <2>2, <2>3 DEF IInv, InputOK, KeepsWhatIsLeft
<1>3. CASE Open \/ Finish \/ Done \/ UNCHANGED vars
  <2>1. call' = call /\ at' = at /\ inbuf' = inbuf /\ insize' = insize
    BY <1>3 DEF Open, Finish, Done, vars
  <2>2. pc' # "error" => pc # "error"
    BY <1>3 DEF Open, Finish, Done, vars
  <2>3. QED  BY <2>1, <2>2 DEF IInv, InputOK, KeepsWhatIsLeft
<1>4. QED  BY <1>1, <1>2, <1>3 DEF Next

(* Whatever the sizes of the reads and of the characters, a byte that was   *)
(* read is not overwritten in the buffer before it has been converted.     *)
THEOREM AlwaysKeepsWhatIsLeft == Spec => []KeepsWhatIsLeft
<1>1. Init => IInv
  BY InitIInv
<1>2. IInv /\ [Next]_vars => IInv'
  BY NextIInv
<1>3. IInv => KeepsWhatIsLeft
  BY DEF IInv
<1>4. QED  BY <1>1, <1>2, <1>3, PTL DEF Spec

(* Whichever way the function ends, and wherever it fails, it leaves the    *)
(* connections as the caller had them.                                     *)
THEOREM ConnectionsAlwaysAsFound == Spec => []ConnectionsAsFound
<1>1. Init => ConnectionsAsFound
  BY DEF Init, ConnectionsAsFound
<1>2. ConnectionsAsFound /\ [Next]_vars => ConnectionsAsFound'
  <2> SUFFICES ASSUME ConnectionsAsFound, [Next]_vars PROVE ConnectionsAsFound'
    OBVIOUS
  <2>1. CASE Open \/ Fail \/ Finish
    BY <2>1 DEF Open, Fail, Finish, Close, ConnectionsAsFound
  <2>2. CASE Convert
    BY <2>2 DEF Convert, ConnectionsAsFound
  <2>3. CASE Done \/ UNCHANGED vars
    BY <2>3 DEF Done, vars, ConnectionsAsFound
  <2>4. QED  BY <2>1, <2>2, <2>3 DEF Next
<1>3. QED  BY <1>1, <1>2, PTL DEF Spec

----------------------------------------------------------------------------
(* What the converter makes of some bytes.                                 *)

(* Each byte is one of a character. *)
LEMMA PiecesOfCharacters ==
  ASSUME NEW s \in Seq(Byte)
  PROVE  \A n \in 1 .. Len(s) : s[n] \in Byte /\ s[n].of \in Character /\ s[n].nth \in Nat
<1>1. \A n \in 1 .. Len(s) : s[n] \in Byte
  OBVIOUS
<1>2. \A byte \in Byte : byte.of \in Character /\ byte.nth \in Nat
  BY DEF Byte
<1>3. QED  BY <1>1, <1>2

(* The characters that end in the first n bytes are those of the bytes      *)
(* before the n-th, and its own if it is the last of one.                  *)
LEMMA CharactersOf ==
  ASSUME NEW s \in Seq(Byte)
  PROVE  /\ Characters(s) \in [0 .. Len(s) -> Seq(Character)]
         /\ Characters(s)[0] = <<>>
         /\ \A n \in 1 .. Len(s) :
              Characters(s)[n] =
                IF IsLast(s[n]) THEN Append(Characters(s)[n - 1], s[n].of)
                ELSE Characters(s)[n - 1]
<1> DEFINE N == Len(s)
           S == Seq(Character)
           step(n, before) == IF IsLast(s[n]) THEN Append(before, s[n].of) ELSE before
           Body(f) == [n \in 0 .. N |->
                         IF n = 0 THEN <<>>
                         ELSE IF IsLast(s[n]) THEN Append(f[n - 1], s[n].of)
                         ELSE f[n - 1]]
           run == CHOOSE f : f = Body(f)
<1>1. Characters(s) = run
  BY DEF Characters
<1>2. N \in Nat /\ <<>> \in S
  OBVIOUS
<1>3. \A n \in 1 .. N : s[n].of \in Character
  BY PiecesOfCharacters
<1>4. \A n \in 1 .. N, before \in S : step(n, before) \in S
  BY <1>3
<1>5. \A f : \A n \in 0 .. N :
        Body(f)[n] = IF n = 0 THEN <<>> ELSE step(n, f[n - 1])
  OBVIOUS
<1> HIDE DEF N, S, step
<1>6. \E f : f = Body(f)
  <2> DEFINE next == [x \in (1 .. N) \X S |-> step(x[1], x[2])]
  <2>1. next \in [(1 .. N) \X S -> S]
    BY <1>4
  <2>2. PICK f \in [0 .. N -> S] :
          f[0] = <<>> /\ \A n \in 1 .. N : f[n] = next[<<n, f[n - 1]>>]
    <3> HIDE DEF next
    <3>1. Iterations(N, S, <<>>, next) # {}
      BY <1>2, <2>1, Recursion
    <3>2. QED  BY <3>1 DEF Iterations
  <2>3. \A n \in 1 .. N : f[n] = step(n, f[n - 1])
    <3> SUFFICES ASSUME NEW n \in 1 .. N PROVE f[n] = step(n, f[n - 1])
      OBVIOUS
    <3>1. n - 1 \in 0 .. N
      BY <1>2
    <3>2. f[n - 1] \in S
      BY <2>2, <3>1
    <3>3. next[<<n, f[n - 1]>>] = step(n, f[n - 1])
      BY <3>2
    <3>4. QED  BY <2>2, <3>3
  <2> HIDE DEF Body
  <2>4. \A n \in 0 .. N : f[n] = Body(f)[n]
    <3> SUFFICES ASSUME NEW n \in 0 .. N PROVE f[n] = Body(f)[n]
      OBVIOUS
    <3>1. CASE n = 0
      BY <1>5, <2>2, <3>1
    <3>2. CASE n # 0
      <4>1. n \in 1 .. N
        BY <1>2, <3>2
      <4>2. QED  BY <1>5, <2>3, <3>2, <4>1
    <3>3. QED  BY <3>1, <3>2
  <2>5. f = [n \in 0 .. N |-> f[n]] /\ Body(f) = [n \in 0 .. N |-> Body(f)[n]]
    BY <2>2 DEF Body
  <2>6. f = Body(f)
    BY <2>4, <2>5
  <2>7. QED  BY <2>6
<1>7. run = Body(run)
  BY <1>6
<1>8. DOMAIN run = 0 .. N /\ run = [n \in 0 .. N |-> run[n]]
  <2>1. \A f : DOMAIN Body(f) = 0 .. N /\ Body(f) = [n \in 0 .. N |-> Body(f)[n]]
    OBVIOUS
  <2> HIDE DEF Body, run
  <2>2. QED  BY <1>7, <2>1
<1> HIDE DEF Body, run
<1>9. run[0] = <<>> /\ \A n \in 1 .. N : run[n] = step(n, run[n - 1])
  <2>1. \A n \in 0 .. N : run[n] = IF n = 0 THEN <<>> ELSE step(n, run[n - 1])
    BY <1>5, <1>7
  <2>2. 0 \in 0 .. N /\ \A n \in 1 .. N : n \in 0 .. N /\ n # 0
    BY <1>2
  <2>3. QED  BY <2>1, <2>2
<1>10. \A n \in 0 .. N : run[n] \in S
  <2>1. run[0] \in S
    BY <1>2, <1>9
  <2>2. \A n \in 1 .. N : run[n - 1] \in S => run[n] \in S
    BY <1>4, <1>9
  <2>3. QED  BY <1>2, <2>1, <2>2, Iteration
<1>11. run \in [0 .. N -> S]
  BY <1>8, <1>10
<1>12. QED  BY <1>1, <1>9, <1>11 DEF N, S, step

(* A character is appended to a text at the end of its last part. *)
LEMMA AppendAtTheEnd ==
  ASSUME NEW x \in Seq(Character), NEW y \in Seq(Character), NEW e \in Character
  PROVE  Append(x \o y, e) = x \o Append(y, e)
<1>1. x \o y \in Seq(Character) /\ Append(y, e) \in Seq(Character)
  OBVIOUS
<1>2. /\ Len(Append(x \o y, e)) = Len(x) + Len(y) + 1
      /\ Len(x \o Append(y, e)) = Len(x) + Len(y) + 1
  OBVIOUS
<1>3. ASSUME NEW k \in 1 .. (Len(x) + Len(y) + 1)
      PROVE  Append(x \o y, e)[k] = (x \o Append(y, e))[k]
  OBVIOUS
<1>4. Append(x \o y, e) \in Seq(Character) /\ x \o Append(y, e) \in Seq(Character)
  BY <1>1
<1>5. \A t \in Seq(Character) : t = [k \in 1 .. Len(t) |-> t[k]]
  OBVIOUS
<1>6. PICK v, w \in Seq(Character) : v = Append(x \o y, e) /\ w = x \o Append(y, e)
  BY <1>4
<1>7. v = w
  BY <1>2, <1>3, <1>5, <1>6
<1>8. QED  BY <1>6, <1>7

(* There are no more of them than bytes. *)
LEMMA CharactersFit ==
  ASSUME NEW s \in Seq(Byte)
  PROVE  \A n \in 0 .. Len(s) : Len(Characters(s)[n]) \in 0 .. n
<1> DEFINE C == Characters(s)
           N == Len(s)
           T == {n \in 0 .. N : Len(C[n]) \in 0 .. n}
<1>1. /\ N \in Nat /\ C \in [0 .. N -> Seq(Character)] /\ C[0] = <<>>
      /\ \A n \in 1 .. N :
           C[n] = IF IsLast(s[n]) THEN Append(C[n - 1], s[n].of) ELSE C[n - 1]
  BY CharactersOf
<1>2. \A n \in 1 .. N : s[n].of \in Character
  BY PiecesOfCharacters
<1> HIDE DEF C, N
<1>3. 0 \in T
  <2>1. Len(<<>>) = 0 /\ 0 \in 0 .. N
    BY <1>1
  <2>2. QED  BY <1>1, <2>1
<1>4. ASSUME NEW n \in 1 .. N, n - 1 \in T PROVE n \in T
  <2>1. n - 1 \in 0 .. N /\ n \in 0 .. N
    BY <1>1
  <2>2. C[n - 1] \in Seq(Character) /\ Len(C[n - 1]) \in 0 .. (n - 1)
    BY <1>1, <1>4, <2>1
  <2>3. C[n] = C[n - 1] \/ C[n] = Append(C[n - 1], s[n].of)
    BY <1>1
  <2>4. Len(C[n]) \in {Len(C[n - 1]), Len(C[n - 1]) + 1}
    BY <1>2, <2>2, <2>3
  <2>5. PICK m \in 0 .. (n - 1) : m = Len(C[n - 1])
    BY <2>2
  <2>6. Len(C[n]) \in 0 .. n
    BY <2>4, <2>5
  <2>7. QED  BY <2>1, <2>6
<1> HIDE DEF T
<1>5. \A n \in 0 .. N : n \in T
  BY <1>1, <1>3, <1>4, UpTo
<1>6. QED  BY <1>5 DEF T, N, C

(* The characters of a piece of a file are those that the file has more at  *)
(* the end of the piece than at its beginning.                             *)
LEMMA CharactersOfPiece ==
  ASSUME NEW s \in Seq(Byte), NEW t \in Seq(Byte), NEW b \in Nat,
         b + Len(s) <= Len(t), \A i \in 1 .. Len(s) : s[i] = t[b + i]
  PROVE  \A n \in 0 .. Len(s) :
           Characters(t)[b + n] = Characters(t)[b] \o Characters(s)[n]
<1> DEFINE C == Characters(s)
           D == Characters(t)
           N == Len(s)
           T == {n \in 0 .. N : D[b + n] = D[b] \o C[n]}
<1>1. /\ N \in Nat /\ C \in [0 .. N -> Seq(Character)] /\ C[0] = <<>>
      /\ \A n \in 1 .. N :
           C[n] = IF IsLast(s[n]) THEN Append(C[n - 1], s[n].of) ELSE C[n - 1]
  BY CharactersOf
<1>2. /\ Len(t) \in Nat /\ D \in [0 .. Len(t) -> Seq(Character)]
      /\ \A n \in 1 .. Len(t) :
           D[n] = IF IsLast(t[n]) THEN Append(D[n - 1], t[n].of) ELSE D[n - 1]
  BY CharactersOf
<1>3. \A n \in 1 .. N : s[n] = t[b + n] /\ s[n].of \in Character
  BY PiecesOfCharacters
<1>4. N + b <= Len(t)
  OBVIOUS
<1> HIDE DEF C, D, N
<1>5. D[b] \in Seq(Character)
  <2>1. b \in 0 .. Len(t)
    BY <1>1, <1>2, <1>4
  <2>2. QED  BY <1>2, <2>1
<1>6. 0 \in T
  <2>1. \A S : \A x \in Seq(S) : x \o <<>> = x
    OBVIOUS
  <2>2. D[b] \o <<>> = D[b] /\ b + 0 = b /\ 0 \in 0 .. N
    BY <1>1, <1>5, <2>1
  <2>3. D[b + 0] = D[b] \o C[0]
    BY <1>1, <2>2
  <2>4. QED  BY <2>2, <2>3
<1>7. ASSUME NEW n \in 1 .. N, n - 1 \in T PROVE n \in T
  <2>1. n - 1 \in 0 .. N /\ n \in 0 .. N /\ b + n \in 1 .. Len(t) /\ b + n - 1 = b + (n - 1)
    BY <1>1, <1>2, <1>4
  <2>2. D[b + n - 1] = D[b] \o C[n - 1] /\ C[n - 1] \in Seq(Character)
    BY <1>1, <1>7, <2>1
  <2>3. CASE IsLast(s[n])
    <3>1. C[n] = Append(C[n - 1], s[n].of)
      BY <1>1, <2>3
    <3>2. IsLast(t[b + n]) /\ t[b + n].of = s[n].of
      BY <1>3, <2>3
    <3>3. D[b + n] = Append(D[b + n - 1], s[n].of)
      <4>1. PICK m \in 1 .. Len(t) : m = b + n
        BY <2>1
      <4>2. D[m] = Append(D[m - 1], t[m].of)
        BY <1>2, <3>2, <4>1
      <4>3. QED  BY <3>2, <4>1, <4>2
    <3>4. s[n].of \in Character
      BY <1>3
    <3>5. PICK e \in Character : e = s[n].of
      BY <3>4
    <3>6. Append(D[b] \o C[n - 1], e) = D[b] \o Append(C[n - 1], e)
      <4>1. C[n - 1] \in Seq(Character)
        BY <2>2
      <4>2. QED  BY <1>5, <3>5, <4>1, AppendAtTheEnd, Zenon
    <3>7. D[b + n] = D[b] \o C[n]
      BY <2>2, <3>1, <3>3, <3>5, <3>6
    <3>8. QED  BY <2>1, <3>7
  <2>4. CASE ~IsLast(s[n])
    <3>1. C[n] = C[n - 1] /\ D[b + n] = D[b + n - 1]
      BY <1>1, <1>2, <1>3, <2>1, <2>4
    <3>2. QED  BY <2>1, <2>2, <3>1
  <2>5. QED  BY <2>3, <2>4
<1> HIDE DEF T
<1>8. \A n \in 0 .. N : n \in T
  BY <1>1, <1>6, <1>7, UpTo
<1>9. QED  BY <1>8 DEF T, C, D, N

(* No character ends where no byte is the last of one. *)
LEMMA CharactersWithin ==
  ASSUME NEW s \in Seq(Byte), NEW m \in 0 .. Len(s), NEW n \in m .. Len(s),
         \A i \in (m + 1) .. n : ~IsLast(s[i])
  PROVE  Characters(s)[n] = Characters(s)[m]
<1> DEFINE C == Characters(s)
           T == {k \in 0 .. (n - m) : C[m + k] = C[m]}
<1>1. \A k \in 1 .. Len(s) : ~IsLast(s[k]) => C[k] = C[k - 1]
  BY CharactersOf
<1>2. Len(s) \in Nat /\ n - m \in Nat /\ m \in Nat /\ n <= Len(s)
  OBVIOUS
<1> HIDE DEF C
<1>3. 0 \in T
  BY <1>2
<1>4. ASSUME NEW k \in 1 .. (n - m), k - 1 \in T PROVE k \in T
  <2>1. m + k \in 1 .. Len(s) /\ m + k \in (m + 1) .. n /\ m + k - 1 = m + (k - 1)
    BY <1>2
  <2>2. C[m + k] = C[m + k - 1]
    BY <1>1, <2>1
  <2>3. QED  BY <1>4, <2>1, <2>2
<1> HIDE DEF T
<1>5. \A k \in 0 .. (n - m) : k \in T
  BY <1>2, <1>3, <1>4, UpTo
<1>6. C[m + (n - m)] = C[m] /\ m + (n - m) = n
  BY <1>2, <1>5 DEF T
<1>7. QED  BY <1>6 DEF C

(* Where iconv() stops: after the bytes that fit and at the end of a        *)
(* character, as late as it can.                                           *)
LEMMA WhereItStops ==
  ASSUME NEW s \in Seq(Byte)
  PROVE  /\ \A i \in 1 .. (Len(s) - Left(s)) : Fits(s, i)
         /\ Left(s) = Len(s) \/ IsLast(s[Len(s) - Left(s)])
         /\ \A k \in 0 .. Len(s) :
              /\ \A i \in 1 .. (Len(s) - k) : Fits(s, i)
              /\ k = Len(s) \/ IsLast(s[Len(s) - k])
              => Left(s) <= k
<1> DEFINE stops == {k \in 0 .. Len(s) :
                       /\ \A i \in 1 .. (Len(s) - k) : Fits(s, i)
                       /\ k = Len(s) \/ IsLast(s[Len(s) - k])}
<1>1. Len(s) \in Nat
  OBVIOUS
<1>2. Len(s) \in stops
  BY <1>1
<1>3. stops \subseteq Nat /\ stops # {}
  BY <1>1, <1>2
<1>4. \E k \in stops : \A m \in stops : k <= m
  BY <1>3, LeastElement
<1>5. Left(s) \in stops /\ \A m \in stops : Left(s) <= m
  BY <1>4 DEF Left
<1>6. QED  BY <1>5

(* If all bytes fit, then those that it leaves are of a character that is   *)
(* not whole.                                                              *)
LEMMA LeavesNoCharacter ==
  ASSUME NEW s \in Seq(Byte), \A i \in 1 .. Len(s) : Fits(s, i),
         NEW j \in 1 .. Len(s), j > Len(s) - Left(s)
  PROVE  ~IsLast(s[j])
<1> SUFFICES ASSUME IsLast(s[j]) PROVE FALSE
  OBVIOUS
<1>1. Len(s) \in Nat /\ Left(s) \in 0 .. Len(s)
  BY LeftInSequence
<1>2. Len(s) - j \in 0 .. Len(s) /\ Len(s) - (Len(s) - j) = j
  BY <1>1
<1>3. PICK k \in 0 .. Len(s) : k = Len(s) - j
  BY <1>2
<1>4. /\ \A i \in 1 .. (Len(s) - k) : Fits(s, i)
      /\ IsLast(s[Len(s) - k])
  BY <1>1, <1>2, <1>3
<1>5. Left(s) <= k
  BY <1>4, WhereItStops
<1>6. QED  BY <1>1, <1>3, <1>5

(* A byte of a piece fits where it fits in the file, if the piece begins    *)
(* after a character.                                                      *)
LEMMA FitsInPiece ==
  ASSUME NEW s \in Seq(Byte), NEW t \in Seq(Byte), NEW b \in Nat,
         b + Len(s) <= Len(t), \A i \in 1 .. Len(s) : s[i] = t[b + i],
         b = 0 \/ IsLast(t[b]), NEW k \in 1 .. Len(s)
  PROVE  Fits(s, k) <=> Fits(t, b + k)
<1>1. s[k] = t[b + k]
  OBVIOUS
<1>2. CASE k = 1
  <2>1. b + k = 1 \/ IsLast(t[b + k - 1])
    <3>1. b + k = b + 1 /\ b + k - 1 = b
      BY <1>2
    <3>2. QED  BY <3>1
  <2>2. Fits(t, b + k) <=> t[b + k].nth = 1
    <3>1. \A i : i = 1 \/ IsLast(t[i - 1]) => (Fits(t, i) <=> t[i].nth = 1)
      BY DEF Fits
    <3>2. QED  BY <2>1, <3>1
  <2>3. Fits(s, k) <=> s[k].nth = 1
    BY <1>2 DEF Fits
  <2>4. QED  BY <1>1, <2>2, <2>3
<1>3. CASE k # 1
  <2>1. k - 1 \in 1 .. Len(s) /\ b + (k - 1) = b + k - 1 /\ b + k # 1
    BY <1>3
  <2>2. s[k - 1] = t[b + k - 1]
    BY <2>1
  <2>3. Fits(t, b + k) <=> IF IsLast(t[b + k - 1]) THEN t[b + k].nth = 1
                           ELSE t[b + k] = [t[b + k - 1] EXCEPT !.nth = @ + 1]
    <3>1. \A i : i # 1 => (Fits(t, i) <=> IF IsLast(t[i - 1]) THEN t[i].nth = 1
                                         ELSE t[i] = [t[i - 1] EXCEPT !.nth = @ + 1])
      BY DEF Fits
    <3>2. QED  BY <2>1, <3>1
  <2>4. Fits(s, k) <=> IF IsLast(s[k - 1]) THEN s[k].nth = 1
                       ELSE s[k] = [s[k - 1] EXCEPT !.nth = @ + 1]
    BY <1>3 DEF Fits
  <2>5. QED  BY <1>1, <2>2, <2>3, <2>4
<1>4. QED  BY <1>2, <1>3

(* What is left of a character is shorter than it, and so than the buffer.  *)
LEMMA LeftoverIsShort ==
  ASSUME NEW t \in Seq(Byte), NEW m \in Nat, NEW e \in m .. Len(t),
         \A i \in 1 .. e : Fits(t, i),
         m = 0 \/ IsLast(t[m]),
         \A i \in (m + 1) .. e : ~IsLast(t[i])
  PROVE  e - m < BufSize
<1> DEFINE T == {k \in 0 .. (e - m) :
                   k # 0 => t[m + k].nth = k /\ k < Width[t[m + k].of]}
<1>1. e - m \in Nat /\ Len(t) \in Nat /\ e \in Nat
  OBVIOUS
<1>2. \A c \in Character : Width[c] \in 1 .. 4 /\ Width[c] < BufSize
  BY WidthAssumption, BufferAssumption
<1>3. 0 \in T
  BY <1>1
<1>4. ASSUME NEW k \in 1 .. (e - m), k - 1 \in T PROVE k \in T
  <2>1. m + k \in 1 .. e /\ m + k \in (m + 1) .. e /\ m + k \in 1 .. Len(t)
    BY <1>1
  <2>2. Fits(t, m + k) /\ ~IsLast(t[m + k])
    BY <2>1
  <2>3. t[m + k].of \in Character
    BY <2>1, PiecesOfCharacters
  <2>4. t[m + k].nth = k /\ k - 1 < Width[t[m + k].of]
    <3>1. CASE k = 1
      <4>1. m + k = 1 \/ IsLast(t[m + k - 1])
        BY <3>1
      <4>2. QED  BY <1>2, <2>2, <2>3, <3>1, <4>1 DEF Fits
    <3>2. CASE k # 1
      <4>1. PICK j \in 1 .. (e - m) : j = k - 1
        BY <1>1, <3>2
      <4>2. t[m + j].nth = j /\ j < Width[t[m + j].of]
        BY <1>4, <4>1
      <4>3. m + j \in (m + 1) .. e /\ m + k - 1 = m + j /\ m + k # 1
        BY <1>1, <4>1
      <4>4. m + j \in 1 .. Len(t) /\ ~IsLast(t[m + j])
        BY <1>1, <4>3
      <4>5. t[m + k] = [t[m + j] EXCEPT !.nth = @ + 1]
        BY <2>2, <4>3, <4>4 DEF Fits
      <4>6. t[m + j] \in Byte
        BY <4>4, PiecesOfCharacters
      <4>7. \A byte \in Byte :
              /\ [byte EXCEPT !.nth = @ + 1].nth = byte.nth + 1
              /\ [byte EXCEPT !.nth = @ + 1].of = byte.of
        BY DEF Byte
      <4>8. t[m + k].nth = t[m + j].nth + 1 /\ t[m + k].of = t[m + j].of
        BY <4>5, <4>6, <4>7
      <4>9. QED  BY <4>1, <4>2, <4>8
    <3>3. QED  BY <3>1, <3>2
  <2>5. t[m + k].nth # Width[t[m + k].of]
    BY <2>2 DEF IsLast
  <2>6. QED  BY <1>2, <2>3, <2>4, <2>5
<1> HIDE DEF T
<1>5. e - m \in T
  <2>1. \A k \in 0 .. (e - m) : k \in T
    BY <1>1, <1>3, <1>4, UpTo
  <2>2. QED  BY <1>1, <2>1
<1>6. CASE e = m
  <2>1. PICK c \in Character : TRUE
    BY WidthAssumption
  <2>2. Width[c] \in 1 .. 4 /\ Width[c] < BufSize /\ e - m = 0
    BY <1>2, <1>6, <2>1
  <2>3. QED  BY <2>2, BufferAssumption
<1>7. CASE e # m
  <2>1. e - m < Width[t[e].of] /\ m + (e - m) = e
    BY <1>1, <1>5, <1>7 DEF T
  <2>2. t[e].of \in Character
    BY <1>1, <1>7, PiecesOfCharacters
  <2>3. QED  BY <1>1, <1>2, <2>1, <2>2, BufferAssumption
<1>8. QED  BY <1>6, <1>7

(* Every character of a text adds what it takes in UTF-8. *)
LEMMA Utf8SizesOf ==
  ASSUME NEW characters \in Seq(Character)
  PROVE  /\ Utf8Sizes(characters)[0] = 0
         /\ \A n \in 1 .. Len(characters) :
              Utf8Sizes(characters)[n]
                = Utf8Sizes(characters)[n - 1] + Utf8Width[characters[n]]
<1> DEFINE N == Len(characters)
           step(n, before) == before + Utf8Width[characters[n]]
           Body(f) == [n \in 0 .. N |->
                         IF n = 0 THEN 0 ELSE f[n - 1] + Utf8Width[characters[n]]]
           run == CHOOSE f : f = Body(f)
<1>1. Utf8Sizes(characters) = run
  BY DEF Utf8Sizes
<1>2. N \in Nat
  OBVIOUS
<1>3. \A n \in 1 .. N, before \in Nat : step(n, before) \in Nat
  <2>1. \A n \in 1 .. N : characters[n] \in Character
    OBVIOUS
  <2>2. \A n \in 1 .. N : Utf8Width[characters[n]] \in Nat
    BY <2>1, WidthAssumption
  <2>3. QED  BY <2>2
<1>4. \A f : \A n \in 0 .. N : Body(f)[n] = IF n = 0 THEN 0 ELSE step(n, f[n - 1])
  OBVIOUS
<1> HIDE DEF N, step
<1>5. \E f : f = Body(f)
  <2> DEFINE next == [x \in (1 .. N) \X Nat |-> step(x[1], x[2])]
  <2>1. next \in [(1 .. N) \X Nat -> Nat]
    BY <1>3
  <2>2. PICK f \in [0 .. N -> Nat] :
          f[0] = 0 /\ \A n \in 1 .. N : f[n] = next[<<n, f[n - 1]>>]
    <3> HIDE DEF next
    <3>1. Iterations(N, Nat, 0, next) # {}
      BY <1>2, <2>1, Recursion
    <3>2. QED  BY <3>1 DEF Iterations
  <2>3. \A n \in 1 .. N : f[n] = step(n, f[n - 1])
    <3> SUFFICES ASSUME NEW n \in 1 .. N PROVE f[n] = step(n, f[n - 1])
      OBVIOUS
    <3>1. n - 1 \in 0 .. N
      BY <1>2
    <3>2. f[n - 1] \in Nat
      BY <2>2, <3>1
    <3>3. next[<<n, f[n - 1]>>] = step(n, f[n - 1])
      BY <3>2
    <3>4. QED  BY <2>2, <3>3
  <2> HIDE DEF Body
  <2>4. \A n \in 0 .. N : f[n] = Body(f)[n]
    <3> SUFFICES ASSUME NEW n \in 0 .. N PROVE f[n] = Body(f)[n]
      OBVIOUS
    <3>1. CASE n = 0
      BY <1>4, <2>2, <3>1
    <3>2. CASE n # 0
      <4>1. n \in 1 .. N
        BY <1>2, <3>2
      <4>2. QED  BY <1>4, <2>3, <3>2, <4>1
    <3>3. QED  BY <3>1, <3>2
  <2>5. f = [n \in 0 .. N |-> f[n]] /\ Body(f) = [n \in 0 .. N |-> Body(f)[n]]
    BY <2>2 DEF Body
  <2>6. f = Body(f)
    BY <2>4, <2>5
  <2>7. QED  BY <2>6
<1>6. run = Body(run)
  BY <1>5
<1> HIDE DEF Body, run
<1>7. \A n \in 0 .. N : run[n] = IF n = 0 THEN 0 ELSE step(n, run[n - 1])
  BY <1>4, <1>6
<1>8. 0 \in 0 .. N /\ \A n \in 1 .. N : n \in 0 .. N /\ n # 0
  BY <1>2
<1>9. run[0] = 0 /\ \A n \in 1 .. N : run[n] = step(n, run[n - 1])
  BY <1>7, <1>8
<1>10. QED  BY <1>1, <1>9 DEF N, step

(* A character takes at most four bytes in UTF-8, ... *)
LEMMA Utf8SizeBound ==
  ASSUME NEW characters \in Seq(Character)
  PROVE  Utf8Size(characters) \in 0 .. (4 * Len(characters))
<1> DEFINE U == Utf8Sizes(characters)
           N == Len(characters)
           T == {n \in 0 .. N : U[n] \in 0 .. (4 * n)}
<1>1. U[0] = 0 /\ \A n \in 1 .. N : U[n] = U[n - 1] + Utf8Width[characters[n]]
  BY Utf8SizesOf
<1>2. N \in Nat /\ \A n \in 1 .. N : Utf8Width[characters[n]] \in 1 .. 4
  <2>1. \A n \in 1 .. N : characters[n] \in Character
    OBVIOUS
  <2>2. QED  BY <2>1, WidthAssumption
<1> HIDE DEF U, N
<1>3. 0 \in T
  BY <1>1, <1>2
<1>4. ASSUME NEW n \in 1 .. N, n - 1 \in T PROVE n \in T
  <2>1. PICK before \in 0 .. (4 * (n - 1)) : before = U[n - 1]
    BY <1>4
  <2>2. PICK width \in 1 .. 4 : width = Utf8Width[characters[n]]
    BY <1>2
  <2>3. U[n] = before + width
    BY <1>1, <2>1, <2>2
  <2>4. QED  BY <1>2, <2>3
<1> HIDE DEF T
<1>5. \A n \in 0 .. N : n \in T
  BY <1>2, <1>3, <1>4, UpTo
<1>6. N \in 0 .. N
  BY <1>2
<1>7. U[N] \in 0 .. (4 * N)
  BY <1>5, <1>6 DEF T
<1>8. QED  BY <1>7 DEF Utf8Size, U, N

(* ... and at least a byte in the file, so that the output buffer is never  *)
(* too small.                                                              *)
LEMMA RoomForTheOutput ==
  ASSUME NEW s \in Seq(Byte), Len(s) <= BufSize
  PROVE  Riconv(s, Avail) # "E2BIG"
<1>1. Len(s) \in Nat /\ Left(s) \in 0 .. Len(s) /\ BufSize \in Nat
  BY LeftInSequence, BufferAssumption
<1>2. Len(s) - Left(s) \in 0 .. Len(s)
  BY <1>1
<1>3. Decoded(s) \in Seq(Character) /\ Len(Decoded(s)) \in 0 .. (Len(s) - Left(s))
  BY <1>2, CharactersOf, CharactersFit DEF Decoded
<1>4. Utf8Size(Decoded(s)) \in 0 .. (4 * Len(Decoded(s)))
  BY <1>3, Utf8SizeBound
<1>5. PICK length \in 0 .. (Len(s) - Left(s)) : length = Len(Decoded(s))
  BY <1>3
<1>6. PICK size \in 0 .. (4 * length) : size = Utf8Size(Decoded(s))
  BY <1>4, <1>5
<1>7. length <= BufSize
  BY <1>1, <1>5
<1>8. ~(size > 4 * BufSize)
  BY <1>1, <1>7
<1>9. ~(Utf8Size(Decoded(s)) > Avail)
  BY <1>6, <1>8 DEF Avail
<1>10. QED  BY <1>9 DEF Riconv

----------------------------------------------------------------------------
(* The conversion.                                                         *)

(* As long as nothing is wrong, the bytes that were read fit.  Those not in *)
(* use are whole characters, all of which have been written, in their       *)
(* order, and no character ends within those in use.                       *)
Converted ==
  pc # "error" =>
    /\ \A k \in 1 .. at : Fits(call.file, k)
    /\ at = insize \/ IsLast(call.file[at - insize])
    /\ \A k \in (at - insize + 1) .. at : ~IsLast(call.file[k])
    /\ written = Characters(call.file)[at - insize]
    /\ pc # "open" => call.known

(* The inductive invariant. *)
ConvInv == TypeOK /\ KeepsWhatIsLeft /\ Converted

(* Nothing has been read or written at first. *)
LEMMA InitConvInv == Init => ConvInv
<1> SUFFICES ASSUME Init PROVE ConvInv
  OBVIOUS
<1>1. IInv
  BY InitIInv
<1>2. call \in Calls /\ call.file \in Seq(Byte)
  BY CallsAssumption DEF Init
<1>3. call.in_open \in BOOLEAN /\ call.out_open \in BOOLEAN
  BY <1>2, CallsAssumption
<1>4. \A S : <<>> \in Seq(S)
  OBVIOUS
<1>5. TypeOK
  BY <1>1, <1>3, <1>4 DEF Init, TypeOK, IInv, InputOK
<1>6. at = 0 /\ insize = 0 /\ written = <<>> /\ pc = "open"
  BY DEF Init
<1>7. Converted
  <2>1. Characters(call.file)[0] = <<>>
    BY <1>2, CharactersOf
  <2>2. 1 .. at = {} /\ (at - insize + 1) .. at = {} /\ at - insize = 0
    BY <1>6
  <2>3. QED  BY <1>6, <2>1, <2>2 DEF Converted
<1>8. QED  BY <1>1, <1>5, <1>7 DEF ConvInv, IInv

(* What a block is: the bytes in use and the next ones of the file. *)
LEMMA Block ==
  ASSUME ConvInv, pc = "loop", NEW nread \in Reads,
         NEW s, s = SubSeq(Filled(nread), 1, insize + nread)
  PROVE  /\ s \in Seq(Byte) /\ Len(s) = insize + nread /\ Len(s) <= BufSize
         /\ at - insize \in Nat /\ at - insize + Len(s) = at + nread
         /\ at + nread <= Len(call.file)
         /\ \A k \in 1 .. Len(s) : s[k] = call.file[at - insize + k]
         /\ \A k \in 1 .. Len(s) : Fits(s, k) <=> Fits(call.file, at - insize + k)
<1>1. IInv
  BY DEF ConvInv, IInv, TypeOK, InputOK
<1>2. /\ nread \in Nat /\ at + nread \in 0 .. Len(call.file)
      /\ insize + nread \in 0 .. BufSize
  BY <1>1, ReadFits DEF IInv
<1>3. /\ call.file \in Seq(Byte) /\ Len(call.file) \in Nat /\ BufSize \in Nat
      /\ at \in Nat /\ insize \in Nat /\ insize <= at
  BY <1>1, FileType, BufferAssumption DEF IInv, InputOK, ConvInv, KeepsWhatIsLeft
<1>4. /\ Filled(nread) \in [1 .. BufSize -> Byte]
      /\ \A k \in 1 .. (insize + nread) :
           Filled(nread)[k] = call.file[at + nread - (insize + nread) + k]
  BY <1>1, FilledWindow
<1>5. s \in Seq(Byte) /\ Len(s) = insize + nread
  BY <1>2, <1>3, <1>4
<1>6. \A k \in 1 .. Len(s) : s[k] = Filled(nread)[k]
  BY <1>2, <1>3, <1>4, <1>5
<1>7. \A k \in Int : at + nread - (insize + nread) + k = at - insize + k
  BY <1>2, <1>3
<1>8. \A k \in 1 .. Len(s) : s[k] = call.file[at - insize + k]
  BY <1>4, <1>5, <1>6, <1>7
<1>9. at - insize \in Nat /\ at - insize + Len(s) = at + nread
  BY <1>2, <1>3, <1>5
<1>10. at - insize = 0 \/ IsLast(call.file[at - insize])
  <2>1. at = insize => at - insize = 0
    BY <1>3
  <2>2. QED  BY <2>1 DEF ConvInv, Converted
<1>11. PICK b \in Nat : b = at - insize
  BY <1>9
<1>12. \A k \in 1 .. Len(s) : Fits(s, k) <=> Fits(call.file, b + k)
  <2>1. b + Len(s) <= Len(call.file) /\ \A k \in 1 .. Len(s) : s[k] = call.file[b + k]
    BY <1>2, <1>8, <1>9, <1>11
  <2>2. b = 0 \/ IsLast(call.file[b])
    BY <1>10, <1>11
  <2>3. QED  BY <1>3, <1>5, <2>1, <2>2, FitsInPiece
<1>13. QED  BY <1>2, <1>5, <1>8, <1>9, <1>11, <1>12

(* A block writes the characters that end in it, and keeps the rest. *)
LEMMA ConvertConverted == ConvInv /\ Convert => Converted' /\ TypeOK'
<1> SUFFICES ASSUME ConvInv, Convert PROVE Converted' /\ TypeOK'
  OBVIOUS
<1>1. PICK nread \in Reads :
        LET s == SubSeq(Filled(nread), 1, insize + nread)
        IN  /\ Riconv(s, Avail) \in {"OK", "EINVAL"}
            /\ insize' = Left(s)
            /\ at' = at + nread
            /\ written' = written \o Decoded(s)
  BY DEF Convert
<1>2. PICK s : s = SubSeq(Filled(nread), 1, insize + nread)
  OBVIOUS
<1>3. /\ Riconv(s, Avail) \in {"OK", "EINVAL"}
      /\ insize' = Left(s) /\ at' = at + nread /\ written' = written \o Decoded(s)
  BY <1>1, <1>2
<1>4. UNCHANGED <<call, pc, in_con, out_con, cd>> /\ pc = "loop"
  BY DEF Convert
<1>5. IInv'
  BY ConvertIInv DEF ConvInv, IInv, TypeOK, InputOK
<1>6. PICK t : t = call.file
  OBVIOUS
<1>7. t \in Seq(Byte) /\ Len(t) \in Nat
  BY <1>6, FileType DEF ConvInv, TypeOK, InputOK
<1>8. PICK b \in Nat : b = at - insize
  BY <1>2, <1>4, Block
<1>9. /\ s \in Seq(Byte) /\ Len(s) = insize + nread /\ b + Len(s) = at'
      /\ b + Len(s) <= Len(t)
      /\ \A k \in 1 .. Len(s) : s[k] = t[b + k]
      /\ \A k \in 1 .. Len(s) : Fits(s, k) <=> Fits(t, b + k)
  BY <1>2, <1>3, <1>4, <1>6, <1>8, Block
<1>10. /\ \A k \in 1 .. at : Fits(t, k)
       /\ written = Characters(t)[b]
       /\ call.known
       /\ b = 0 \/ IsLast(t[b])
  <2>1. at = insize => b = 0
    BY <1>8 DEF ConvInv, TypeOK
  <2>2. QED  BY <1>4, <1>6, <1>8, <2>1 DEF ConvInv, Converted
<1>11. at \in Nat /\ insize \in Nat /\ at >= b
  BY <1>8 DEF ConvInv, TypeOK
<1>12. \A k \in 1 .. Len(s) : Fits(s, k)
  BY <1>3 DEF Riconv
<1>13. PICK left \in 0 .. Len(s) : left = Left(s)
  BY <1>9, LeftInSequence
<1>14. PICK n \in 0 .. Len(s) : n = Len(s) - left
  BY <1>9, <1>13
<1>15. at' - insize' = b + n /\ Len(s) \in Nat
  BY <1>3, <1>9, <1>13, <1>14
<1>16. \A k \in 1 .. at' : Fits(t, k)
  <2> SUFFICES ASSUME NEW k \in 1 .. at' PROVE Fits(t, k)
    OBVIOUS
  <2>1. CASE k <= b
    BY <1>10, <1>11, <2>1
  <2>2. CASE ~(k <= b)
    <3>1. PICK j \in 1 .. Len(s) : k = b + j
      <4>1. k - b \in 1 .. Len(s) /\ k = b + (k - b)
        BY <1>9, <1>15, <2>2
      <4>2. QED  BY <4>1
    <3>2. QED  BY <1>9, <1>12, <3>1
  <2>3. QED  BY <2>1, <2>2
<1>17. at' = insize' \/ IsLast(t[at' - insize'])
  <2>1. left = Len(s) \/ IsLast(s[n])
    BY <1>9, <1>13, <1>14, WhereItStops
  <2>2. CASE n = 0
    <3>1. CASE b = 0
      <4>1. at' \in Nat /\ insize' \in Nat /\ at' - insize' = 0
        BY <1>3, <1>9, <1>13, <1>15, <2>2, <3>1
      <4>2. PICK x, y \in Nat : x = at' /\ y = insize'
        BY <4>1
      <4>3. x - y = 0
        BY <4>1, <4>2
      <4>4. x = y
        BY <4>3
      <4>5. QED  BY <4>2, <4>4
    <3>2. CASE b # 0
      BY <1>10, <1>15, <2>2, <3>2
    <3>3. QED  BY <3>1, <3>2
  <2>3. CASE n # 0
    <3>1. n \in 1 .. Len(s) /\ left # Len(s)
      BY <1>14, <1>15, <2>3
    <3>2. IsLast(s[n]) /\ s[n] = t[b + n]
      BY <1>9, <2>1, <3>1
    <3>3. QED  BY <1>15, <3>2
  <2>4. QED  BY <2>2, <2>3
<1>18. \A k \in (at' - insize' + 1) .. at' : ~IsLast(t[k])
  <2> SUFFICES ASSUME NEW k \in (b + n + 1) .. (b + Len(s)) PROVE ~IsLast(t[k])
    BY <1>9, <1>15
  <2>1. PICK j \in 1 .. Len(s) : k = b + j /\ j > Len(s) - left
    <3>1. k - b \in 1 .. Len(s) /\ k = b + (k - b) /\ k - b > Len(s) - left
      BY <1>13, <1>14, <1>15
    <3>2. QED  BY <3>1
  <2>2. ~IsLast(s[j])
    BY <1>9, <1>12, <1>13, <2>1, LeavesNoCharacter
  <2>3. QED  BY <1>9, <2>1, <2>2
<1>19. written' = Characters(t)[at' - insize']
  <2>1. Decoded(s) = Characters(s)[n]
    BY <1>13, <1>14 DEF Decoded
  <2>2. Characters(t)[b + n] = Characters(t)[b] \o Characters(s)[n]
    BY <1>7, <1>9, CharactersOfPiece
  <2>3. QED  BY <1>3, <1>10, <1>15, <2>1, <2>2
<1>20. Converted'
  BY <1>4, <1>6, <1>10, <1>16, <1>17, <1>18, <1>19 DEF Converted
<1>21. written' \in Seq(Character)
  <2>1. b + n \in 0 .. Len(t)
    BY <1>7, <1>9, <1>14, <1>15
  <2>2. Characters(t)[b + n] \in Seq(Character)
    BY <1>7, <2>1, CharactersOf
  <2>3. QED  BY <1>15, <1>19, <2>2
<1>22. TypeOK'
  BY <1>4, <1>5, <1>21 DEF ConvInv, TypeOK, IInv, InputOK
<1>23. QED  BY <1>20, <1>22

(* The other actions only begin, end or give up. *)
LEMMA NextConvInv == ConvInv /\ [Next]_vars => ConvInv'
<1> SUFFICES ASSUME ConvInv, [Next]_vars PROVE ConvInv'
  OBVIOUS
<1>1. IInv'
  BY NextIInv DEF ConvInv, IInv, TypeOK, InputOK
<1>2. call.in_open \in BOOLEAN /\ call.out_open \in BOOLEAN
  BY CallsAssumption DEF ConvInv, TypeOK
<1>3. CASE Convert
  BY <1>1, <1>3, ConvertConverted DEF ConvInv, IInv
<1>4. CASE Fail
  <2>1. pc' = "error" /\ Close /\ UNCHANGED <<call, cd, written>>
    BY <1>4 DEF Fail
  <2>2. Converted'
    BY <2>1 DEF Converted
  <2>3. TypeOK'
    BY <1>1, <1>2, <2>1 DEF ConvInv, TypeOK, IInv, InputOK, Close
  <2>4. QED  BY <1>1, <2>2, <2>3 DEF ConvInv, IInv
<1>5. CASE Open
  <2>1. UNCHANGED <<call, at, inbuf, insize, written>> /\ pc = "open"
    BY <1>5 DEF Open
  <2>2. pc' \in {"loop", "error"} /\ (pc' = "loop" => call.known)
    BY <1>5 DEF Open
  <2>3. cd' \in BOOLEAN /\ in_con' \in BOOLEAN /\ out_con' \in BOOLEAN
    BY <1>2, <1>5 DEF Open, Close
  <2>4. TypeOK'
    BY <2>1, <2>2, <2>3 DEF ConvInv, TypeOK
  <2>5. Converted'
    BY <2>1, <2>2 DEF ConvInv, Converted
  <2>6. QED  BY <1>1, <2>4, <2>5 DEF ConvInv, IInv
<1>6. CASE Finish
  <2>1. UNCHANGED <<call, at, inbuf, insize, written>> /\ pc = "loop"
    BY <1>6 DEF Finish
  <2>2. pc' = "done" /\ cd' = FALSE /\ Close
    BY <1>6 DEF Finish
  <2>3. TypeOK'
    BY <1>2, <2>1, <2>2 DEF ConvInv, TypeOK, Close
  <2>4. Converted'
    BY <2>1, <2>2 DEF ConvInv, Converted
  <2>5. QED  BY <1>1, <2>3, <2>4 DEF ConvInv, IInv
<1>7. CASE Done \/ UNCHANGED vars
  <2>1. UNCHANGED vars
    BY <1>7 DEF Done
  <2>2. QED  BY <2>1 DEF vars, ConvInv, TypeOK, KeepsWhatIsLeft, Converted
<1>8. QED  BY <1>3, <1>4, <1>5, <1>6, <1>7 DEF Next

(* For every file and size of the buffer and of the reads, no read goes     *)
(* beyond the buffer or the file, and what is written is characters.       *)
THEOREM TypeCorrect == Spec => []TypeOK
<1>1. ConvInv => TypeOK
  BY DEF ConvInv
<1>2. QED  BY <1>1, InitConvInv, NextConvInv, PTL DEF Spec

----------------------------------------------------------------------------
(* The conversion implements Conversion.                                   *)

(* A text is a prefix of what it is continued to. *)
LEMMA PrefixOfConcatenation ==
  ASSUME NEW x \in Seq(Character), NEW y \in Seq(Character)
  PROVE  IsPrefix(x, x \o y)
<1>1. Len(x) <= Len(x \o y) /\ SubSeq(x, 1, Len(x)) = SubSeq(x \o y, 1, Len(x))
  OBVIOUS
<1>2. QED  BY <1>1 DEF IsPrefix

(* The characters before a place that ends one, and after which none ends   *)
(* for a while, are the first ones of the file, and all of them if none     *)
(* ends until its end.                                                     *)
LEMMA BeginningOfTheText ==
  ASSUME NEW t \in Seq(Byte), NEW a \in 0 .. Len(t), NEW m \in 0 .. a,
         \A k \in 1 .. a : Fits(t, k),
         m = 0 \/ IsLast(t[m]),
         \A k \in (m + 1) .. a : ~IsLast(t[k])
  PROVE  /\ IsPrefix(Characters(t)[m], Decoded(t))
         /\ a = Len(t) => Characters(t)[m] = Decoded(t)
<1>1. Len(t) \in Nat /\ a \in Nat /\ a <= Len(t) /\ m \in Nat /\ m <= a
  OBVIOUS
<1>2. PICK left \in 0 .. Len(t) : left = Left(t)
  BY <1>1, LeftInSequence
<1>3. PICK n \in 0 .. Len(t) : n = Len(t) - left
  BY <1>1, <1>2
<1>4. Decoded(t) = Characters(t)[n]
  BY <1>2, <1>3 DEF Decoded
<1>5. m <= n
  <2>1. PICK k \in 0 .. Len(t) : k = Len(t) - m
    <3>1. Len(t) - m \in 0 .. Len(t)
      BY <1>1
    <3>2. QED  BY <3>1
  <2>2. Len(t) - k = m /\ (m = 0 => k = Len(t)) /\ \A j \in 1 .. m : j \in 1 .. a
    BY <1>1, <2>1
  <2>3. Left(t) <= k
    BY <1>1, <2>2, WhereItStops
  <2>4. QED  BY <1>1, <1>2, <1>3, <2>1, <2>3
<1>6. IsPrefix(Characters(t)[m], Decoded(t))
  <2> DEFINE s == SubSeq(t, m + 1, n)
  <2>1. s \in Seq(Byte) /\ Len(s) = n - m /\ \A k \in 1 .. Len(s) : s[k] = t[m + k]
    <3>1. m \in Nat /\ n \in Nat /\ n <= Len(t)
      BY <1>1, <1>3
    <3>2. \A k \in (m + 1) .. n : t[k] \in Byte
      BY <1>1, <3>1, PiecesOfCharacters
    <3>3. s \in Seq(Byte)
      BY <1>5, <3>1, <3>2
    <3>4. Len(s) = n - m
      BY <1>5, <3>1
    <3>5. \A k \in 1 .. (n - m) : s[k] = t[m + k]
      BY <1>5, <3>1
    <3>6. QED  BY <3>3, <3>4, <3>5
  <2> HIDE DEF s
  <2>2. m \in Nat /\ m + Len(s) <= Len(t) /\ Len(s) \in 0 .. Len(s) /\ m + Len(s) = n
    BY <1>1, <1>3, <1>5, <2>1
  <2>3. Characters(t)[n] = Characters(t)[m] \o Characters(s)[Len(s)]
    BY <1>1, <2>1, <2>2, CharactersOfPiece
  <2>4. Characters(t)[m] \in Seq(Character) /\ Characters(s)[Len(s)] \in Seq(Character)
    <3>1. m \in 0 .. Len(t)
      BY <1>1
    <3>2. QED  BY <1>1, <2>1, <2>2, <3>1, CharactersOf
  <2>5. QED  BY <1>4, <2>3, <2>4, PrefixOfConcatenation
<1>7. ASSUME a = Len(t) PROVE Characters(t)[m] = Decoded(t)
  <2>1. left # Len(t) => IsLast(t[n])
    BY <1>1, <1>2, <1>3, WhereItStops
  <2>2. n = m
    <3> SUFFICES ASSUME n > m PROVE FALSE
      BY <1>1, <1>3, <1>5
    <3>1. n \in (m + 1) .. a /\ left # Len(t)
      BY <1>1, <1>2, <1>3, <1>7
    <3>2. QED  BY <2>1, <3>1
  <2>3. QED  BY <1>4, <2>2
<1>8. QED  BY <1>6, <1>7

(* What has been written is the beginning of the characters of the file,    *)
(* and all of them when nothing is left to be read.                        *)
LEMMA WrittenIsPrefix ==
  ASSUME TypeOK, Converted, pc # "error", insize <= at
  PROVE  /\ IsPrefix(written, Decoded(call.file))
         /\ at = Len(call.file) => written = Decoded(call.file)
<1>1. PICK t : t = call.file
  OBVIOUS
<1>2. t \in Seq(Byte) /\ Len(t) \in Nat /\ at \in 0 .. Len(t) /\ insize \in Nat
  BY <1>1, CallsAssumption, BufferAssumption DEF TypeOK
<1>3. PICK m \in 0 .. at : m = at - insize
  BY <1>2
<1>4. /\ \A k \in 1 .. at : Fits(t, k)
      /\ m = 0 \/ IsLast(t[m])
      /\ \A k \in (m + 1) .. at : ~IsLast(t[k])
      /\ written = Characters(t)[m]
  <2>1. at = insize => m = 0
    BY <1>2, <1>3
  <2>2. QED  BY <1>1, <1>3, <2>1 DEF Converted
<1>5. QED  BY <1>1, <1>2, <1>3, <1>4, BeginningOfTheText

(* What Conversion shows of a state. *)
Shown ==
  <<Decoded(call.file), call.known /\ \A i \in 1 .. Len(call.file) : Fits(call.file, i),
    written, IF pc \in {"open", "loop"} THEN "none" ELSE pc>>

(* A block writes some of the characters, or nothing. *)
LEMMA ConvertRefines ==
  ASSUME ConvInv, ConvInv', Convert
  PROVE  Output!Write \/ UNCHANGED Shown
<1>1. PICK nread \in Reads :
        LET s == SubSeq(Filled(nread), 1, insize + nread)
        IN  Riconv(s, Avail) \in {"OK", "EINVAL"} /\ written' = written \o Decoded(s)
  BY DEF Convert
<1>2. call' = call /\ pc = "loop" /\ pc' = "loop"
  BY DEF Convert
<1>3. PICK s : /\ s = SubSeq(Filled(nread), 1, insize + nread)
               /\ written' = written \o Decoded(s)
  BY <1>1
<1>4. IsPrefix(written', Decoded(call.file))
  <2>1. PICK t : t = call.file
    OBVIOUS
  <2>2. insize' <= at' /\ insize' \in Nat /\ at' \in 0 .. Len(t) /\ t \in Seq(Byte)
    BY <1>2, <2>1, CallsAssumption, BufferAssumption DEF ConvInv, KeepsWhatIsLeft, TypeOK
  <2>3. PICK a \in 0 .. Len(t) : a = at'
    BY <2>2
  <2>4. PICK m \in 0 .. a : m = at' - insize' /\ (at' = insize' => m = 0)
    <3>1. PICK n \in Nat : n = insize'
      BY <2>2
    <3>2. n <= a
      BY <2>2, <2>3, <3>1
    <3>3. a - n \in 0 .. a /\ (a = n => a - n = 0)
      BY <2>2, <3>2
    <3>4. QED  BY <2>3, <3>1, <3>3
  <2>5. /\ \A k \in 1 .. a : Fits(t, k)
        /\ m = 0 \/ IsLast(t[m])
        /\ \A k \in (m + 1) .. a : ~IsLast(t[k])
        /\ written' = Characters(t)[m]
    BY <1>2, <2>1, <2>3, <2>4 DEF ConvInv, Converted
  <2>6. IsPrefix(Characters(t)[m], Decoded(t))
    BY <2>2, <2>5, BeginningOfTheText
  <2>7. QED  BY <2>1, <2>5, <2>6
<1>5. IsPrefix(written, written')
  <2>0. s \in Seq(Byte)
    BY <1>2, <1>3, Block
  <2>1. s \in Seq(Byte) /\ Len(s) \in Nat /\ Left(s) \in 0 .. Len(s)
    BY <2>0, LeftInSequence
  <2>2. Len(s) - Left(s) \in 0 .. Len(s)
    BY <2>1
  <2>3. Decoded(s) \in Seq(Character) /\ written \in Seq(Character)
    BY <2>1, <2>2, CharactersOf DEF Decoded, ConvInv, TypeOK
  <2>4. QED  BY <1>3, <2>3, PrefixOfConcatenation
<1>6. CASE written' = written
  BY <1>2, <1>6 DEF Shown
<1>7. CASE written' # written
  <2>1. (IF pc \in {"open", "loop"} THEN "none" ELSE pc) = "none"
    BY <1>2
  <2>2. UNCHANGED <<Decoded(call.file),
                    call.known /\ \A k \in 1 .. Len(call.file) : Fits(call.file, k),
                    IF pc \in {"open", "loop"} THEN "none" ELSE pc>>
    BY <1>2
  <2>3. Output!IsPrefix(written', Decoded(call.file))
    BY <1>4 DEF IsPrefix, Output!IsPrefix
  <2>4. Output!IsStrictPrefix(written, written')
    BY <1>5, <1>7 DEF IsPrefix, Output!IsPrefix, Output!IsStrictPrefix
  <2>5. Output!Write
    BY <2>1, <2>2, <2>3, <2>4 DEF Output!Write
  <2>6. QED  BY <2>5
<1>8. QED  BY <1>6, <1>7

(* The end is reached with all bytes read and all characters written. *)
LEMMA FinishRefines ==
  ASSUME ConvInv, Finish
  PROVE  Output!Finish
<1>1. pc = "loop" /\ pc' = "done" /\ UNCHANGED <<call, written>> /\ Reads = {}
  BY DEF Finish
<1>2. PICK t : t = call.file
  OBVIOUS
<1>3. /\ t \in Seq(Byte) /\ Len(t) \in Nat /\ BufSize \in Nat
      /\ at \in 0 .. Len(t) /\ insize \in 0 .. BufSize
  BY <1>2, CallsAssumption, BufferAssumption DEF ConvInv, TypeOK
<1>4. insize <= at
  BY <1>1 DEF ConvInv, KeepsWhatIsLeft
<1>5. /\ \A k \in 1 .. at : Fits(t, k)
      /\ at = insize \/ IsLast(t[at - insize])
      /\ \A k \in (at - insize + 1) .. at : ~IsLast(t[k])
      /\ call.known
  BY <1>1, <1>2 DEF ConvInv, Converted
<1>6. insize < BufSize
  <2>1. PICK m \in Nat : m = at - insize
    BY <1>3, <1>4
  <2>2. at \in m .. Len(t) /\ (at = insize => m = 0) /\ at - m = insize
    BY <1>3, <1>4, <2>1
  <2>3. at - m < BufSize
    BY <1>3, <1>5, <2>1, <2>2, LeftoverIsShort
  <2>4. QED  BY <2>2, <2>3
<1>7. at = Len(t)
  <2>1. CASE BufSize - insize < Len(t) - at
    <3>1. 1 \in Reads
      BY <1>2, <1>3, <1>6, <2>1 DEF Reads
    <3>2. QED  BY <1>1, <3>1
  <2>2. CASE ~(BufSize - insize < Len(t) - at)
    <3>1. Reads = 1 .. (Len(t) - at)
      BY <1>2, <2>2 DEF Reads
    <3>2. QED  BY <1>1, <1>3, <3>1
  <2>3. QED  BY <2>1, <2>2
<1>8. written = Decoded(call.file)
  BY <1>1, <1>2, <1>4, <1>7, WrittenIsPrefix DEF ConvInv
<1>9. QED  BY <1>1, <1>2, <1>5, <1>7, <1>8 DEF Output!Finish

(* An error is the fault of a byte of the file. *)
LEMMA FailRefines ==
  ASSUME ConvInv, Fail
  PROVE  Output!Refuse
<1>1. PICK nread \in Reads :
        Riconv(SubSeq(Filled(nread), 1, insize + nread), Avail) \in {"EILSEQ", "E2BIG"}
  BY DEF Fail
<1>2. pc = "loop" /\ pc' = "error" /\ UNCHANGED <<call, written>>
  BY DEF Fail
<1>3. PICK s : s = SubSeq(Filled(nread), 1, insize + nread)
  OBVIOUS
<1>4. /\ s \in Seq(Byte) /\ Len(s) <= BufSize
      /\ at - insize \in Nat /\ at - insize + Len(s) <= Len(call.file)
      /\ \A k \in 1 .. Len(s) : Fits(s, k) <=> Fits(call.file, at - insize + k)
  BY <1>2, <1>3, Block
<1>5. Riconv(s, Avail) = "EILSEQ"
  BY <1>1, <1>3, <1>4, RoomForTheOutput
<1>6. \E k \in 1 .. Len(s) : ~Fits(s, k)
  BY <1>5 DEF Riconv
<1>7. PICK k \in 1 .. Len(s) : ~Fits(call.file, at - insize + k)
  BY <1>4, <1>6
<1>8. at - insize + k \in 1 .. Len(call.file)
  <2>1. PICK b \in Nat : b = at - insize
    BY <1>4
  <2>2. Len(s) \in Nat /\ Len(call.file) \in Nat
    BY <1>4, FileType DEF ConvInv, TypeOK, InputOK
  <2>3. b + k \in 1 .. Len(call.file)
    BY <1>4, <2>1, <2>2
  <2>4. QED  BY <2>1, <2>3
<1>9. ~(\A i \in 1 .. Len(call.file) : Fits(call.file, i))
  BY <1>7, <1>8
<1>10. QED  BY <1>2, <1>9 DEF Output!Refuse

(* Every step converts some of the file, ends the conversion as Conversion  *)
(* allows, or shows nothing.                                               *)
LEMMA NextRefines ==
  ConvInv /\ ConvInv' /\ [Next]_vars =>
    [Output!Write \/ Output!Finish \/ Output!Refuse]_Shown
<1> SUFFICES ASSUME ConvInv, ConvInv', [Next]_vars
             PROVE  [Output!Write \/ Output!Finish \/ Output!Refuse]_Shown
  OBVIOUS
<1>1. CASE Open
  <2>1. UNCHANGED <<call, written>> /\ pc = "open"
    BY <1>1 DEF Open
  <2>2. CASE call.known
    <3>1. pc' = "loop"
      BY <1>1, <2>2 DEF Open
    <3>2. QED  BY <2>1, <3>1 DEF Shown
  <2>3. CASE ~call.known
    <3>1. pc' = "error"
      BY <1>1, <2>3 DEF Open
    <3>2. QED  BY <2>1, <2>3, <3>1 DEF Output!Refuse
  <2>4. QED  BY <2>2, <2>3
<1>2. CASE Convert
  BY <1>2, ConvertRefines
<1>3. CASE Fail
  BY <1>3, FailRefines
<1>4. CASE Finish
  BY <1>4, FinishRefines
<1>5. CASE Done \/ UNCHANGED vars
  BY <1>5 DEF Done, vars, Shown
<1>6. QED  BY <1>1, <1>2, <1>3, <1>4, <1>5 DEF Next

(* Whatever the sizes of the reads, the characters of the file are written  *)
(* in their order, none twice and none left out; the conversion ends well   *)
(* only when all have been, and with an error only if a byte belongs to no  *)
(* character or the encoding is not known.                                 *)
THEOREM ConvertsNothingElse == Spec => Output!Converting
<1>1. Init => Output!Init
  BY DEF Init, Output!Init
<1>2. QED
  BY <1>1, InitConvInv, NextConvInv, NextRefines, PTL DEF Spec, Output!Converting, Shown

=============================================================================
