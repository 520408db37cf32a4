-------------------- MODULE FixedWidthConnection_proofs ---------------------
(***************************************************************************)
(* Proofs about FixedWidthConnection, for all inputs: the main thread and  *)
(* its tasks keep out of each other's buffers, the temporary file is a     *)
(* beginning of what was read and looked at only when it is whole, the     *)
(* newlines found are those of the file, in their order, and a connection  *)
(* is read as the same table as a file.                                    *)
(***************************************************************************)
EXTENDS FixedWidthConnection, IndexRegion_proofs

(* There are two buffers.  A task that runs while the main thread is about  *)
(* to start the next one of its kind, or to read, uses the buffer that was  *)
(* read last; and when the constructor returns, no task is left.           *)
TasksBehind ==
  /\ i \in {0, 1} /\ DOMAIN buf = {0, 1}
  /\ pc = "open" => ~Parsing /\ ~Writing
  /\ pc \in {"write", "read"} => (Parsing => region.buf = i)
  /\ pc = "read" => (Writing => write.buf = i)
  /\ pc \in {"done", "stopped", "crashed"} => ~Parsing /\ ~Writing

(* No task runs at first. *)
LEMMA InitTasksBehind == Init => TasksBehind
BY DEF Init, TasksBehind, Parsing, Writing, EnterLines, LinesCall

(* Each action keeps the tasks behind: the two that start a task wait for   *)
(* the one before it, and the last waits for both.                         *)
LEMMA NextTasksBehind == TasksBehind /\ [Next]_vars => TasksBehind'
<1> SUFFICES ASSUME TasksBehind, [Next]_vars PROVE TasksBehind'
  OBVIOUS
<1>1. CASE Open
  <2>1. ~Parsing /\ ~Writing /\ pc' \in {"finish", "parse"}
    BY <1>1 DEF Open, TasksBehind
  <2>2. i' = i /\ ~Writing' /\ DOMAIN buf' = DOMAIN buf
    BY <1>1, <2>1 DEF Open, Writing
  <2>3. QED  BY <2>1, <2>2 DEF TasksBehind
<1>2. CASE WaitForParse
  <2>1. pc' \in {"finish", "write"} /\ i' = i /\ buf' = buf
    BY <1>2 DEF WaitForParse
  <2>2. pc' = "write" => region'.buf = i
    BY <1>2 DEF WaitForParse
  <2>3. QED  BY <2>1, <2>2 DEF TasksBehind
<1>3. CASE WaitForWrite
  <2>1. i' = i /\ region' = region /\ scan' = scan /\ buf' = buf
    BY <1>3 DEF WaitForWrite
  <2>2. pc = "write" /\ pc' = "read" /\ write'.buf = i
    BY <1>3 DEF WaitForWrite
  <2>3. QED  BY <2>1, <2>2 DEF TasksBehind, Parsing
<1>4. CASE Read
  <2>1. DOMAIN buf' = DOMAIN buf
    BY <1>4 DEF Read
  <2>2. i' \in {0, 1} /\ pc' \in {"finish", "parse"}
    BY <1>4 DEF Read, TasksBehind
  <2>3. QED  BY <2>1, <2>2 DEF TasksBehind
<1>5. CASE Finish
  <2>1. ~Parsing /\ ~Writing /\ i' = i /\ write' = write /\ buf' = buf
    BY <1>5 DEF Finish
  <2>2. scan'.out = scan.out
    BY <1>5 DEF Finish
  <2>3. pc' \in {"done", "stopped", "crashed"}
    BY <1>5 DEF Finish
  <2>4. QED  BY <2>1, <2>2, <2>3 DEF TasksBehind, Parsing, Writing
<1>6. CASE Parse
  BY <1>6 DEF Parse, TasksBehind, Parsing, Writing
<1>7. CASE Write
  <2>1. UNCHANGED <<pc, i, region, scan, buf>> /\ Writing
    BY <1>7 DEF Write
  <2>2. write'.state # "running"
    BY <1>7 DEF Write
  <2>3. QED  BY <2>1, <2>2 DEF TasksBehind, Parsing, Writing
<1>8. CASE UNCHANGED vars
  BY <1>8 DEF vars, TasksBehind, Parsing, Writing
<1>9. QED
  BY <1>1, <1>2, <1>3, <1>4, <1>5, <1>6, <1>7, <1>8 DEF Next, Main, Done

(* For every input and schedule, the main thread of a fixed width           *)
(* connection reads only into a buffer that no task uses.                  *)
THEOREM BuffersAlwaysKept == Spec => BuffersKept
<1>1. TasksBehind /\ [Next]_vars =>
        [\A k \in {0, 1} : buf'[k] # buf[k] => k \notin InUse]_vars
  <2> SUFFICES ASSUME TasksBehind, Next, NEW k \in {0, 1}, buf'[k] # buf[k]
               PROVE  k \notin InUse
    OBVIOUS
  <2>1. CASE Open
    <3>1. ~Parsing /\ ~Writing
      BY <2>1 DEF Open, TasksBehind
    <3>2. QED  BY <3>1 DEF InUse
  <2>2. CASE Read
    <3>1. (Parsing => region.buf = i) /\ (Writing => write.buf = i) /\ i \in {0, 1}
      BY <2>2 DEF Read, TasksBehind
    <3>2. i' = 1 - i
      BY <2>2 DEF Read
    <3>3. buf' = buf \/ buf' = [buf EXCEPT ![i'] = Append(ReadConnection, "nul")]
      BY <2>2 DEF Read
    <3>4. k = 1 - i
      BY <3>2, <3>3 DEF TasksBehind
    <3>5. QED  BY <3>1, <3>4 DEF InUse
  <2>3. CASE buf' = buf
    BY <2>3
  <2>4. QED
    BY <2>1, <2>2, <2>3
    DEF Next, Main, Done, vars, WaitForParse, WaitForWrite, Parse, Write, Finish
<1>2. QED
  BY <1>1, InitTasksBehind, NextTasksBehind, PTL DEF Spec, BuffersKept

----------------------------------------------------------------------------
(* The temporary file.                                                     *)

(* The temporary file holds what the connection gave, in its order. *)
FileIsPrefix == IsPrefix(out, input.content)

(* What has been given to the writing task, and will be in the file.       *)
Given == Len(out) + (IF Writing THEN write.size ELSE 0)

(* The buffers and the connection. *)
BuffersFine ==
  /\ input \in Inputs
  /\ taken \in 0 .. Len(input.content)
  /\ buf \in [{0, 1} -> Seq(Char \union {"nul"})]

(* The file is a beginning of the content, what is being written goes on    *)
(* where it ends, and the buffer of the main thread where that ends.        *)
FileFine ==
  /\ out \in Seq(Char) /\ Len(out) <= taken
  /\ \A k \in 1 .. Len(out) : out[k] = input.content[k]
  /\ pc = "open" => out = <<>> /\ taken = 0

WriteFine ==
  Writing =>
    /\ write.buf \in {0, 1}
    /\ write.size \in Nat /\ write.size <= Len(buf[write.buf])
    /\ Len(out) + write.size <= taken
    /\ \A k \in 1 .. write.size : buf[write.buf][k] = input.content[Len(out) + k]

ReadFine ==
  /\ pc \in {"parse", "write"} =>
       /\ sz \in Nat /\ sz <= Len(buf[i])
       /\ Given + sz = taken
       /\ \A k \in 1 .. sz : buf[i][k] = input.content[Given + k]
  /\ pc = "read" => Given = taken

FileInv == BuffersFine /\ FileFine /\ WriteFine /\ ReadFine

(* What a read gives goes on where the last one ended. *)
LEMMA ReadFacts ==
  ASSUME BuffersFine
  PROVE  /\ ReadConnection \in Seq(Char)
         /\ taken + Len(ReadConnection) \in 0 .. Len(input.content)
         /\ Len(ReadConnection) \in 0 .. (input.chunk_size - 1)
         /\ \A k \in 1 .. Len(ReadConnection) : ReadConnection[k] = input.content[taken + k]
<1> DEFINE size == Len(input.content)
           most == taken + input.chunk_size - 1
<1>1. /\ input.content \in Seq(Char) /\ size \in Nat
      /\ taken \in 0 .. size /\ most \in Nat /\ most >= taken
      /\ input.chunk_size \in Nat
  BY InputsAssumption DEF BuffersFine
<1> HIDE DEF most
<1>2. PICK to \in Nat : to = Min({most, size}) /\ to <= size /\ to <= most /\ taken <= to
  <2>1. \E x \in {most, size} : \A y \in {most, size} : x <= y
    BY <1>1
  <2>2. /\ Min({most, size}) \in {most, size}
        /\ \A y \in {most, size} : Min({most, size}) <= y
    BY <2>1 DEF Min
  <2>3. QED  BY <1>1, <2>2
<1>3. ReadConnection = SubSeq(input.content, taken + 1, to)
  BY <1>2 DEF ReadConnection, most
<1> DEFINE c == input.content
<1> HIDE DEF c
<1>4. /\ SubSeq(c, taken + 1, to) \in Seq(Char)
      /\ Len(SubSeq(c, taken + 1, to)) = to - taken
      /\ \A k \in 1 .. (to - taken) : SubSeq(c, taken + 1, to)[k] = c[taken + k]
  <2>1. c \in Seq(Char) /\ taken \in Nat /\ to \in Nat /\ taken <= to /\ to <= Len(c)
    BY <1>1, <1>2 DEF c
  <2>2. taken + 1 \in 1 .. (Len(c) + 1)
    BY <2>1
  <2>3. Len(SubSeq(c, taken + 1, to)) = to - taken
    BY <2>1, <2>2
  <2>4. ASSUME NEW k \in 1 .. (to - taken) PROVE SubSeq(c, taken + 1, to)[k] = c[taken + k]
    BY <2>1, <2>2, <2>4
  <2>5. SubSeq(c, taken + 1, to) \in Seq(Char)
    BY <2>1, <2>2
  <2>6. QED  BY <2>3, <2>4, <2>5
<1>5. Len(ReadConnection) = to - taken /\ taken + (to - taken) = to
  BY <1>1, <1>2, <1>3, <1>4 DEF c
<1>6. ReadConnection \in Seq(Char) /\ taken + Len(ReadConnection) \in 0 .. size
  <2>1. ReadConnection \in Seq(Char)
    BY <1>3, <1>4 DEF c
  <2>2. taken + Len(ReadConnection) = to
    BY <1>5
  <2>3. to \in 0 .. size
    BY <1>1, <1>2
  <2>4. QED  BY <2>1, <2>2, <2>3
<1>7. \A k \in 1 .. Len(ReadConnection) : ReadConnection[k] = input.content[taken + k]
  BY <1>3, <1>4, <1>5 DEF c
<1>8. Len(ReadConnection) \in 0 .. (input.chunk_size - 1)
  <2>1. to - taken \in 0 .. (input.chunk_size - 1)
    BY <1>1, <1>2 DEF most
  <2>2. QED  BY <1>5, <2>1
<1>9. QED  BY <1>6, <1>7, <1>8

(* Nothing has been read or written at first. *)
LEMMA InitFileInv == Init => FileInv
<1> SUFFICES ASSUME Init PROVE FileInv
  OBVIOUS
<1>1. input \in Inputs /\ input.content \in Seq(Char)
  BY InputsAssumption DEF Init
<1>2. buf \in [{0, 1} -> Seq(Char \union {"nul"})]
  BY DEF Init
<1>3. out = <<>> /\ taken = 0 /\ pc = "open" /\ ~Writing
  BY DEF Init, Writing
<1>4. QED
  BY <1>1, <1>2, <1>3 DEF FileInv, BuffersFine, FileFine, WriteFine, ReadFine

(* The first read. *)
LEMMA OpenFileInv == FileInv /\ TasksBehind /\ Open => FileInv'
<1> SUFFICES ASSUME FileInv, TasksBehind, Open PROVE FileInv'
  OBVIOUS
<1>1. /\ taken' = Len(ReadConnection) /\ sz' = taken'
      /\ buf' = [buf EXCEPT ![i] = Append(ReadConnection, "nul")]
      /\ UNCHANGED <<input, i, out, write>> /\ pc = "open" /\ pc' # "open" /\ pc' # "read"
  BY DEF Open
<1>2. out = <<>> /\ taken = 0 /\ ~Writing /\ i \in {0, 1}
  BY <1>1 DEF FileInv, FileFine, TasksBehind
<1>3. /\ ReadConnection \in Seq(Char)
      /\ taken' \in 0 .. Len(input.content)
      /\ \A k \in 1 .. taken' : ReadConnection[k] = input.content[k]
  BY <1>1, <1>2, ReadFacts DEF FileInv, BuffersFine
<1> DEFINE s == ReadConnection
<1> HIDE DEF s
<1>4. /\ buf'[i] \in Seq(Char \union {"nul"}) /\ Len(buf'[i]) = taken' + 1
      /\ \A k \in 1 .. taken' : buf'[i][k] = input.content[k]
  <2>1. buf'[i] = Append(s, "nul")
    BY <1>1, <1>2 DEF s, FileInv, BuffersFine
  <2>2. QED  BY <1>1, <1>3, <2>1, NulFacts DEF s
<1>5. BuffersFine'
  BY <1>1, <1>2, <1>3, <1>4 DEF FileInv, BuffersFine
<1>6. FileFine' /\ WriteFine' /\ ~Writing'
  BY <1>1, <1>2, <1>3 DEF FileFine, WriteFine, Writing
<1>7. Given' = 0
  BY <1>1, <1>2, <1>6 DEF Given
<1>8. ReadFine'
  BY <1>1, <1>2, <1>3, <1>4, <1>7 DEF ReadFine
<1>9. QED  BY <1>5, <1>6, <1>8 DEF FileInv

(* Later ones: into the buffer that is not being written.                   *)
LEMMA ReadFileInv == FileInv /\ TasksBehind /\ Read => FileInv'
<1> SUFFICES ASSUME FileInv, TasksBehind, Read PROVE FileInv'
  OBVIOUS
<1>1. /\ taken' = taken + Len(ReadConnection) /\ sz' = Len(ReadConnection)
      /\ i' = 1 - i
      /\ buf' = IF sz' = 0 THEN buf ELSE [buf EXCEPT ![i'] = Append(ReadConnection, "nul")]
      /\ UNCHANGED <<input, out, write>> /\ pc = "read"
      /\ pc' = IF sz' = 0 THEN "finish" ELSE "parse"
  BY DEF Read
<1>2. Given = taken /\ i \in {0, 1} /\ (Writing => write.buf = i)
  BY <1>1 DEF FileInv, ReadFine, TasksBehind
<1>3. /\ ReadConnection \in Seq(Char) /\ sz' \in Nat
      /\ taken \in Nat /\ taken' \in 0 .. Len(input.content)
      /\ \A k \in 1 .. sz' : ReadConnection[k] = input.content[taken + k]
  BY <1>1, ReadFacts DEF FileInv, BuffersFine
<1> DEFINE s == ReadConnection
<1> HIDE DEF s
<1>4. /\ buf' \in [{0, 1} -> Seq(Char \union {"nul"})]
      /\ sz' # 0 => buf'[1 - i] = Append(s, "nul")
      /\ buf'[i] = buf[i]
  <2>1. Append(s, "nul") \in Seq(Char \union {"nul"})
    BY <1>3, NulFacts DEF s
  <2>2. 1 - i \in {0, 1} /\ 1 - i # i
    BY <1>2
  <2>3. QED  BY <1>1, <1>2, <2>1, <2>2 DEF s, FileInv, BuffersFine
<1>5. BuffersFine'
  BY <1>1, <1>3, <1>4 DEF FileInv, BuffersFine
<1>6. FileFine'
  <2>1. Len(out) \in Nat /\ Len(out) <= taken
    BY DEF FileInv, FileFine
  <2>2. Len(out) <= taken'
    BY <1>1, <1>3, <2>1
  <2>3. QED  BY <1>1, <2>2 DEF FileInv, FileFine
<1>7. WriteFine' /\ Given' = taken
  <2>1. Writing' = Writing /\ Given' = Given
    BY <1>1 DEF Writing, Given
  <2>2. CASE Writing
    <3>1. Len(out) + write.size <= taken' /\ buf'[write.buf] = buf[write.buf]
      BY <1>1, <1>2, <1>3, <1>4, <2>2 DEF FileInv, WriteFine, FileFine
    <3>2. QED  BY <1>1, <1>2, <2>1, <2>2, <3>1 DEF FileInv, WriteFine
  <2>3. QED  BY <1>2, <2>1, <2>2 DEF WriteFine
<1>8. ReadFine'
  <2>1. CASE sz' = 0
    BY <1>1, <2>1 DEF ReadFine
  <2>2. CASE sz' # 0
    <3>1. buf'[i'] = Append(s, "nul") /\ pc' = "parse"
      BY <1>1, <1>4, <2>2
    <3>2. Len(buf'[i']) = sz' + 1 /\ \A k \in 1 .. sz' : buf'[i'][k] = input.content[taken + k]
      BY <1>1, <1>3, <3>1, NulFacts DEF s
    <3>3. QED  BY <1>1, <1>3, <1>7, <3>1, <3>2 DEF ReadFine
  <2>3. QED  BY <2>1, <2>2
<1>9. QED  BY <1>5, <1>6, <1>7, <1>8 DEF FileInv

(* The writing task is given the buffer that goes on where it stopped.      *)
LEMMA WaitForWriteFileInv == FileInv /\ TasksBehind /\ WaitForWrite => FileInv'
<1> SUFFICES ASSUME FileInv, TasksBehind, WaitForWrite PROVE FileInv'
  OBVIOUS
<1>1. UNCHANGED <<input, taken, buf, i, sz, out>> /\ pc = "write" /\ ~Writing
  BY DEF WaitForWrite
<1>2. BuffersFine'
  BY <1>1 DEF FileInv, BuffersFine
<1>3. CASE pc' = "finish" /\ UNCHANGED write
  BY <1>1, <1>2, <1>3 DEF FileInv, FileFine, WriteFine, ReadFine, Writing
<1>4. CASE pc' = "read" /\ write' = [buf |-> i, size |-> sz, state |-> "running"]
  <2>1. /\ sz \in Nat /\ sz <= Len(buf[i]) /\ Len(out) + sz = taken
        /\ \A k \in 1 .. sz : buf[i][k] = input.content[Len(out) + k]
    BY <1>1 DEF FileInv, ReadFine, Given
  <2>2. Writing' /\ write'.buf = i /\ write'.size = sz
    BY <1>4 DEF Writing
  <2>3. Len(out) \in Nat /\ taken \in Nat
    BY InputsAssumption DEF FileInv, FileFine, BuffersFine
  <2>4. WriteFine'
    BY <1>1, <2>1, <2>2, <2>3 DEF WriteFine, TasksBehind
  <2>5. Given' = taken'
    BY <1>1, <2>1, <2>2 DEF Given
  <2>6. FileFine'
    BY <1>1, <1>4 DEF FileInv, FileFine
  <2>7. QED  BY <1>2, <1>4, <2>4, <2>5, <2>6 DEF FileInv, ReadFine
<1>5. QED  BY <1>3, <1>4 DEF WaitForWrite

(* The write itself. *)
LEMMA WriteFileInv == FileInv /\ TasksBehind /\ Write => FileInv' /\ Given' = Given
<1> SUFFICES ASSUME FileInv, TasksBehind, Write PROVE FileInv' /\ Given' = Given
  OBVIOUS
<1>1. /\ Writing /\ out' = out \o SubSeq(buf[write.buf], 1, write.size)
      /\ UNCHANGED <<input, taken, pc, buf, i, sz>>
      /\ ~Writing'
  BY DEF Write, Writing
<1> DEFINE b == buf[write.buf]
           n == write.size
<1>2. /\ write.buf \in {0, 1} /\ n \in Nat /\ n <= Len(b) /\ Len(out) + n <= taken
      /\ \A k \in 1 .. n : b[k] = input.content[Len(out) + k]
  BY <1>1 DEF FileInv, WriteFine
<1>3. /\ out \in Seq(Char) /\ b \in Seq(Char \union {"nul"})
      /\ \A k \in 1 .. Len(out) : out[k] = input.content[k]
      /\ taken \in 0 .. Len(input.content) /\ input.content \in Seq(Char)
  BY <1>2, InputsAssumption DEF FileInv, FileFine, BuffersFine
<1> HIDE DEF b, n
<1> DEFINE part == SubSeq(b, 1, n)
<1>4. Len(part) = n /\ \A k \in 1 .. n : part[k] = input.content[Len(out) + k]
  BY <1>2, <1>3
<1>5. part \in Seq(Char)
  <2>1. part \in Seq(Char \union {"nul"})
    BY <1>2, <1>3
  <2>2. ASSUME NEW k \in 1 .. Len(part) PROVE part[k] \in Char
    <3>1. Len(out) + k \in 1 .. Len(input.content)
      BY <1>2, <1>3, <1>4, <2>2
    <3>2. input.content[Len(out) + k] \in Char
      BY <1>3, <3>1
    <3>3. part[k] = input.content[Len(out) + k]
      BY <1>4, <2>2
    <3>4. QED  BY <3>2, <3>3
  <2>3. QED  BY <2>1, <2>2
<1> HIDE DEF part
<1>6. out' = out \o part
  BY <1>1 DEF part, b, n
<1>7. Len(out') = Len(out) + n /\ out' \in Seq(Char)
  <2>1. out \o part \in Seq(Char) /\ Len(out \o part) = Len(out) + Len(part)
    BY <1>3, <1>5
  <2>2. QED  BY <1>4, <1>6, <2>1
<1>8. ASSUME NEW k \in 1 .. Len(out') PROVE out'[k] = input'.content[k]
  <2>1. CASE k <= Len(out)
    BY <1>1, <1>3, <1>5, <1>6, <1>7, <2>1
  <2>2. CASE k > Len(out)
    <3>1. out'[k] = part[k - Len(out)] /\ k - Len(out) \in 1 .. n
      BY <1>2, <1>3, <1>4, <1>5, <1>6, <1>7, <2>2
    <3>2. part[k - Len(out)] = input.content[Len(out) + (k - Len(out))]
      BY <1>4, <3>1
    <3>3. Len(out) + (k - Len(out)) = k
      BY <1>3
    <3>4. QED  BY <1>1, <3>1, <3>2, <3>3
  <2>3. QED  BY <1>3, <1>7, <2>1, <2>2
<1>9. Given' = Given
  BY <1>1, <1>7 DEF Given, n
<1>10. BuffersFine' /\ WriteFine' /\ ReadFine'
  BY <1>1, <1>9 DEF FileInv, BuffersFine, WriteFine, ReadFine
<1>11. FileFine'
  <2>1. Len(out') <= taken'
    BY <1>1, <1>2, <1>7
  <2>2. pc' # "open"
    BY <1>1 DEF TasksBehind
  <2>3. QED  BY <1>7, <1>8, <2>1, <2>2 DEF FileFine
<1>12. QED  BY <1>9, <1>10, <1>11 DEF FileInv

(* The other steps leave the file and the buffers alone. *)
LEMMA NextFileInv == FileInv /\ TasksBehind /\ [Next]_vars => FileInv'
<1> SUFFICES ASSUME FileInv, TasksBehind, [Next]_vars PROVE FileInv'
  OBVIOUS
<1> USE DEF FileInv, BuffersFine, FileFine, WriteFine, ReadFine, Given, Writing
<1>1. CASE Done
  BY <1>1 DEF Done, vars
<1>2. CASE WaitForParse
  BY <1>2 DEF WaitForParse
<1>3. CASE Finish
  BY <1>3 DEF Finish
<1>4. CASE Parse
  BY <1>4 DEF Parse
<1>5. CASE UNCHANGED vars
  BY <1>5 DEF vars
<1>6. QED
  BY <1>1, <1>2, <1>3, <1>4, <1>5, OpenFileInv, ReadFileInv, WaitForWriteFileInv, WriteFileInv
  DEF Next, Main, Done

(* What has been written is what the connection gave, from its beginning.   *)
LEMMA FileInvPrefix == FileInv => FileIsPrefix
<1> SUFFICES ASSUME FileInv PROVE IsPrefix(out, input.content)
  BY DEF FileIsPrefix
<1>1. /\ out \in Seq(Char) /\ input.content \in Seq(Char)
      /\ Len(out) <= Len(input.content)
      /\ \A k \in 1 .. Len(out) : out[k] = input.content[k]
  BY InputsAssumption DEF FileInv, FileFine, BuffersFine
<1>2. SubSeq(out, 1, Len(out)) = SubSeq(input.content, 1, Len(out))
  BY <1>1
<1>3. QED  BY <1>1, <1>2 DEF IsPrefix

(* Whatever the sizes of the buffers and the turns of the tasks, the         *)
(* temporary file is a beginning of what the connection gives.              *)
THEOREM FileAlwaysPrefix == Spec => []FileIsPrefix
<1>1. Init => FileInv /\ TasksBehind
  BY InitFileInv, InitTasksBehind
<1>2. FileInv /\ TasksBehind /\ [Next]_vars => FileInv' /\ TasksBehind'
  BY NextFileInv, NextTasksBehind
<1>3. FileInv => FileIsPrefix
  BY FileInvPrefix
<1>4. QED  BY <1>1, <1>2, <1>3, PTL DEF Spec

----------------------------------------------------------------------------
(* Types.                                                                  *)

(* A search for a newline ends in the file, and not before the position it  *)
(* starts from.                                                             *)
LEMMA NextNewlineForward ==
  ASSUME NEW src, Len(src) \in Nat \ {0}, NEW pos \in Nat, NEW type
  PROVE  LET nl == NextNewline(src, pos, type)
         IN  /\ nl[1] \in Nat /\ nl[2] \in {"lf", "cr"}
             /\ IF pos < Len(src) THEN nl[1] >= pos ELSE nl[1] = Len(src) - 1
<1>1. CASE pos >= Len(src)
  BY <1>1 DEF NextNewline
<1>2. CASE pos < Len(src)
  <2> DEFINE chars == {"nul"} \union IF type = "any" THEN {"lf", "cr"} ELSE {type}
             q     == FirstOf(src, pos, chars)
  <2> HIDE DEF chars
  <2>1. q \in pos .. Len(src)
    BY <1>2, FirstOfStops
  <2> HIDE DEF q
  <2>2. NextNewline(src, pos, type) = NewlineAt(src, q, Len(src))
    BY <1>2 DEF NextNewline, q, chars
  <2>3. NewlineAt(src, q, Len(src)) \in {<<q, "lf">>, <<q + 1, "lf">>, <<q, "cr">>}
    BY DEF NewlineAt
  <2>4. QED  BY <1>2, <2>1, <2>2, <2>3
<1>3. QED  BY <1>1, <1>2

(* The locals of a call, and its arguments. *)
LEMMA LinesFields ==
  ASSUME NEW p \in LinesCallType, NEW r \in LinesLocalsType
  PROVE  /\ p.start \in Nat /\ p.end \in Nat /\ p.offset \in Nat
         /\ p.n_max \in Nat \union {Unlimited}
         /\ r.pos \in Nat /\ r.lines_read \in Nat /\ r.first_nl \in {"any", "lf", "cr"}
         /\ r.destination \in Seq(Nat \union {-1})
BY DEF LinesCallType, LinesLocalsType

(* What an iteration of index_region does to its locals: it ends the loop,  *)
(* or it adds a newline of the region that is not before its position, and  *)
(* goes on after it.                                                       *)
Ended(r) == [r EXCEPT !.out = "end"]

Found(p, r, q) ==
  {s \in LinesLocalsType :
     /\ s.out \in {"running", "n_max"}
     /\ s.pos = q + 1
     /\ s.destination = Append(r.destination, p.offset + q)}

(* An iteration is one of these, and what it adds is what the search found. *)
LEMMA LinesStepFinds ==
  ASSUME NEW src, NEW p \in LinesCallType, NEW r \in LinesLocalsType,
         Len(src) \in Nat \ {0}, p.end = Len(src) - 1, r.out = "running"
  PROVE  \/ LinesStep(src, p, r) = Ended(r)
         \/ \E q \in r.pos .. (p.end - 1) :
              /\ LinesStep(src, p, r) \in Found(p, r, q)
              /\ q = NextNewline(src, r.pos, r.first_nl)[1]
<1> DEFINE nl == NextNewline(src, r.pos, r.first_nl)
<1>1. PICK q \in Nat : q = nl[1] /\ (r.pos < Len(src) => q >= r.pos)
                       /\ (~(r.pos < Len(src)) => q = Len(src) - 1)
  BY NextNewlineForward, LinesFields
<1>2. PICK type \in {"lf", "cr"} : type = nl[2]
  BY NextNewlineForward, LinesFields
<1> DEFINE pushed == Append(r.destination, p.offset + q)
           first  == IF r.first_nl = "any" THEN type ELSE r.first_nl
           out_   == IF Below(r.lines_read + 1, p.n_max) THEN "running" ELSE "n_max"
<1>3. LinesStep(src, p, r) =
        IF q >= p.end THEN Ended(r)
        ELSE [r EXCEPT !.destination = pushed, !.lines_read = r.lines_read + 1,
                       !.pos = q + 1, !.first_nl = first, !.out = out_]
  BY <1>1, <1>2 DEF LinesStep, Ended, LinesLocalsType
<1> HIDE DEF nl
<1>4. CASE q >= p.end
  BY <1>3, <1>4
<1>5. CASE ~(q >= p.end)
  <2>1. q \in r.pos .. (p.end - 1)
    BY <1>1, <1>5, LinesFields
  <2>2. pushed \in Seq(Nat \union {-1}) /\ first \in {"any", "lf", "cr"}
        /\ out_ \in {"running", "n_max"} /\ r.lines_read + 1 \in Nat /\ q + 1 \in Nat
    BY LinesFields
  <2> HIDE DEF pushed, first, out_
  <2>3. LinesStep(src, p, r) =
          [pos |-> q + 1, first_nl |-> first, lines_read |-> r.lines_read + 1,
           destination |-> pushed, out |-> out_]
    BY <1>3, <1>5 DEF LinesLocalsType
  <2>4. LinesStep(src, p, r) \in Found(p, r, q)
    BY <2>2, <2>3 DEF Found, LinesLocalsType, pushed
  <2>5. QED  BY <1>1, <2>1, <2>4 DEF nl
<1>6. QED  BY <1>4, <1>5

(* A call that starts is ready to run, and the destination is kept.         *)
LEMMA EnterLinesType ==
  ASSUME NEW p \in LinesCallType, NEW d \in Seq(Nat \union {-1})
  PROVE  LET s == EnterLines(p, d)
         IN  /\ s \in LinesLocalsType
             /\ s.pos = p.start /\ s.out = "running" /\ s.destination = d
             /\ s.lines_read = 0
BY DEF EnterLines, LinesCallType, LinesLocalsType

(* The main thread: what is given to the writing task has been counted, and *)
(* rows are looked for in the buffer or from its end.                       *)
MainTypes ==
  /\ pc \in {"open", "parse", "write", "read", "finish", "done", "stopped", "crashed"}
  /\ sz \in 0 .. (input.chunk_size - 1) /\ start \in 0 .. (sz + 1)
  /\ remaining \in Nat \union {Unlimited}
  /\ total_read = Given

(* The buffers: the one of the main thread ends in a null character.        *)
BufferTypes ==
  /\ \A k \in {0, 1} : Len(buf[k]) <= input.chunk_size
  /\ pc \in {"parse", "write", "read"} => Len(buf[i]) = sz + 1

(* The tasks: the indexing one looks at all of its buffer. *)
WriteTypes ==
  write \in [buf : {0, 1}, size : 0 .. (input.chunk_size - 1),
             state : {"none", "running", "done"}]

RegionTypes ==
  /\ region.buf \in {0, 1} /\ region.call \in LinesCallType /\ scan \in LinesLocalsType
  /\ Parsing => /\ region.call.end = Len(buf[region.buf]) - 1
                /\ scan.pos <= region.call.end + 1

TypeInv == MainTypes /\ BufferTypes /\ WriteTypes /\ RegionTypes

(* The sizes are numbers. *)
LEMMA Sizes ==
  ASSUME BuffersFine
  PROVE  /\ input.chunk_size \in Nat \ {0, 1} /\ input.n_max \in Nat \union {Unlimited}
         /\ input.content \in Seq(Char) /\ taken \in Nat
         /\ \A k \in {0, 1} : buf[k] \in Seq(Char \union {"nul"}) /\ Len(buf[k]) \in Nat
BY InputsAssumption DEF BuffersFine

(* The types at first. *)
LEMMA InitTypeInv == Init => TypeInv
<1> SUFFICES ASSUME Init PROVE TypeInv
  OBVIOUS
<1>1. input.chunk_size \in Nat \ {0, 1} /\ input.n_max \in Nat \union {Unlimited}
  BY InputsAssumption DEF Init
<1>2. scan \in LinesLocalsType /\ region.call \in LinesCallType /\ ~Parsing
  <2>1. scan = [pos |-> 0, first_nl |-> "any", lines_read |-> 0, destination |-> <<>>,
                out |-> "idle"]
    BY DEF Init, LinesCall, EnterLines
  <2>2. <<>> \in Seq(Nat \union {-1})
    OBVIOUS
  <2>3. scan \in LinesLocalsType /\ ~Parsing
    BY <2>1, <2>2 DEF LinesLocalsType, Parsing
  <2>4. region.call = [start |-> 0, end |-> 0, offset |-> 0, n_max |-> Unlimited]
    BY DEF Init, LinesCall
  <2>5. QED  BY <2>3, <2>4 DEF LinesCallType
<1>3. Given = 0
  BY DEF Init, Given, Writing
<1>4. QED
  BY <1>1, <1>2, <1>3
  DEF Init, TypeInv, MainTypes, BufferTypes, WriteTypes, RegionTypes

(* The first read fills the first buffer, and the first row starts in it or *)
(* after it.                                                               *)
LEMMA OpenTypeInv == FileInv /\ TasksBehind /\ TypeInv /\ Open => TypeInv'
<1> SUFFICES ASSUME FileInv, TasksBehind, TypeInv, Open PROVE TypeInv'
  OBVIOUS
<1>1. /\ taken' = Len(ReadConnection) /\ sz' = taken'
      /\ buf' = [buf EXCEPT ![i] = Append(ReadConnection, "nul")]
      /\ start' = Min({FindFirstLine(buf'[i], Skip), sz' + 1})
      /\ scan' = [scan EXCEPT !.destination = BeforeFirst(start', input.n_max)]
      /\ pc' \in {"finish", "parse"}
      /\ UNCHANGED <<input, i, total_read, remaining, region, write, out>> /\ pc = "open"
  BY DEF Open
<1>2. i \in {0, 1} /\ DOMAIN buf = {0, 1} /\ ~Parsing /\ ~Writing
  BY <1>1 DEF TasksBehind
<1>3. ReadConnection \in Seq(Char) /\ sz' \in 0 .. (input.chunk_size - 1)
  BY <1>1, ReadFacts DEF FileInv
<1>4. Len(buf'[i]) = sz' + 1 /\ \A k \in {0, 1} : k # i => buf'[k] = buf[k]
  <2>1. buf'[i] = Append(ReadConnection, "nul")
    BY <1>1, <1>2
  <2>2. QED  BY <1>1, <1>2, <1>3, <2>1, NulFacts
<1>5. start' \in 0 .. (sz' + 1)
  <2>1. FindFirstLine(buf'[i], Skip) \in Nat
    BY <1>3, <1>4, Sizes, FindFirstLineForward DEF FileInv
  <2>2. sz' + 1 \in Nat
    <3>1. PICK n \in Nat : n = sz'
      BY <1>3
    <3>2. n + 1 \in Nat
      OBVIOUS
    <3>3. QED  BY <3>1, <3>2
  <2> DEFINE a == FindFirstLine(buf'[i], Skip)
             b == sz' + 1
  <2>3. Min({a, b}) \in {a, b} /\ Min({a, b}) <= b
    <3> HIDE DEF a, b
    <3>1. a \in Nat /\ b \in Nat
      BY <2>1, <2>2 DEF a, b
    <3>2. QED  BY <3>1, LeastOfTwo
  <2>4. QED  BY <1>1, <2>1, <2>2, <2>3
<1>6. BeforeFirst(start', input.n_max) \in Seq(Nat \union {-1})
  <2>1. start' - 1 \in Nat \union {-1}
    <3>1. PICK n \in Nat : n = start'
      BY <1>5
    <3>2. n - 1 \in Nat \union {-1}
      OBVIOUS
    <3>3. QED  BY <3>1, <3>2
  <2>2. <<start' - 1>> \in Seq(Nat \union {-1}) /\ <<>> \in Seq(Nat \union {-1})
    BY <2>1
  <2>3. QED  BY <2>2 DEF BeforeFirst
<1>7. scan' \in LinesLocalsType /\ ~Parsing'
  BY <1>1, <1>2, <1>6 DEF TypeInv, RegionTypes, LinesLocalsType, Parsing
<1>8. MainTypes'
  <2>1. Given' = Given
    BY <1>1 DEF Given, Writing
  <2>2. QED  BY <1>1, <1>3, <1>5, <2>1 DEF TypeInv, MainTypes
<1>9. BufferTypes'
  <2>1. sz' + 1 <= input.chunk_size
    BY <1>3, Sizes DEF FileInv
  <2>2. QED  BY <1>1, <1>2, <1>4, <2>1 DEF TypeInv, BufferTypes
<1>10. WriteTypes' /\ RegionTypes'
  BY <1>1, <1>7 DEF TypeInv, WriteTypes, RegionTypes
<1>11. QED  BY <1>8, <1>9, <1>10 DEF TypeInv

(* Later reads fill the other buffer, which no task uses. *)
LEMMA ReadTypeInv == FileInv /\ TasksBehind /\ TypeInv /\ Read => TypeInv'
<1> SUFFICES ASSUME FileInv, TasksBehind, TypeInv, Read PROVE TypeInv'
  OBVIOUS
<1>1. /\ sz' = Len(ReadConnection) /\ i' = 1 - i /\ start' = 0
      /\ buf' = IF sz' = 0 THEN buf ELSE [buf EXCEPT ![i'] = Append(ReadConnection, "nul")]
      /\ pc = "read" /\ pc' = IF sz' = 0 THEN "finish" ELSE "parse"
      /\ UNCHANGED <<input, total_read, remaining, region, scan, write, out>>
  BY DEF Read
<1>2. i \in {0, 1} /\ DOMAIN buf = {0, 1} /\ (Parsing => region.buf = i)
  BY <1>1 DEF TasksBehind
<1>3. ReadConnection \in Seq(Char) /\ sz' \in 0 .. (input.chunk_size - 1)
  BY <1>1, ReadFacts DEF FileInv
<1>4. /\ 1 - i \in {0, 1} /\ buf'[i] = buf[i]
      /\ IF sz' = 0 THEN buf' = buf ELSE Len(buf'[1 - i]) = sz' + 1
  <2>1. 1 - i \in {0, 1} /\ 1 - i # i
    BY <1>2
  <2>2. sz' # 0 => buf'[1 - i] = Append(ReadConnection, "nul")
    BY <1>1, <1>2, <2>1
  <2>3. Len(Append(ReadConnection, "nul")) = sz' + 1
    BY <1>1, <1>3, NulFacts
  <2>4. QED  BY <1>1, <1>2, <2>1, <2>2, <2>3
<1>5. MainTypes'
  <2>1. Given' = Given /\ start' \in 0 .. (sz' + 1)
    BY <1>1, <1>3, Sizes DEF Given, Writing, FileInv
  <2>2. QED  BY <1>1, <1>3, <2>1 DEF TypeInv, MainTypes
<1>6. BufferTypes'
  <2>1. sz' + 1 <= input.chunk_size
    BY <1>3, Sizes DEF FileInv
  <2>2. \A k \in {0, 1} : k = i \/ k = 1 - i
    BY <1>2
  <2>3. QED  BY <1>1, <1>4, <2>1, <2>2 DEF TypeInv, BufferTypes
<1>7. WriteTypes' /\ RegionTypes'
  BY <1>1, <1>2, <1>4 DEF TypeInv, WriteTypes, RegionTypes, Parsing
<1>8. QED  BY <1>5, <1>6, <1>7 DEF TypeInv

(* The indexing task is given all of the buffer that was read. *)
LEMMA WaitForParseTypeInv == FileInv /\ TasksBehind /\ TypeInv /\ WaitForParse => TypeInv'
<1> SUFFICES ASSUME FileInv, TasksBehind, TypeInv, WaitForParse PROVE TypeInv'
  OBVIOUS
<1>1. /\ UNCHANGED <<input, taken, buf, i, sz, start, total_read, write, out>>
      /\ pc = "parse" /\ ~Parsing
  BY DEF WaitForParse
<1>2. WriteTypes' /\ Given' = Given
  BY <1>1 DEF TypeInv, WriteTypes, Given, Writing
<1>3. CASE pc' = "finish" /\ UNCHANGED <<remaining, region, scan>>
  BY <1>1, <1>2, <1>3 DEF TypeInv, MainTypes, BufferTypes, RegionTypes, Parsing
<1>4. CASE /\ Below(scan.lines_read, remaining) /\ pc' = "write"
           /\ remaining' = IF remaining = Unlimited THEN Unlimited ELSE remaining - scan.lines_read
           /\ region' = [buf |-> i, call |-> LinesCall(start, sz, total_read, remaining')]
           /\ scan' = EnterLines(region'.call, scan.destination)
  <2>1. remaining' \in Nat \union {Unlimited}
    <3>1. scan.lines_read \in Nat /\ remaining \in Nat \union {Unlimited}
      BY DEF TypeInv, RegionTypes, MainTypes, LinesLocalsType
    <3>2. QED  BY <1>4, <3>1 DEF Below
  <2>2. sz \in Nat /\ start \in Nat /\ start <= sz + 1 /\ total_read \in Nat
    <3>1. sz \in Nat /\ start \in Nat /\ start <= sz + 1
      BY Sizes DEF TypeInv, MainTypes, FileInv
    <3>2. total_read \in Nat
      BY DEF TypeInv, MainTypes, WriteTypes, Given, FileInv, FileFine
    <3>3. QED  BY <3>1, <3>2
  <2>3. region'.call = LinesCall(start, sz, total_read, remaining') /\ region'.buf = i
    BY <1>4
  <2>4. region'.call \in LinesCallType /\ region'.call.end = sz /\ region'.call.start = start
    BY <2>1, <2>2, <2>3 DEF LinesCallType, LinesCall
  <2>5. scan' \in LinesLocalsType /\ scan'.pos = start
    BY <1>4, <2>4, EnterLinesType DEF TypeInv, RegionTypes, LinesLocalsType
  <2>6. Len(buf[i]) = sz + 1 /\ i \in {0, 1}
    BY <1>1 DEF TypeInv, BufferTypes, TasksBehind
  <2>7. RegionTypes'
    BY <1>1, <2>2, <2>3, <2>4, <2>5, <2>6 DEF RegionTypes
  <2>8. MainTypes' /\ BufferTypes'
    BY <1>1, <1>2, <1>4, <2>1, <2>6 DEF TypeInv, MainTypes, BufferTypes
  <2>9. QED  BY <1>2, <2>7, <2>8 DEF TypeInv
<1>5. QED  BY <1>3, <1>4 DEF WaitForParse

(* The writing task is given what was read, which is counted.               *)
LEMMA WaitForWriteTypeInv == FileInv /\ TasksBehind /\ TypeInv /\ WaitForWrite => TypeInv'
<1> SUFFICES ASSUME FileInv, TasksBehind, TypeInv, WaitForWrite PROVE TypeInv'
  OBVIOUS
<1>1. /\ pc = "write" /\ pc' = "read" /\ ~Writing
      /\ write' = [buf |-> i, size |-> sz, state |-> "running"]
      /\ total_read' = total_read + sz
      /\ UNCHANGED <<input, taken, buf, i, sz, start, remaining, region, scan, out>>
  BY DEF WaitForWrite
<1>2. Given = Len(out) + 0 /\ Given' = Len(out) + sz /\ Len(out) \in Nat
  BY <1>1 DEF Given, Writing, FileInv, FileFine
<1>3. total_read' = Given'
  BY <1>1, <1>2, Sizes DEF TypeInv, MainTypes, FileInv
<1>4. MainTypes' /\ BufferTypes'
  BY <1>1, <1>3 DEF TypeInv, MainTypes, BufferTypes
<1>5. WriteTypes' /\ RegionTypes'
  BY <1>1 DEF TypeInv, MainTypes, WriteTypes, RegionTypes, Parsing, TasksBehind
<1>6. QED  BY <1>4, <1>5 DEF TypeInv

(* An iteration of index_region. *)
LEMMA ParseTypeInv == FileInv /\ TypeInv /\ Parse => TypeInv'
<1> SUFFICES ASSUME FileInv, TypeInv, Parse PROVE TypeInv'
  OBVIOUS
<1>1. /\ Parsing /\ scan' = LinesStep(buf[region.buf], region.call, scan)
      /\ UNCHANGED <<input, taken, pc, buf, i, sz, start, total_read, remaining, region,
                     write, out>>
  BY DEF Parse
<1> DEFINE src == buf[region.buf]
           p   == region.call
<1>2. /\ p \in LinesCallType /\ scan \in LinesLocalsType /\ scan.out = "running"
      /\ p.end = Len(src) - 1 /\ scan.pos <= p.end + 1
  BY <1>1 DEF TypeInv, RegionTypes, Parsing
<1>3. p.end \in Nat /\ scan.pos \in Nat /\ Len(src) \in Nat \ {0}
  <2>1. p.end \in Nat /\ scan.pos \in Nat
    BY <1>2, LinesFields
  <2>2. Len(src) \in Nat
    BY Sizes DEF FileInv, TypeInv, RegionTypes
  <2>3. QED  BY <1>2, <2>1, <2>2
<1> HIDE DEF src, p
<1>4. scan' \in LinesLocalsType /\ scan'.pos <= p.end + 1
  <2>1. CASE scan' = Ended(scan)
    BY <1>2, <2>1 DEF Ended, LinesLocalsType
  <2>2. CASE \E q \in scan.pos .. (p.end - 1) : scan' \in Found(p, scan, q)
    <3>1. PICK q \in scan.pos .. (p.end - 1) : scan' \in Found(p, scan, q)
      BY <2>2
    <3>2. q + 1 <= p.end + 1
      BY <1>3, <3>1
    <3>3. QED  BY <3>1, <3>2 DEF Found
  <2>3. QED  BY <1>1, <1>2, <1>3, <2>1, <2>2, LinesStepFinds DEF src, p
<1>5. RegionTypes'
  BY <1>1, <1>2, <1>4 DEF TypeInv, RegionTypes, src, p
<1>6. QED
  BY <1>1, <1>5 DEF TypeInv, MainTypes, BufferTypes, WriteTypes, Given, Writing

(* The write changes what is in the file, and not what is given to it.      *)
LEMMA WriteTypeInv == FileInv /\ TasksBehind /\ TypeInv /\ Write => TypeInv'
<1> SUFFICES ASSUME FileInv, TasksBehind, TypeInv, Write PROVE TypeInv'
  OBVIOUS
<1>1. /\ write' = [write EXCEPT !.state = "done"]
      /\ UNCHANGED <<input, taken, pc, buf, i, sz, start, total_read, remaining, region,
                     scan>>
  BY DEF Write
<1>2. Given' = Given
  BY WriteFileInv
<1>3. QED
  BY <1>1, <1>2
  DEF TypeInv, MainTypes, BufferTypes, WriteTypes, RegionTypes, Parsing

(* The newline that the last line lacks is the end of the file.             *)
LEMMA FinishTypeInv == FileInv /\ TypeInv /\ Finish => TypeInv'
<1> SUFFICES ASSUME FileInv, TypeInv, Finish PROVE TypeInv'
  OBVIOUS
<1>1. /\ UNCHANGED <<input, taken, buf, i, sz, start, total_read, remaining, region,
                     write, out>>
      /\ scan' = scan \/ scan' = [scan EXCEPT !.destination = Append(@, Len(out))]
      /\ pc' \in {"done", "stopped", "crashed"} /\ ~Parsing
  BY DEF Finish
<1>2. scan' \in LinesLocalsType /\ ~Parsing'
  <2>1. Append(scan.destination, Len(out)) \in Seq(Nat \union {-1})
    <3>1. Len(out) \in Nat \union {-1} /\ scan.destination \in Seq(Nat \union {-1})
      BY DEF FileInv, FileFine, TypeInv, RegionTypes, LinesLocalsType
    <3>2. QED  BY <3>1
  <2>2. QED  BY <1>1, <2>1 DEF TypeInv, RegionTypes, LinesLocalsType, Parsing
<1>3. MainTypes' /\ BufferTypes' /\ WriteTypes' /\ RegionTypes'
  BY <1>1, <1>2
  DEF TypeInv, MainTypes, BufferTypes, WriteTypes, RegionTypes, Given, Writing
<1>4. QED  BY <1>3 DEF TypeInv

(* Every step keeps the types. *)
LEMMA NextTypeInv == FileInv /\ TasksBehind /\ TypeInv /\ [Next]_vars => TypeInv'
<1>1. TypeInv /\ UNCHANGED vars => TypeInv'
  BY DEF vars, TypeInv, MainTypes, BufferTypes, WriteTypes, RegionTypes, Given, Writing,
         Parsing
<1>2. QED
  BY <1>1, OpenTypeInv, ReadTypeInv, WaitForParseTypeInv, WaitForWriteTypeInv,
     ParseTypeInv, WriteTypeInv, FinishTypeInv
  DEF Next, Main, Done

(* What has been counted is no more than what was read. *)
LEMMA TypeInvTypeOK == FileInv /\ TasksBehind /\ TypeInv => TypeOK
<1> SUFFICES ASSUME FileInv, TasksBehind, TypeInv PROVE TypeOK
  OBVIOUS
<1>1. total_read \in 0 .. taken /\ taken \in 0 .. Len(input.content)
  BY DEF TypeInv, MainTypes, WriteTypes, Given, FileInv, FileFine, WriteFine, BuffersFine
<1>2. write.size < input.chunk_size
  BY Sizes DEF TypeInv, WriteTypes, FileInv
<1>3. QED
  BY <1>1, <1>2
  DEF TypeOK, TypeInv, MainTypes, BufferTypes, WriteTypes, RegionTypes, TasksBehind

(* For every input, whatever the turns of the tasks, the position of the    *)
(* task that looks for newlines is in its buffer, and the sizes and counts   *)
(* are those of the buffers.                                               *)
THEOREM TypeCorrect == Spec => []TypeOK
<1>1. Init => FileInv /\ TasksBehind /\ TypeInv
  BY InitFileInv, InitTasksBehind, InitTypeInv
<1>2. FileInv /\ TasksBehind /\ TypeInv /\ [Next]_vars
        => FileInv' /\ TasksBehind' /\ TypeInv'
  BY NextFileInv, NextTasksBehind, NextTypeInv
<1>3. FileInv /\ TasksBehind /\ TypeInv => TypeOK
  BY TypeInvTypeOK
<1>4. QED  BY <1>1, <1>2, <1>3, PTL DEF Spec

----------------------------------------------------------------------------
(* The newlines.                                                           *)

(* Newlines in their order, each once.  The first is the position before the *)
(* first row, which may be past the first buffer, and so be a newline itself. *)
Ordered(d) ==
  \A k \in 2 .. Len(d) : d[k - 1] <= d[k] /\ (k > 2 => d[k - 1] < d[k])

(* None after a bound, and only the first at it. *)
Before(d, b) == \A k \in 1 .. Len(d) : d[k] <= b /\ (k > 1 => d[k] < b)

(* When the index is complete, the newlines it was given are in their order *)
(* and in the file, and each after the first is a newline of the file, or    *)
(* the end of a last line without one.                                     *)
NewlinesInOrder ==
  pc = "done" =>
    LET d == scan.destination
    IN  /\ Ordered(d) /\ \A k \in 1 .. Len(d) : d[k] <= Len(out)
        /\ \A k \in 2 .. Len(d) :
             At(out, d[k]) \in {"lf", "cr"} \/ (k = Len(d) /\ d[k] = Len(out))

Ends == {"done", "stopped", "crashed"}

(* How far the indexing task may have come. *)
Bound == IF pc = "write" THEN total_read + sz ELSE total_read

(* A newline that has been read. *)
Newline(q) == q \in Nat /\ q < taken /\ input.content[q + 1] \in {"lf", "cr"}

(* Before the first buffer is given to the indexing task, and after that.   *)
FirstFine ==
  /\ pc = "open" => write.state = "none"
  /\ pc \in {"open", "parse"} /\ write.state = "none" =>
       /\ ~Parsing /\ total_read = 0 /\ remaining = input.n_max /\ scan.lines_read = 0
       /\ scan.destination = IF pc = "open" THEN <<>> ELSE BeforeFirst(start, input.n_max)

LaterFine ==
  /\ pc = "read" => write.state # "none"
  /\ pc = "parse" /\ write.state # "none" => start = 0

(* What has been found is in the buffers that the indexing task was given.  *)
FoundFine ==
  /\ Ordered(scan.destination)
  /\ pc \in {"write", "read", "finish"} \/ (pc = "parse" /\ write.state # "none") =>
       Before(scan.destination, Bound)
  /\ pc \notin Ends => \A k \in 2 .. Len(scan.destination) : Newline(scan.destination[k])

(* While the task runs, it has come to its position in a part of the content. *)
TaskFine ==
  Parsing =>
    /\ Before(scan.destination, region.call.offset + scan.pos)
    /\ region.call.offset + region.call.end <= Bound
    /\ \A k \in 1 .. region.call.end :
         buf[region.buf][k] = input.content[region.call.offset + k]

NewlinesInv == FirstFine /\ LaterFine /\ FoundFine /\ TaskFine /\ NewlinesInOrder

(* What a search finds before the null character is a newline. *)
LEMMA NextNewlineIsOne ==
  ASSUME NEW src, Len(src) \in Nat \ {0}, NEW pos \in Nat, NEW type \in {"any", "lf", "cr"},
         \A k \in 1 .. (Len(src) - 1) : src[k] # "nul"
  PROVE  LET q == NextNewline(src, pos, type)[1]
         IN  q < Len(src) - 1 => At(src, q) \in {"lf", "cr"}
<1>1. CASE pos >= Len(src)
  BY <1>1 DEF NextNewline
<1>2. CASE pos < Len(src)
  <2> DEFINE chars == {"nul"} \union IF type = "any" THEN {"lf", "cr"} ELSE {type}
             q     == FirstOf(src, pos, chars)
  <2>1. chars \subseteq {"nul", "lf", "cr"}
    OBVIOUS
  <2> HIDE DEF chars
  <2>2. q \in pos .. Len(src) /\ (q = Len(src) \/ At(src, q) \in chars)
    BY <1>2, FirstOfStops
  <2> HIDE DEF q
  <2>3. q < Len(src) - 1 => At(src, q) \in {"lf", "cr"}
    <3> SUFFICES ASSUME q < Len(src) - 1 PROVE At(src, q) \in {"lf", "cr"}
      OBVIOUS
    <3>1. q + 1 \in 1 .. (Len(src) - 1) /\ At(src, q) = src[q + 1]
      BY <1>2, <2>2 DEF At
    <3>2. src[q + 1] # "nul"
      BY <3>1
    <3>3. At(src, q) \in chars
      BY <2>2
    <3>4. QED  BY <2>1, <3>1, <3>2, <3>3
  <2>4. NextNewline(src, pos, type) = NewlineAt(src, q, Len(src))
    BY <1>2 DEF NextNewline, q, chars
  <2>5. \/ NewlineAt(src, q, Len(src))[1] = q
        \/ NewlineAt(src, q, Len(src))[1] = q + 1 /\ At(src, q + 1) = "lf"
    BY DEF NewlineAt
  <2>6. QED  BY <2>3, <2>4, <2>5
<1>3. QED  BY <1>1, <1>2

(* A bound may be moved forward. *)
LEMMA BeforeMore ==
  ASSUME NEW d \in Seq(Nat \union {-1}), NEW b \in Nat, NEW c \in Nat, b <= c, Before(d, b)
  PROVE  Before(d, c)
<1> SUFFICES ASSUME NEW k \in 1 .. Len(d) PROVE d[k] <= c /\ (k > 1 => d[k] < c)
  BY DEF Before
<1>1. d[k] \in Nat \union {-1} /\ d[k] <= b /\ (k > 1 => d[k] < b)
  BY DEF Before
<1>2. QED  BY <1>1

(* A newline that is not before the bound of the others goes after them.    *)
LEMMA AppendOrdered ==
  ASSUME NEW d \in Seq(Nat \union {-1}), Ordered(d), NEW b \in Nat, Before(d, b),
         NEW q \in Nat, b <= q
  PROVE  Ordered(Append(d, q)) /\ Before(Append(d, q), q + 1)
<1> DEFINE e == Append(d, q)
<1>1. /\ Len(e) = Len(d) + 1 /\ Len(d) \in Nat /\ e[Len(d) + 1] = q
      /\ \A k \in 1 .. Len(d) : e[k] = d[k] /\ d[k] \in Nat \union {-1}
  OBVIOUS
<1> HIDE DEF e
<1>2. ASSUME NEW k \in 2 .. Len(e) PROVE e[k - 1] <= e[k] /\ (k > 2 => e[k - 1] < e[k])
  <2>1. CASE k <= Len(d)
    <3>1. k \in 2 .. Len(d) /\ e[k] = d[k] /\ e[k - 1] = d[k - 1]
      BY <1>1, <2>1
    <3>2. QED  BY <3>1 DEF Ordered
  <2>2. CASE k = Len(d) + 1
    <3>1. k - 1 \in 1 .. Len(d) /\ e[k - 1] = d[k - 1] /\ e[k] = q
      BY <1>1, <2>2
    <3>2. d[k - 1] <= b /\ (k - 1 > 1 => d[k - 1] < b) /\ d[k - 1] \in Nat \union {-1}
      BY <1>1, <3>1 DEF Before
    <3>3. QED  BY <3>1, <3>2
  <2>3. QED  BY <1>1, <2>1, <2>2
<1>3. ASSUME NEW k \in 1 .. Len(e) PROVE e[k] <= q + 1 /\ (k > 1 => e[k] < q + 1)
  <2>1. CASE k <= Len(d)
    <3>1. e[k] = d[k] /\ d[k] <= b /\ d[k] \in Nat \union {-1}
      BY <1>1, <2>1 DEF Before
    <3>2. QED  BY <3>1
  <2>2. CASE k = Len(d) + 1
    BY <1>1, <2>2
  <2>3. QED  BY <1>1, <2>1, <2>2
<1>4. QED  BY <1>2, <1>3 DEF Ordered, Before, e

(* The position before the first row alone is in order. *)
LEMMA FirstOrdered ==
  ASSUME NEW s \in Nat, NEW n, NEW b \in Nat, s - 1 <= b
  PROVE  LET d == BeforeFirst(s, n) IN Len(d) \in {0, 1} /\ Ordered(d) /\ Before(d, b)
<1>1. BeforeFirst(s, n) \in {<<>>, <<s - 1>>}
  BY DEF BeforeFirst
<1>2. CASE BeforeFirst(s, n) = <<>>
  BY <1>2 DEF Ordered, Before
<1>3. CASE BeforeFirst(s, n) = <<s - 1>>
  BY <1>3 DEF Ordered, Before
<1>4. QED  BY <1>1, <1>2, <1>3

(* What the indexing task may have come to has been read. *)
LEMMA BoundFacts ==
  ASSUME FileInv, TypeInv
  PROVE  /\ Bound \in Nat /\ Bound <= taken /\ taken \in Nat /\ taken <= Len(input.content)
         /\ total_read \in Nat /\ sz \in Nat /\ start \in Nat /\ start <= sz + 1
         /\ scan.destination \in Seq(Nat \union {-1})
<1>1. total_read \in Nat /\ total_read = Given /\ total_read <= taken
  BY DEF TypeInv, MainTypes, WriteTypes, Given, FileInv, FileFine, WriteFine, BuffersFine
<1>2. taken \in Nat /\ taken <= Len(input.content) /\ scan.destination \in Seq(Nat \union {-1})
  BY Sizes DEF TypeInv, RegionTypes, LinesLocalsType, FileInv, BuffersFine
<1>3. sz \in Nat /\ start \in Nat /\ start <= sz + 1
  BY Sizes DEF TypeInv, MainTypes, FileInv
<1>4. pc = "write" => total_read + sz = taken
  BY <1>1 DEF FileInv, ReadFine
<1>5. QED  BY <1>1, <1>2, <1>3, <1>4 DEF Bound

(* No newline has been found at first. *)
LEMMA InitNewlinesInv == Init => NewlinesInv
<1> SUFFICES ASSUME Init PROVE NewlinesInv
  OBVIOUS
<1>1. /\ pc = "open" /\ write.state = "none" /\ ~Parsing /\ total_read = 0
      /\ remaining = input.n_max
  BY DEF Init, Parsing
<1>2. scan.lines_read = 0 /\ scan.destination = <<>>
  BY DEF Init, EnterLines, LinesCall
<1>3. QED
  BY <1>1, <1>2
  DEF NewlinesInv, FirstFine, LaterFine, FoundFine, TaskFine, NewlinesInOrder, Ordered,
      Before

(* The position before the first row, which is in the first buffer or at its *)
(* end.                                                                    *)
LEMMA OpenNewlines == FileInv /\ TasksBehind /\ TypeInv /\ NewlinesInv /\ Open => NewlinesInv'
<1> SUFFICES ASSUME FileInv, TasksBehind, TypeInv, NewlinesInv, Open PROVE NewlinesInv'
  OBVIOUS
<1>1. /\ scan' = [scan EXCEPT !.destination = BeforeFirst(start', input.n_max)]
      /\ pc' = IF sz' = 0 THEN "finish" ELSE "parse"
      /\ UNCHANGED <<input, total_read, remaining, region, write, out>> /\ pc = "open"
  BY DEF Open
<1>2. /\ write.state = "none" /\ ~Parsing /\ total_read = 0 /\ remaining = input.n_max
      /\ scan.lines_read = 0 /\ scan \in LinesLocalsType
  BY <1>1 DEF NewlinesInv, FirstFine, TypeInv, RegionTypes
<1>3. /\ scan'.destination = BeforeFirst(start', input.n_max) /\ scan'.lines_read = 0
      /\ ~Parsing'
  BY <1>1, <1>2 DEF LinesLocalsType, Parsing
<1>4. PICK s \in Nat : s = start' /\ (sz' = 0 => s <= 1)
  <2>1. sz' \in 0 .. (input.chunk_size - 1) /\ start' \in 0 .. (sz' + 1)
    BY <1>1, OpenTypeInv DEF TypeInv, MainTypes
  <2>2. PICK n \in Nat : n = sz'
    BY <2>1
  <2>3. start' \in 0 .. (n + 1)
    BY <2>1, <2>2
  <2>4. PICK s \in Nat : s = start' /\ s <= n + 1
    BY <2>3
  <2>5. n = 0 => s <= 1
    BY <2>4
  <2>6. QED  BY <2>2, <2>4, <2>5
<1>5. /\ Len(scan'.destination) \in {0, 1} /\ Ordered(scan'.destination)
      /\ sz' = 0 => Before(scan'.destination, 0)
  <2>1. s - 1 <= s /\ (s <= 1 => s - 1 <= 0)
    OBVIOUS
  <2>2. Len(BeforeFirst(s, input.n_max)) \in {0, 1} /\ Ordered(BeforeFirst(s, input.n_max))
    BY <2>1, FirstOrdered
  <2>3. sz' = 0 => Before(BeforeFirst(s, input.n_max), 0)
    BY <1>4, <2>1, FirstOrdered
  <2>4. QED  BY <1>3, <1>4, <2>2, <2>3
<1>6. FirstFine' /\ LaterFine'
  BY <1>1, <1>2, <1>3 DEF FirstFine, LaterFine
<1>7. pc' = "finish" => Bound' = 0 /\ sz' = 0
  BY <1>1, <1>2 DEF Bound
<1>8. FoundFine'
  <2>1. \A k \in 2 .. Len(scan'.destination) : FALSE
    <3>1. 2 .. 0 = {} /\ 2 .. 1 = {}
      OBVIOUS
    <3>2. QED  BY <1>5, <3>1
  <2>2. pc' \in {"write", "read", "finish"} \/ (pc' = "parse" /\ write'.state # "none") =>
          Before(scan'.destination, Bound')
    BY <1>1, <1>2, <1>5, <1>7
  <2>3. QED  BY <1>5, <2>1, <2>2 DEF FoundFine
<1>9. TaskFine' /\ NewlinesInOrder'
  BY <1>1, <1>3 DEF TaskFine, NewlinesInOrder
<1>10. QED  BY <1>6, <1>8, <1>9 DEF NewlinesInv

(* The indexing task goes on where the buffers before end. *)
LEMMA WaitForParseNewlines ==
  FileInv /\ TasksBehind /\ TypeInv /\ NewlinesInv /\ WaitForParse => NewlinesInv'
<1> SUFFICES ASSUME FileInv, TasksBehind, TypeInv, NewlinesInv, WaitForParse
             PROVE  NewlinesInv'
  OBVIOUS
<1>1. /\ UNCHANGED <<input, taken, buf, i, sz, start, total_read, write, out>>
      /\ pc = "parse" /\ ~Parsing
  BY DEF WaitForParse
<1>2. /\ total_read \in Nat /\ sz \in Nat /\ start \in Nat /\ start <= sz + 1
      /\ Bound = total_read
  BY <1>1, BoundFacts DEF Bound
<1>3. /\ Ordered(scan.destination)
      /\ \A k \in 2 .. Len(scan.destination) : Newline(scan.destination[k])
  BY <1>1 DEF NewlinesInv, FoundFine, Ends
<1>4. Before(scan.destination, total_read + start) /\ Before(scan.destination, total_read + sz)
  <2>1. CASE write.state = "none"
    <3>1. total_read = 0 /\ scan.destination = BeforeFirst(start, input.n_max)
      BY <1>1, <2>1 DEF NewlinesInv, FirstFine
    <3>2. start - 1 <= start /\ start - 1 <= sz /\ 0 + start = start /\ 0 + sz = sz
      BY <1>2
    <3>3. QED  BY <1>2, <3>1, <3>2, FirstOrdered
  <2>2. CASE write.state # "none"
    <3>1. Before(scan.destination, total_read) /\ start = 0
      BY <1>1, <1>2, <2>2 DEF NewlinesInv, FoundFine, LaterFine
    <3>2. Before(scan.destination, total_read + sz)
      BY <1>2, <3>1, BoundFacts, BeforeMore
    <3>3. QED  BY <1>2, <3>1, <3>2
  <2>3. QED  BY <2>1, <2>2
<1>5. CASE pc' = "finish" /\ UNCHANGED <<remaining, region, scan>> /\ ~Below(scan.lines_read, remaining)
  <2>1. FirstFine' /\ LaterFine' /\ TaskFine' /\ NewlinesInOrder'
    BY <1>1, <1>5 DEF FirstFine, LaterFine, TaskFine, NewlinesInOrder, Parsing
  <2>2. Before(scan.destination, total_read)
    <3>1. CASE write.state = "none"
      <4>1. /\ scan.lines_read = 0 /\ remaining = input.n_max
            /\ scan.destination = BeforeFirst(start, input.n_max)
        BY <1>1, <3>1 DEF NewlinesInv, FirstFine
      <4>2. input.n_max = 0
        BY <1>5, <4>1, Sizes DEF Below, FileInv
      <4>3. scan.destination = <<>>
        BY <4>1, <4>2 DEF BeforeFirst
      <4>4. QED  BY <4>3 DEF Before
    <3>2. CASE write.state # "none"
      BY <1>1, <1>2, <3>2 DEF NewlinesInv, FoundFine
    <3>3. QED  BY <3>1, <3>2
  <2>3. FoundFine'
    BY <1>1, <1>3, <1>5, <2>2 DEF FoundFine, Bound, Newline
  <2>4. QED  BY <2>1, <2>3 DEF NewlinesInv
<1>6. CASE /\ pc' = "write"
           /\ region' = [buf |-> i, call |-> LinesCall(start, sz, total_read, remaining')]
           /\ scan' = EnterLines(region'.call, scan.destination)
  <2>1. /\ region'.buf = i /\ region'.call.start = start /\ region'.call.end = sz
        /\ region'.call.offset = total_read
    BY <1>6 DEF LinesCall
  <2>2. scan'.destination = scan.destination /\ scan'.pos = start
    BY <1>6, <2>1 DEF EnterLines
  <2>3. Bound' = total_read + sz
    BY <1>1, <1>6 DEF Bound
  <2>4. FirstFine' /\ LaterFine' /\ NewlinesInOrder'
    BY <1>6 DEF FirstFine, LaterFine, NewlinesInOrder
  <2>5. FoundFine'
    BY <1>1, <1>3, <1>4, <1>6, <2>2, <2>3 DEF FoundFine, Newline
  <2>6. \A k \in 1 .. sz : buf[i][k] = input.content[total_read + k]
    BY <1>1 DEF FileInv, ReadFine, TypeInv, MainTypes
  <2>7. TaskFine'
    BY <1>1, <1>2, <1>4, <2>1, <2>2, <2>3, <2>6 DEF TaskFine
  <2>8. QED  BY <2>4, <2>5, <2>7 DEF NewlinesInv
<1>7. QED  BY <1>5, <1>6 DEF WaitForParse

(* What is given to the writing task counts. *)
LEMMA WaitForWriteNewlines ==
  FileInv /\ TasksBehind /\ TypeInv /\ NewlinesInv /\ WaitForWrite => NewlinesInv'
<1> SUFFICES ASSUME FileInv, TasksBehind, TypeInv, NewlinesInv, WaitForWrite
             PROVE  NewlinesInv'
  OBVIOUS
<1>1. /\ pc = "write" /\ pc' = "read"
      /\ write' = [buf |-> i, size |-> sz, state |-> "running"]
      /\ total_read' = total_read + sz
      /\ UNCHANGED <<input, taken, buf, i, sz, start, remaining, region, scan, out>>
  BY DEF WaitForWrite
<1>2. Bound' = Bound /\ write'.state # "none"
  BY <1>1 DEF Bound
<1>3. FirstFine' /\ LaterFine' /\ NewlinesInOrder'
  BY <1>1, <1>2 DEF FirstFine, LaterFine, NewlinesInOrder
<1>4. FoundFine'
  BY <1>1, <1>2 DEF NewlinesInv, FoundFine, Newline, Ends
<1>5. TaskFine'
  BY <1>1, <1>2 DEF NewlinesInv, TaskFine, Parsing
<1>6. QED  BY <1>3, <1>4, <1>5 DEF NewlinesInv

(* A read leaves the buffer that is indexed as it is. *)
LEMMA ReadNewlines == FileInv /\ TasksBehind /\ TypeInv /\ NewlinesInv /\ Read => NewlinesInv'
<1> SUFFICES ASSUME FileInv, TasksBehind, TypeInv, NewlinesInv, Read PROVE NewlinesInv'
  OBVIOUS
<1>1. /\ taken' = taken + Len(ReadConnection) /\ i' = 1 - i /\ start' = 0
      /\ buf' = IF sz' = 0 THEN buf ELSE [buf EXCEPT ![i'] = Append(ReadConnection, "nul")]
      /\ pc = "read" /\ pc' \in {"finish", "parse"}
      /\ UNCHANGED <<input, total_read, remaining, region, scan, write, out>>
  BY DEF Read
<1>2. write.state # "none"
  BY <1>1 DEF NewlinesInv, LaterFine
<1>3. Bound' = Bound
  BY <1>1 DEF Bound
<1>4. \A q : Newline(q) => Newline(q)'
  <2>1. PICK t \in Nat : t = taken' /\ taken <= t
    <3>1. taken \in Nat /\ Len(ReadConnection) \in Nat
      BY ReadFacts, BoundFacts DEF FileInv
    <3>2. taken + Len(ReadConnection) \in Nat /\ taken <= taken + Len(ReadConnection)
      BY <3>1
    <3>3. QED  BY <1>1, <3>2
  <2>2. taken \in Nat
    BY BoundFacts
  <2>3. QED  BY <1>1, <2>1, <2>2 DEF Newline
<1>5. FirstFine' /\ LaterFine' /\ NewlinesInOrder'
  BY <1>1, <1>2 DEF FirstFine, LaterFine, NewlinesInOrder
<1>6. FoundFine'
  BY <1>1, <1>3, <1>4 DEF NewlinesInv, FoundFine, Ends
<1>7. TaskFine'
  <2>1. Parsing => buf'[region.buf] = buf[region.buf]
    BY <1>1 DEF TasksBehind
  <2>2. QED  BY <1>1, <1>3, <2>1 DEF NewlinesInv, TaskFine, Parsing
<1>8. QED  BY <1>5, <1>6, <1>7 DEF NewlinesInv

(* What an iteration finds is a newline of the content, after those found   *)
(* before.                                                                 *)
LEMMA ParseNewlines == FileInv /\ TasksBehind /\ TypeInv /\ NewlinesInv /\ Parse => NewlinesInv'
<1> SUFFICES ASSUME FileInv, TasksBehind, TypeInv, NewlinesInv, Parse PROVE NewlinesInv'
  OBVIOUS
<1>1. /\ Parsing /\ scan' = LinesStep(buf[region.buf], region.call, scan)
      /\ UNCHANGED <<input, taken, pc, buf, i, sz, start, total_read, remaining, region,
                     write, out>>
  BY DEF Parse
<1> DEFINE src == buf[region.buf]
           p   == region.call
           d   == scan.destination
<1>2. /\ p \in LinesCallType /\ scan \in LinesLocalsType /\ scan.out = "running"
      /\ p.end = Len(src) - 1
  BY <1>1 DEF TypeInv, RegionTypes, Parsing
<1>3. /\ Before(d, p.offset + scan.pos) /\ p.offset + p.end <= Bound
      /\ \A k \in 1 .. p.end : src[k] = input.content[p.offset + k]
  BY <1>1 DEF NewlinesInv, TaskFine
<1>4. /\ p.end \in Nat /\ p.offset \in Nat /\ scan.pos \in Nat /\ Len(src) \in Nat \ {0}
      /\ scan.first_nl \in {"any", "lf", "cr"}
  <2>1. Len(src) \in Nat
    BY Sizes DEF FileInv, TypeInv, RegionTypes
  <2>2. QED  BY <1>2, <2>1, LinesFields
<1>5. /\ pc \notin Ends /\ pc # "open" /\ (pc = "parse" => write.state # "none")
  BY <1>1 DEF TasksBehind, NewlinesInv, FirstFine, Ends
<1>6. Ordered(d) /\ \A k \in 2 .. Len(d) : Newline(d[k])
  BY <1>5 DEF NewlinesInv, FoundFine
<1>7. UNCHANGED Bound /\ \A q : Newline(q)' <=> Newline(q)
  BY <1>1 DEF Bound, Newline
<1>8. FirstFine' /\ LaterFine' /\ NewlinesInOrder'
  BY <1>1, <1>5
  DEF NewlinesInv, FirstFine, LaterFine, NewlinesInOrder, Ends
<1> HIDE DEF src, p, d
<1>9. CASE scan' = Ended(scan)
  <2>1. scan'.destination = d /\ ~Parsing'
    BY <1>2, <1>9 DEF Ended, LinesLocalsType, Parsing, d
  <2>2. FoundFine' /\ TaskFine'
    BY <1>1, <1>6, <1>7, <2>1 DEF NewlinesInv, FoundFine, TaskFine, d
  <2>3. QED  BY <1>8, <2>2 DEF NewlinesInv
<1>10. CASE \E q \in scan.pos .. (p.end - 1) :
              scan' \in Found(p, scan, q) /\ q = NextNewline(src, scan.pos, scan.first_nl)[1]
  <2>1. PICK q \in scan.pos .. (p.end - 1) :
          scan' \in Found(p, scan, q) /\ q = NextNewline(src, scan.pos, scan.first_nl)[1]
    BY <1>10
  <2> DEFINE at == p.offset + q
  <2>2. scan'.destination = Append(d, at) /\ scan'.pos = q + 1
    BY <2>1 DEF Found, d
  <2>3. /\ at \in Nat /\ p.offset + scan.pos <= at /\ at + 1 <= Bound
        /\ p.offset + (q + 1) = at + 1 /\ p.offset + scan.pos \in Nat
        /\ Bound \in Nat /\ Bound <= taken /\ taken \in Nat /\ taken <= Len(input.content)
    <3>1. q \in Nat /\ scan.pos <= q /\ q + 1 <= p.end
      <4>1. scan.pos \in Nat /\ p.end \in Nat /\ q \in scan.pos .. (p.end - 1)
        BY <1>4, <2>1
      <4>2. QED  BY <4>1
    <3>2. Bound \in Nat /\ Bound <= taken /\ taken \in Nat /\ taken <= Len(input.content)
      BY BoundFacts
    <3>3. at + 1 <= p.offset + p.end /\ p.offset + p.end \in Nat
      BY <1>4, <3>1
    <3>4. at + 1 <= Bound
      BY <1>3, <1>4, <3>1, <3>2, <3>3
    <3>5. at \in Nat /\ p.offset + scan.pos <= at
      BY <1>4, <3>1
    <3>6. p.offset + (q + 1) = at + 1 /\ p.offset + scan.pos \in Nat
      <4>1. \A offset, a, b \in Nat : offset + (a + 1) = (offset + a) + 1 /\ offset + b \in Nat
        OBVIOUS
      <4>2. QED  BY <1>4, <3>1, <4>1
    <3>7. QED  BY <3>2, <3>4, <3>5, <3>6
  <2>4. Newline(at)
    <3>1. \A k \in 1 .. (Len(src) - 1) : src[k] # "nul"
      <4> SUFFICES ASSUME NEW k \in 1 .. (Len(src) - 1) PROVE src[k] # "nul"
        OBVIOUS
      <4>1. k \in 1 .. p.end
        BY <1>2
      <4>2. p.offset + k <= p.offset + p.end /\ p.offset + k \in Nat \ {0}
        <5>1. \A offset, end \in Nat : \A j \in 1 .. end :
                offset + j <= offset + end /\ offset + j \in Nat \ {0}
          OBVIOUS
        <5>2. QED  BY <1>4, <4>1, <5>1
      <4>3. p.offset + k <= taken
        <5>1. p.offset + p.end \in Nat /\ p.offset + p.end <= Bound
          BY <1>3, <1>4
        <5>2. \A a, b, c, e \in Nat : a <= b /\ b <= c /\ c <= e => a <= e
          OBVIOUS
        <5>3. p.offset + k \in Nat
          BY <4>2
        <5>4. Bound \in Nat /\ taken \in Nat /\ Bound <= taken
          BY <2>3
        <5>5. QED  BY <4>2, <5>1, <5>2, <5>3, <5>4
      <4>4. p.offset + k \in 1 .. Len(input.content)
        <5>1. Len(input.content) \in Nat
          BY Sizes DEF FileInv
        <5>2. p.offset + k <= Len(input.content)
          BY <2>3, <4>2, <4>3, <5>1
        <5>3. QED  BY <4>2, <5>1, <5>2
      <4>5. src[k] \in Char
        BY <1>3, <4>1, <4>4, Sizes DEF FileInv
      <4>6. QED  BY <4>5 DEF Char
    <3>2. q < Len(src) - 1 /\ q + 1 \in 1 .. p.end /\ At(src, q) = src[q + 1]
      BY <1>2, <1>4, <2>1 DEF At
    <3>3. src[q + 1] \in {"lf", "cr"}
      BY <1>4, <2>1, <3>1, <3>2, NextNewlineIsOne
    <3>4. input.content[at + 1] \in {"lf", "cr"}
      BY <1>3, <2>3, <3>2, <3>3
    <3>5. QED  BY <2>3, <3>4 DEF Newline
  <2>5. d \in Seq(Nat \union {-1})
    BY BoundFacts DEF d
  <2> HIDE DEF at
  <2>6. Ordered(Append(d, at)) /\ Before(Append(d, at), at + 1)
    BY <1>3, <1>6, <2>3, <2>5, AppendOrdered DEF d
  <2>7. Before(Append(d, at), Bound)
    <3>1. Append(d, at) \in Seq(Nat \union {-1}) /\ at + 1 \in Nat
      BY <2>3, <2>5
    <3>2. QED  BY <2>3, <2>6, <3>1, BeforeMore
  <2>8. \A k \in 2 .. Len(Append(d, at)) : Newline(Append(d, at)[k])
    <3> SUFFICES ASSUME NEW k \in 2 .. Len(Append(d, at)) PROVE Newline(Append(d, at)[k])
      OBVIOUS
    <3>1. \/ k \in 2 .. Len(d) /\ Append(d, at)[k] = d[k]
          \/ Append(d, at)[k] = at
      BY <2>5
    <3>2. QED  BY <1>6, <2>4, <3>1
  <2>9. FoundFine'
    BY <1>7, <2>2, <2>6, <2>7, <2>8 DEF FoundFine
  <2>10. TaskFine'
    <3>1. UNCHANGED <<buf, region, input>> /\ Before(Append(d, at), p.offset + (q + 1))
      BY <1>1, <2>3, <2>6
    <3>2. QED  BY <1>3, <1>7, <2>2, <3>1 DEF TaskFine, src, p
  <2>11. QED  BY <1>8, <2>9, <2>10 DEF NewlinesInv
<1>11. \/ LinesStep(src, p, scan) = Ended(scan)
       \/ \E q \in scan.pos .. (p.end - 1) :
            /\ LinesStep(src, p, scan) \in Found(p, scan, q)
            /\ q = NextNewline(src, scan.pos, scan.first_nl)[1]
  BY <1>2, <1>4, LinesStepFinds
<1>12. scan' = LinesStep(src, p, scan)
  BY <1>1 DEF src, p
<1>13. QED  BY <1>9, <1>10, <1>11, <1>12

(* The newlines do not depend on what has been written. *)
LEMMA WriteNewlines == FileInv /\ TasksBehind /\ NewlinesInv /\ Write => NewlinesInv'
<1> SUFFICES ASSUME FileInv, TasksBehind, NewlinesInv, Write PROVE NewlinesInv'
  OBVIOUS
<1>1. /\ Writing /\ write' = [write EXCEPT !.state = "done"]
      /\ UNCHANGED <<input, taken, pc, buf, i, sz, start, total_read, remaining, region,
                     scan>>
  BY DEF Write
<1>2. write.state # "none" /\ (write'.state = "none" => write'.state = write.state)
  BY <1>1 DEF Writing
<1>3. pc # "open" /\ pc \notin Ends
  BY <1>1 DEF TasksBehind, Ends
<1>4. write'.state # "none"
  BY <1>2
<1>5. FirstFine' /\ LaterFine' /\ NewlinesInOrder'
  BY <1>1, <1>2, <1>3, <1>4
  DEF NewlinesInv, FirstFine, LaterFine, NewlinesInOrder, Ends
<1>6. FoundFine' /\ TaskFine'
  BY <1>1, <1>2 DEF NewlinesInv, FoundFine, TaskFine, Bound, Newline, Parsing
<1>7. QED  BY <1>5, <1>6 DEF NewlinesInv

(* At the end everything that was counted is in the file, so the newlines    *)
(* are too.                                                                *)
LEMMA FinishNewlines == FileInv /\ TypeInv /\ NewlinesInv /\ Finish => NewlinesInv'
<1> SUFFICES ASSUME FileInv, TypeInv, NewlinesInv, Finish PROVE NewlinesInv'
  OBVIOUS
<1>1. /\ UNCHANGED <<input, taken, total_read, region, write, out>>
      /\ pc = "finish" /\ pc' \in Ends /\ ~Parsing /\ ~Writing
  BY DEF Finish, Ends
<1> DEFINE d == scan.destination
           e == Append(d, Len(out))
<1>2. d \in Seq(Nat \union {-1}) /\ Len(out) \in Nat
  BY BoundFacts DEF FileInv, FileFine
<1>3. Before(d, Len(out)) /\ Ordered(d) /\ \A k \in 2 .. Len(d) : Newline(d[k])
  <2>1. Bound = Len(out)
    <3>1. Given = Len(out) + 0 /\ Bound = total_read
      BY <1>1 DEF Given, Bound
    <3>2. QED  BY <1>2, <3>1 DEF TypeInv, MainTypes
  <2>2. QED  BY <1>1, <2>1 DEF NewlinesInv, FoundFine, Ends
<1>4. \A k \in 2 .. Len(d) : At(out, d[k]) \in {"lf", "cr"}
  <2> SUFFICES ASSUME NEW k \in 2 .. Len(d) PROVE At(out, d[k]) \in {"lf", "cr"}
    OBVIOUS
  <2>1. d[k] \in Nat /\ input.content[d[k] + 1] \in {"lf", "cr"}
    BY <1>3 DEF Newline
  <2>2. d[k] < Len(out)
    BY <1>3 DEF Before
  <2>3. d[k] + 1 \in 1 .. Len(out)
    BY <1>2, <2>1, <2>2
  <2>4. out[d[k] + 1] = input.content[d[k] + 1]
    BY <2>3 DEF FileInv, FileFine
  <2>5. QED  BY <2>1, <2>2, <2>4 DEF At
<1>5. \A k \in 1 .. Len(d) : d[k] <= Len(out)
  BY <1>3 DEF Before
<1>6. /\ Len(e) = Len(d) + 1 /\ e[Len(e)] = Len(out) /\ Len(d) \in Nat
      /\ \A k \in 1 .. Len(d) : e[k] = d[k]
  BY <1>2
<1>7. Ordered(e)
  BY <1>2, <1>3, AppendOrdered
<1>8. scan'.out = scan.out /\ scan'.destination \in {d, e}
  BY DEF Finish, TypeInv, RegionTypes, LinesLocalsType
<1> HIDE DEF d, e
<1>9. NewlinesInOrder'
  <2>1. CASE scan'.destination = d
    BY <1>1, <1>3, <1>4, <1>5, <2>1 DEF NewlinesInOrder
  <2>2. CASE scan'.destination = e
    <3>1. \A k \in 1 .. Len(e) : e[k] <= Len(out)
      BY <1>2, <1>5, <1>6
    <3>2. \A k \in 2 .. Len(e) :
            At(out, e[k]) \in {"lf", "cr"} \/ (k = Len(e) /\ e[k] = Len(out))
      BY <1>2, <1>4, <1>6
    <3>3. QED  BY <1>1, <1>7, <2>2, <3>1, <3>2 DEF NewlinesInOrder
  <2>3. QED  BY <1>8, <2>1, <2>2
<1>10. FirstFine' /\ LaterFine' /\ TaskFine'
  BY <1>1, <1>8 DEF FirstFine, LaterFine, TaskFine, Parsing, Ends
<1>11. FoundFine'
  BY <1>1, <1>3, <1>7, <1>8 DEF FoundFine, Ends
<1>12. QED  BY <1>9, <1>10, <1>11 DEF NewlinesInv

(* Every step keeps the newlines in order. *)
LEMMA NextNewlines ==
  FileInv /\ TasksBehind /\ TypeInv /\ NewlinesInv /\ [Next]_vars => NewlinesInv'
<1>1. NewlinesInv /\ UNCHANGED vars => NewlinesInv'
  BY DEF vars, NewlinesInv, FirstFine, LaterFine, FoundFine, TaskFine, NewlinesInOrder,
         Bound, Newline, Parsing
<1>2. QED
  BY <1>1, OpenNewlines, WaitForParseNewlines, WaitForWriteNewlines, ReadNewlines,
     ParseNewlines, WriteNewlines, FinishNewlines
  DEF Next, Main, Done

(* For every input, whatever the sizes of the buffers and the turns of the   *)
(* tasks, the newlines that the indexing tasks found are in the order of the *)
(* file, each is one of its newlines (or its end) and none is there twice.  *)
THEOREM NewlinesAlwaysInOrder == Spec => []NewlinesInOrder
<1>1. Init => FileInv /\ TasksBehind /\ TypeInv /\ NewlinesInv
  BY InitFileInv, InitTasksBehind, InitTypeInv, InitNewlinesInv
<1>2. FileInv /\ TasksBehind /\ TypeInv /\ NewlinesInv /\ [Next]_vars
        => FileInv' /\ TasksBehind' /\ TypeInv' /\ NewlinesInv'
  BY NextFileInv, NextTasksBehind, NextTypeInv, NextNewlines
<1>3. NewlinesInv => NewlinesInOrder
  BY DEF NewlinesInv
<1>4. QED  BY <1>1, <1>2, <1>3, PTL DEF Spec

----------------------------------------------------------------------------
(* A connection and a file.                                                *)

(* Every line of a text ends in e: a carriage return may only be before it, *)
(* if it is a line feed.                                                   *)
EachEndsIn(text, e) ==
  /\ e \in {"lf", "cr"}
  /\ \A q \in Nat : At(text, q) \in {"lf", "cr"} \ {e} =>
       e = "lf" /\ At(text, q + 1) = "lf"

(* What index_region looks at from a position on, for newlines of a type: up *)
(* to end, where any search stops.  A carriage return that has lost its line *)
(* feed to the next buffer is not the first newline that it looks for.      *)
Searched(src, end, pos, type, e) ==
  /\ Len(src) \in Nat /\ end = Len(src) - 1 /\ end \in Nat /\ pos \in Nat /\ pos <= end
  /\ e \in {"lf", "cr"} /\ type \in {"any", e}
  /\ At(src, end) \in {"nul", e}
  /\ \A q \in pos .. (end - 1) :
       /\ At(src, q) # "nul"
       /\ At(src, q) \in {"lf", "cr"} \ {e} =>
            /\ e = "lf"
            /\ \/ At(src, q + 1) = "lf"
               \/ type = "any" => \E k \in pos .. (q - 1) : At(src, k) \in {"lf", "cr"}

(* Then it finds the next one, or none before the end.                      *)
LEMMA SearchFinds ==
  ASSUME NEW src, NEW end, NEW pos, NEW type, NEW e, Searched(src, end, pos, type, e)
  PROVE  LET nl == NextNewline(src, pos, type)
         IN  /\ nl[1] \in Nat /\ pos <= nl[1]
             /\ nl[1] < end => At(src, nl[1]) = e /\ (type = "any" => nl[2] = e)
             /\ \A q \in pos .. (end - 1) : q < nl[1] => At(src, q) # e
<1> DEFINE chars == {"nul"} \union IF type = "any" THEN {"lf", "cr"} ELSE {type}
           q     == FirstOf(src, pos, chars)
           nl    == NextNewline(src, pos, type)
<1>1. /\ Len(src) \in Nat /\ end = Len(src) - 1 /\ end \in Nat /\ pos \in Nat /\ pos <= end
      /\ e \in {"lf", "cr"} /\ type \in {"any", e} /\ At(src, end) \in {"nul", e}
  BY DEF Searched
<1>2. nl = NewlineAt(src, q, Len(src))
  BY <1>1 DEF NextNewline
<1>3. /\ chars = IF type = "any" THEN {"nul", "lf", "cr"} ELSE {"nul", e}
  BY <1>1
<1> HIDE DEF chars
<1>4. /\ q \in pos .. Len(src) /\ (q = Len(src) \/ At(src, q) \in chars)
      /\ \A k \in pos .. (q - 1) : At(src, k) \notin chars
  BY <1>1, FirstOfStops
<1> HIDE DEF q, nl
<1>5. q \in Nat /\ pos <= q /\ q <= end
  <2>1. At(src, end) \in chars
    BY <1>1, <1>3
  <2>2. end \notin pos .. (q - 1)
    BY <1>4, <2>1
  <2>3. QED  BY <1>1, <1>4, <2>2
<1>6. \A k \in pos .. (q - 1) : At(src, k) # e
  <2>1. e \in chars
    BY <1>1, <1>3
  <2>2. QED  BY <1>4, <2>1
<1>7. \/ nl[1] = q
      \/ nl[1] = q + 1 /\ nl[2] = "lf" /\ At(src, q) = "cr" /\ At(src, q + 1) = "lf"
  <2>1. CASE At(src, q) = "cr" /\ q + 1 < Len(src) /\ At(src, q + 1) = "lf"
    <3>1. nl = <<q + 1, "lf">>
      BY <1>2, <2>1 DEF NewlineAt
    <3>2. QED  BY <2>1, <3>1
  <2>2. CASE ~(At(src, q) = "cr" /\ q + 1 < Len(src) /\ At(src, q + 1) = "lf")
    <3>1. nl = <<q, "lf">> \/ nl = <<q, "cr">>
      BY <1>2, <2>2 DEF NewlineAt
    <3>2. QED  BY <3>1
  <2>3. QED  BY <2>1, <2>2
<1>8. CASE q = end
  <2>1. nl[1] \in Nat /\ end <= nl[1]
    BY <1>1, <1>7, <1>8
  <2>2. \A k \in pos .. (end - 1) : At(src, k) # e
    BY <1>6, <1>8
  <2>3. QED  BY <1>1, <2>1, <2>2 DEF nl
<1>9. CASE q < end
  <2>1. At(src, q) \in chars /\ At(src, q) # "nul" /\ q \in pos .. (end - 1)
    <3>1. q \in pos .. (end - 1) /\ q # Len(src)
      BY <1>1, <1>5, <1>9
    <3>2. QED  BY <1>4, <3>1 DEF Searched
  <2>2. CASE At(src, q) = e
    <3>1. nl[1] = q /\ nl[2] = e
      <4>1. CASE e = "lf"
        BY <1>2, <2>2, <4>1 DEF NewlineAt
      <4>2. CASE e = "cr"
        <5>1. At(src, q + 1) # "lf"
          <6>1. CASE q + 1 = end
            BY <1>1, <4>2, <6>1
          <6>2. CASE q + 1 # end
            <7>1. q + 1 \in pos .. (end - 1)
              BY <1>1, <1>5, <1>9, <6>2
            <7>2. QED  BY <4>2, <7>1 DEF Searched
          <6>3. QED  BY <6>1, <6>2
        <5>2. QED  BY <1>2, <2>2, <4>2, <5>1 DEF NewlineAt
      <4>3. QED  BY <1>1, <4>1, <4>2
    <3>2. \A k \in pos .. (end - 1) : k < q => At(src, k) # e
      BY <1>1, <1>5, <1>6
    <3>3. QED  BY <1>5, <2>2, <3>1, <3>2 DEF nl
  <2>3. CASE At(src, q) # e
    <3>1. type = "any" /\ At(src, q) \in {"lf", "cr"} \ {e}
      BY <1>1, <1>3, <2>1, <2>3
    <3>2. \A k \in pos .. (q - 1) : At(src, k) \notin {"lf", "cr"}
      BY <1>3, <1>4, <3>1
    <3>3. e = "lf" /\ At(src, q) = "cr" /\ At(src, q + 1) = "lf"
      BY <2>1, <3>1, <3>2 DEF Searched
    <3>4. nl[1] = q + 1 /\ nl[2] = "lf"
      <4>1. q + 1 < Len(src)
        BY <1>1, <1>5, <1>9
      <4>2. QED  BY <1>2, <3>3, <4>1 DEF NewlineAt
    <3>5. \A k \in pos .. (end - 1) : k < q + 1 => At(src, k) # e
      <4> SUFFICES ASSUME NEW k \in pos .. (end - 1), k < q + 1 PROVE At(src, k) # e
        OBVIOUS
      <4>1. k = q \/ k \in pos .. (q - 1)
        BY <1>1, <1>5
      <4>2. QED  BY <1>6, <2>3, <4>1
    <3>6. nl[1] \in Nat /\ pos <= nl[1] /\ At(src, nl[1]) = e /\ nl[2] = e
      <4>1. q + 1 \in Nat /\ pos <= q + 1
        BY <1>1, <1>5
      <4>2. QED  BY <3>3, <3>4, <4>1
    <3>7. \A k \in pos .. (end - 1) : k < nl[1] => At(src, k) # e
      BY <3>4, <3>5
    <3>8. QED  BY <3>6, <3>7 DEF nl
  <2>4. QED  BY <2>2, <2>3
<1>10. QED  BY <1>1, <1>5, <1>8, <1>9

(* All newlines of a text from its first row to a bound, in their order, and *)
(* before them the position before that row.                               *)
Complete(d, text, e, first, b) ==
  /\ d \in Seq(Nat \union {-1}) /\ Len(d) > 0 /\ d[1] = first - 1
  /\ \A j, k \in 1 .. Len(d) : j < k => d[j] < d[k]
  /\ \A k \in 2 .. Len(d) : first <= d[k] /\ d[k] < b /\ At(text, d[k]) = e
  /\ \A q \in first .. (b - 1) : At(text, q) = e => \E k \in 2 .. Len(d) : d[k] = q

(* At first there are none.                                                *)
LEMMA CompleteFirst ==
  ASSUME NEW text, NEW e, NEW first \in Nat
  PROVE  Complete(<<first - 1>>, text, e, first, first)
<1> DEFINE d == <<first - 1>>
<1>1. first - 1 \in Nat \union {-1}
  OBVIOUS
<1>2. d \in Seq(Nat \union {-1}) /\ Len(d) = 1 /\ d[1] = first - 1
  BY <1>1
<1> HIDE DEF d
<1>3. 1 .. Len(d) = {1} /\ 2 .. Len(d) = {} /\ first .. (first - 1) = {}
  BY <1>2
<1>4. QED  BY <1>2, <1>3 DEF Complete, d

(* Where there is no newline the bound moves on. *)
LEMMA CompleteMore ==
  ASSUME NEW d, NEW text, NEW e, NEW first \in Nat, NEW b \in Nat, NEW c \in Nat, b <= c,
         Complete(d, text, e, first, b),
         \A q \in b .. (c - 1) : At(text, q) # e
  PROVE  Complete(d, text, e, first, c)
<1>1. /\ d \in Seq(Nat \union {-1}) /\ Len(d) > 0 /\ d[1] = first - 1
      /\ \A j, k \in 1 .. Len(d) : j < k => d[j] < d[k]
      /\ \A k \in 2 .. Len(d) : first <= d[k] /\ d[k] < b /\ At(text, d[k]) = e
      /\ \A q \in first .. (b - 1) : At(text, q) = e => \E k \in 2 .. Len(d) : d[k] = q
  BY DEF Complete
<1>2. ASSUME NEW k \in 2 .. Len(d) PROVE d[k] < c
  <2>1. d[k] \in Nat \union {-1} /\ d[k] < b
    BY <1>1
  <2>2. QED  BY <2>1
<1>3. ASSUME NEW q \in first .. (c - 1), At(text, q) = e
      PROVE  \E k \in 2 .. Len(d) : d[k] = q
  <2>1. q \notin b .. (c - 1)
    BY <1>3
  <2>2. q \in first .. (b - 1)
    BY <2>1
  <2>3. QED  BY <1>1, <1>3, <2>2
<1>4. QED  BY <1>1, <1>2, <1>3 DEF Complete

(* The next newline goes after the others. *)
LEMMA CompleteAppend ==
  ASSUME NEW d, NEW text, NEW e, NEW first \in Nat, NEW b \in Nat, first <= b,
         Complete(d, text, e, first, b),
         NEW at \in Nat, b <= at, At(text, at) = e,
         \A q \in b .. (at - 1) : At(text, q) # e
  PROVE  Complete(Append(d, at), text, e, first, at + 1)
<1> DEFINE n == Len(d)
           f == Append(d, at)
<1>1. /\ d \in Seq(Nat \union {-1}) /\ n > 0 /\ d[1] = first - 1 /\ n \in Nat
      /\ \A j, k \in 1 .. n : j < k => d[j] < d[k]
      /\ \A k \in 2 .. n : first <= d[k] /\ d[k] < at /\ At(text, d[k]) = e
      /\ \A q \in first .. (at - 1) : At(text, q) = e => \E k \in 2 .. n : d[k] = q
  <2>1. Complete(d, text, e, first, at)
    BY CompleteMore
  <2>2. QED  BY <2>1 DEF Complete
<1>2. /\ f \in Seq(Nat \union {-1}) /\ Len(f) = n + 1 /\ f[n + 1] = at
      /\ \A k \in 1 .. n : f[k] = d[k] /\ d[k] \in Nat \union {-1}
  BY <1>1
<1> HIDE DEF n, f
<1>3. \A k \in 1 .. n : d[k] < at
  <2> SUFFICES ASSUME NEW k \in 1 .. n PROVE d[k] < at
    OBVIOUS
  <2>1. CASE k = 1
    BY <1>1, <2>1
  <2>2. CASE k # 1
    <3>1. k \in 2 .. n
      BY <1>1, <2>2
    <3>2. QED  BY <1>1, <3>1
  <2>3. QED  BY <2>1, <2>2
<1>4. ASSUME NEW j \in 1 .. Len(f), NEW k \in 1 .. Len(f), j < k PROVE f[j] < f[k]
  <2>1. j \in 1 .. n /\ (k \in 1 .. n \/ k = n + 1)
    BY <1>1, <1>2, <1>4
  <2>2. QED  BY <1>1, <1>2, <1>3, <1>4, <2>1
<1>5. ASSUME NEW k \in 2 .. Len(f)
      PROVE  first <= f[k] /\ f[k] < at + 1 /\ At(text, f[k]) = e
  <2>1. k = n + 1 \/ (k \in 2 .. n /\ k \in 1 .. n)
    BY <1>1, <1>2
  <2>2. CASE k = n + 1
    BY <1>2, <2>2
  <2>3. CASE k \in 2 .. n /\ k \in 1 .. n
    <3>1. f[k] = d[k] /\ d[k] \in Nat \union {-1} /\ d[k] < at
      BY <1>1, <1>2, <2>3
    <3>2. QED  BY <1>1, <2>3, <3>1
  <2>4. QED  BY <2>1, <2>2, <2>3
<1>6. ASSUME NEW q \in first .. at, At(text, q) = e PROVE \E k \in 2 .. Len(f) : f[k] = q
  <2>1. CASE q = at
    <3>1. n + 1 \in 2 .. Len(f)
      BY <1>1, <1>2
    <3>2. QED  BY <1>2, <2>1, <3>1
  <2>2. CASE q # at
    <3>1. q \in first .. (at - 1)
      BY <2>2
    <3>2. PICK k \in 2 .. n : d[k] = q
      BY <1>1, <1>6, <3>1
    <3>3. k \in 2 .. Len(f) /\ k \in 1 .. n
      BY <1>1, <1>2
    <3>4. QED  BY <1>2, <3>2, <3>3
  <2>3. QED  BY <2>1, <2>2
<1>7. Len(f) > 0 /\ f[1] = first - 1 /\ (at + 1) - 1 = at
  BY <1>1, <1>2
<1>8. QED  BY <1>2, <1>4, <1>5, <1>6, <1>7 DEF Complete, f

(* There is one such sequence: two cannot differ first where one goes on.   *)
LEMMA CompleteAgree ==
  ASSUME NEW c, NEW d, NEW text, NEW e, NEW first \in Nat, NEW b \in Nat,
         Complete(c, text, e, first, b), Complete(d, text, e, first, b),
         NEW k \in 1 .. Len(d), \A j \in 1 .. (k - 1) : j <= Len(c) /\ c[j] = d[j]
  PROVE  k <= Len(c) /\ c[k] = d[k]
<1>1. /\ Len(c) \in Nat /\ Len(d) \in Nat /\ Len(c) > 0 /\ c[1] = d[1]
      /\ \A j \in 1 .. Len(c) : c[j] \in Int
      /\ \A j \in 1 .. Len(d) : d[j] \in Int
      /\ \A j, m \in 1 .. Len(c) : j < m => c[j] < c[m]
      /\ \A j, m \in 1 .. Len(d) : j < m => d[j] < d[m]
  <2>1. c \in Seq(Nat \union {-1}) /\ d \in Seq(Nat \union {-1}) /\ Len(c) > 0 /\ c[1] = d[1]
    BY DEF Complete
  <2>2. \A s \in Seq(Nat \union {-1}) : Len(s) \in Nat /\ \A j \in 1 .. Len(s) : s[j] \in Int
    OBVIOUS
  <2>3. QED  BY <2>1, <2>2 DEF Complete
<1>2. /\ \A j \in 2 .. Len(d) : d[j] \in first .. (b - 1) /\ At(text, d[j]) = e
      /\ \A j \in 2 .. Len(c) : c[j] \in first .. (b - 1) /\ At(text, c[j]) = e
  <2>1. \A x \in Int : first <= x /\ x < b => x \in first .. (b - 1)
    OBVIOUS
  <2>2. \A j \in 2 .. Len(d) : first <= d[j] /\ d[j] < b /\ At(text, d[j]) = e /\ d[j] \in Int
    BY <1>1 DEF Complete
  <2>3. \A j \in 2 .. Len(c) : first <= c[j] /\ c[j] < b /\ At(text, c[j]) = e /\ c[j] \in Int
    BY <1>1 DEF Complete
  <2>4. QED  BY <2>1, <2>2, <2>3
<1>3. CASE k = 1
  BY <1>1, <1>3
<1>4. CASE k # 1
  <2>1. k \in 2 .. Len(d) /\ d[k] \in first .. (b - 1) /\ At(text, d[k]) = e
    BY <1>2, <1>4
  <2>2. PICK j \in 2 .. Len(c) : c[j] = d[k]
    BY <2>1 DEF Complete
  <2>3. ~(j < k)
    <3>1. j < k => j \in 1 .. (k - 1) /\ j \in 1 .. Len(d)
      BY <2>1
    <3>2. QED  BY <1>1, <2>2, <3>1
  <2>4. ~(k < j)
    <3> SUFFICES ASSUME k < j PROVE FALSE
      OBVIOUS
    <3>1. k \in 2 .. Len(c) /\ k \in 1 .. Len(c) /\ j \in 1 .. Len(c) /\ c[k] < c[j]
      <4>1. k \in 2 .. Len(c) /\ k \in 1 .. Len(c) /\ j \in 1 .. Len(c)
        BY <1>1, <2>1
      <4>2. QED  BY <1>1, <4>1
    <3>2. c[k] \in first .. (b - 1) /\ At(text, c[k]) = e
      BY <1>2, <3>1
    <3>3. PICK i_ \in 2 .. Len(d) : d[i_] = c[k]
      BY <3>2 DEF Complete
    <3>4. i_ \in 1 .. Len(d) /\ d[i_] < d[k] /\ i_ \in Nat
      BY <1>1, <2>2, <3>1, <3>3
    <3>5. ~(k <= i_)
      <4>1. k < i_ => d[k] < d[i_]
        BY <1>1, <3>4
      <4>2. d[k] \in Int /\ d[i_] \in Int
        BY <1>1, <3>4
      <4>3. QED  BY <3>4, <4>1, <4>2
    <3>6. i_ \in 1 .. (k - 1)
      BY <3>3, <3>5
    <3>7. c[i_] = c[k] /\ i_ < k /\ i_ \in 1 .. Len(c)
      BY <3>1, <3>3, <3>6
    <3>8. c[i_] < c[k]
      BY <1>1, <3>1, <3>7
    <3>9. c[k] \in Int
      BY <1>1, <3>1
    <3>10. QED  BY <3>7, <3>8, <3>9
  <2>5. j = k
    BY <2>3, <2>4
  <2>6. QED  BY <2>2, <2>5
<1>5. QED  BY <1>3, <1>4

LEMMA CompleteSame ==
  ASSUME NEW c, NEW d, NEW text, NEW e, NEW first \in Nat, NEW b \in Nat,
         Complete(c, text, e, first, b), Complete(d, text, e, first, b)
  PROVE  c = d
<1>1. c \in Seq(Nat \union {-1}) /\ d \in Seq(Nat \union {-1})
      /\ Len(c) \in Nat /\ Len(d) \in Nat
  BY DEF Complete
<1> DEFINE Differ == {k \in Nat : /\ k > 0 /\ (k <= Len(c) \/ k <= Len(d))
                                  /\ ~(k <= Len(c) /\ k <= Len(d) /\ c[k] = d[k])}
<1>2. ASSUME Differ # {} PROVE FALSE
  <2>1. PICK k \in Differ : \A j \in Differ : k <= j
    BY <1>2, LeastElement
  <2>2. \A j \in 1 .. (k - 1) : j <= Len(c) /\ j <= Len(d) /\ c[j] = d[j]
    <3> SUFFICES ASSUME NEW j \in 1 .. (k - 1)
                 PROVE  j <= Len(c) /\ j <= Len(d) /\ c[j] = d[j]
      OBVIOUS
    <3>1. j \in Nat /\ j > 0 /\ j < k /\ k \in Nat /\ (k <= Len(c) \/ k <= Len(d))
      OBVIOUS
    <3>2. j \notin Differ
      BY <2>1, <3>1
    <3>3. j <= Len(c) \/ j <= Len(d)
      BY <1>1, <3>1
    <3>4. QED  BY <3>1, <3>2, <3>3
  <2>3. CASE k <= Len(d)
    <3>1. k \in 1 .. Len(d)
      BY <1>1, <2>3
    <3>2. \A j \in 1 .. (k - 1) : j <= Len(c) /\ c[j] = d[j]
      BY <2>2
    <3>3. k <= Len(c) /\ c[k] = d[k]
      BY <3>1, <3>2, CompleteAgree
    <3>4. QED  BY <2>3, <3>3
  <2>4. CASE k <= Len(c)
    <3>1. k \in 1 .. Len(c)
      BY <1>1, <2>4
    <3>2. k <= Len(d) /\ d[k] = c[k]
      BY <2>2, <3>1, CompleteAgree
    <3>3. QED  BY <2>4, <3>2
  <2>5. QED  BY <2>3, <2>4
<1>3. Len(c) = Len(d) /\ \A k \in 1 .. Len(c) : c[k] = d[k]
  <2>1. Len(c) <= Len(d)
    <3>1. Len(c) > 0 => Len(c) \notin Differ
      BY <1>2
    <3>2. QED  BY <1>1, <3>1
  <2>2. Len(d) <= Len(c)
    <3>1. Len(d) > 0 => Len(d) \notin Differ
      BY <1>2
    <3>2. QED  BY <1>1, <3>1
  <2>3. Len(c) = Len(d)
    BY <1>1, <2>1, <2>2
  <2>4. ASSUME NEW k \in 1 .. Len(c) PROVE c[k] = d[k]
    <3>1. k \in Nat /\ k > 0 /\ k <= Len(c) /\ k \notin Differ
      BY <1>1, <1>2
    <3>2. QED  BY <3>1
  <2>5. QED  BY <2>3, <2>4
<1>4. QED  BY <1>1, <1>3

(* A call that goes over a part of a text, from the first row on.           *)
Part(src, p, text, first, b) ==
  /\ p \in LinesCallType /\ p.n_max = Unlimited
  /\ first \in Nat /\ b \in Nat /\ first <= b
  /\ \A q \in 0 .. (p.end - 1) : At(src, q) = At(text, p.offset + q)

(* An iteration finds the next newline of the text, or goes to the end of   *)
(* the part.                                                               *)
LEMMA StepCompletes ==
  ASSUME NEW src, NEW p, NEW text, NEW e, NEW first,
         NEW r \in LinesLocalsType, r.out = "running",
         Part(src, p, text, first, p.offset + r.pos),
         Searched(src, p.end, r.pos, r.first_nl, e),
         Complete(r.destination, text, e, first, p.offset + r.pos)
  PROVE  LET s == LinesStep(src, p, r)
         IN  /\ s \in LinesLocalsType
             /\ \/ s.out = "end" /\ Complete(s.destination, text, e, first, p.offset + p.end)
                \/ /\ s.out = "running" /\ s.pos > r.pos /\ s.pos <= p.end /\ s.first_nl = e
                   /\ Complete(s.destination, text, e, first, p.offset + s.pos)
<1> DEFINE nl == NextNewline(src, r.pos, r.first_nl)
           q  == nl[1]
           s  == LinesStep(src, p, r)
<1>1. /\ p.end \in Nat /\ p.offset \in Nat /\ r.pos \in Nat /\ r.lines_read \in Nat
      /\ r.destination \in Seq(Nat \union {-1}) /\ p.n_max = Unlimited
      /\ first \in Nat /\ first <= p.offset + r.pos /\ p \in LinesCallType
      /\ \A k \in 0 .. (p.end - 1) : At(src, k) = At(text, p.offset + k)
  BY LinesFields DEF Part
<1>2. e \in {"lf", "cr"} /\ r.first_nl \in {"any", e} /\ r.pos <= p.end
  BY DEF Searched
<1>3. /\ q \in Nat /\ r.pos <= q
      /\ q < p.end => At(src, q) = e /\ (r.first_nl = "any" => nl[2] = e)
      /\ \A k \in r.pos .. (p.end - 1) : k < q => At(src, k) # e
  BY SearchFinds
<1> HIDE DEF q
<1>4. CASE q >= p.end
  <2>1. s = [r EXCEPT !.out = "end"]
    BY <1>4 DEF LinesStep, q
  <2>2. s \in LinesLocalsType /\ s.out = "end" /\ s.destination = r.destination
    BY <2>1 DEF LinesLocalsType
  <2>3. \A k \in (p.offset + r.pos) .. (p.offset + p.end - 1) : At(text, k) # e
    <3> SUFFICES ASSUME NEW k \in (p.offset + r.pos) .. (p.offset + p.end - 1)
                 PROVE  At(text, k) # e
      OBVIOUS
    <3>1. /\ k - p.offset \in r.pos .. (p.end - 1) /\ k - p.offset \in 0 .. (p.end - 1)
          /\ p.offset + (k - p.offset) = k /\ k - p.offset < q
      <4>1. k \in Int /\ p.offset + r.pos <= k /\ k <= p.offset + p.end - 1
        BY <1>1
      <4>2. k - p.offset \in Int /\ r.pos <= k - p.offset /\ k - p.offset <= p.end - 1
        BY <1>1, <4>1
      <4>3. p.offset + (k - p.offset) = k
        BY <1>1, <4>1
      <4>4. k - p.offset < q
        BY <1>1, <1>3, <1>4, <4>2
      <4>5. k - p.offset \in r.pos .. (p.end - 1) /\ k - p.offset \in 0 .. (p.end - 1)
        BY <1>1, <4>2
      <4>6. QED  BY <4>3, <4>4, <4>5
    <3>2. QED  BY <1>1, <1>3, <3>1
  <2>4. Complete(r.destination, text, e, first, p.offset + p.end)
    <3>1. /\ p.offset + r.pos \in Nat /\ p.offset + p.end \in Nat
          /\ p.offset + r.pos <= p.offset + p.end
      BY <1>1, <1>2
    <3>2. PICK b \in Nat : b = p.offset + r.pos
      BY <3>1
    <3>3. PICK c \in Nat : c = p.offset + p.end
      BY <3>1
    <3>4. Complete(r.destination, text, e, first, b) /\ b <= c
          /\ \A k \in b .. (c - 1) : At(text, k) # e
      <4>1. Complete(r.destination, text, e, first, b)
        BY <3>2
      <4>2. b <= c
        BY <3>1, <3>2, <3>3
      <4>3. \A k \in b .. (c - 1) : At(text, k) # e
        <5> SUFFICES ASSUME NEW k \in b .. (c - 1) PROVE At(text, k) # e
          OBVIOUS
        <5>1. k \in (p.offset + r.pos) .. (p.offset + p.end - 1)
          BY <1>1, <3>2, <3>3
        <5>2. QED  BY <2>3, <5>1
      <4>4. QED  BY <4>1, <4>2, <4>3
    <3>5. Complete(r.destination, text, e, first, c)
      BY <1>1, <3>4, CompleteMore
    <3>6. QED  BY <3>3, <3>5
  <2>5. QED  BY <2>2, <2>4
<1>5. CASE q < p.end
  <2> DEFINE at     == p.offset + q
             pushed == Append(r.destination, at)
  <2>1. s = [r EXCEPT !.destination = pushed, !.lines_read = r.lines_read + 1,
                      !.pos = q + 1, !.first_nl = e, !.out = "running"]
    <3>1. (IF r.first_nl = "any" THEN nl[2] ELSE r.first_nl) = e
      BY <1>2, <1>3, <1>5
    <3>2. (IF Below(r.lines_read + 1, p.n_max) THEN r.out ELSE "n_max") = "running"
      BY <1>1 DEF Below
    <3>3. ~(q >= p.end)
      BY <1>1, <1>3, <1>5
    <3>4. s = [r EXCEPT !.destination = Append(@, p.offset + nl[1]), !.lines_read = @ + 1,
                        !.pos = nl[1] + 1,
                        !.first_nl = IF @ = "any" THEN nl[2] ELSE @,
                        !.out = IF Below(r.lines_read + 1, p.n_max) THEN @ ELSE "n_max"]
      BY <3>3 DEF LinesStep, q
    <3>5. QED  BY <3>1, <3>2, <3>4 DEF LinesLocalsType, q
  <2>2. at \in Nat /\ p.offset + r.pos <= at /\ at + 1 = p.offset + (q + 1)
        /\ p.offset + r.pos \in Nat
    <3>1. p.offset \in Nat /\ q \in Nat /\ r.pos \in Nat /\ r.pos <= q
      BY <1>1, <1>3
    <3>2. QED  BY <3>1
  <2>3. pushed \in Seq(Nat \union {-1}) /\ q + 1 \in Nat
    BY <1>1, <1>3, <2>2
  <2>4. At(text, at) = e /\ \A k \in (p.offset + r.pos) .. (at - 1) : At(text, k) # e
    <3>1. q \in 0 .. (p.end - 1)
      BY <1>1, <1>3, <1>5
    <3>2. At(text, at) = e
      BY <1>1, <1>3, <1>5, <3>1
    <3> SUFFICES ASSUME NEW k \in (p.offset + r.pos) .. (at - 1) PROVE At(text, k) # e
      BY <3>2
    <3>3. /\ k - p.offset \in r.pos .. (p.end - 1) /\ k - p.offset \in 0 .. (p.end - 1)
          /\ p.offset + (k - p.offset) = k /\ k - p.offset < q
      BY <1>1, <1>3, <1>5
    <3>4. QED  BY <1>1, <1>3, <3>3
  <2> HIDE DEF q, s
  <2>5. Complete(pushed, text, e, first, at + 1)
    <3> HIDE DEF at
    <3>1. QED  BY <1>1, <2>2, <2>4, CompleteAppend
  <2> HIDE DEF at, pushed
  <2>6. /\ s \in LinesLocalsType /\ s.out = "running" /\ s.pos = q + 1 /\ s.first_nl = e
        /\ s.destination = pushed
    <3>1. r.lines_read + 1 \in Nat
      BY <1>1
    <3>2. QED  BY <1>2, <2>1, <2>3, <3>1 DEF LinesLocalsType
  <2>7. q + 1 > r.pos /\ q + 1 <= p.end
    BY <1>1, <1>3, <1>5
  <2>8. Complete(s.destination, text, e, first, p.offset + s.pos)
    BY <2>2, <2>5, <2>6
  <2>9. QED  BY <2>6, <2>7, <2>8 DEF s
<1>6. QED  BY <1>1, <1>3, <1>4, <1>5

(* The locals that an uninterrupted call goes through.                      *)
LEMMA RunLinesTurns ==
  ASSUME NEW src, Len(src) \in Nat, NEW p, NEW destination,
         NEW S, EnterLines(p, destination) \in S,
         \A r \in S : r.out = "running" => LinesStep(src, p, r) \in S
  PROVE  \E run \in [0 .. (Len(src) + 1) -> S] :
           /\ run[0] = EnterLines(p, destination)
           /\ \A n \in 1 .. (Len(src) + 1) :
                run[n] = IF run[n - 1].out = "running" THEN LinesStep(src, p, run[n - 1])
                         ELSE run[n - 1]
           /\ RunLines(src, p, destination) = run[Len(src) + 1]
<1> DEFINE N       == Len(src) + 1
           init    == EnterLines(p, destination)
           step(r) == IF r.out = "running" THEN LinesStep(src, p, r) ELSE r
           Body(f) ==
             [n \in 0 .. N |->
                IF n = 0 THEN init
                ELSE CHOOSE after \in {step(before) : before \in {f[n - 1]}} : TRUE]
           run == CHOOSE f : f = Body(f)
<1>1. RunLines(src, p, destination) = run[N]
  BY DEF RunLines
<1>2. \A r \in S : step(r) \in S
  OBVIOUS
<1>3. N \in Nat /\ init \in S
  OBVIOUS
<1> HIDE DEF N, init, step
<1>4. \A c : (CHOOSE after \in {step(before) : before \in {c}} : TRUE) = step(c)
  OBVIOUS
<1>5. \E f : f = Body(f)
  <2> DEFINE next == [x \in (1 .. N) \X S |-> step(x[2])]
  <2>1. next \in [(1 .. N) \X S -> S]
    BY <1>2
  <2>2. PICK f \in [0 .. N -> S] :
          f[0] = init /\ \A n \in 1 .. N : f[n] = next[<<n, f[n - 1]>>]
    <3> HIDE DEF next
    <3>1. Iterations(N, S, init, next) # {}
      BY <1>3, <2>1, Recursion
    <3>2. QED  BY <3>1 DEF Iterations
  <2>3. \A n \in 1 .. N : f[n] = step(f[n - 1])
    <3> SUFFICES ASSUME NEW n \in 1 .. N PROVE f[n] = step(f[n - 1])
      OBVIOUS
    <3>1. f[n - 1] \in S
      BY <1>3, <2>2
    <3>2. next[<<n, f[n - 1]>>] = step(f[n - 1])
      BY <3>1
    <3>3. QED  BY <2>2, <3>2
  <2>4. \A n \in 0 .. N : f[n] = Body(f)[n]
    <3> SUFFICES ASSUME NEW n \in 0 .. N PROVE f[n] = Body(f)[n]
      OBVIOUS
    <3>1. CASE n = 0
      BY <2>2, <3>1
    <3>2. CASE n # 0
      <4>1. f[n] = step(f[n - 1])
        BY <1>3, <2>3, <3>2
      <4>2. QED  BY <1>4, <3>2, <4>1
    <3>3. QED  BY <3>1, <3>2
  <2>5. f = [n \in 0 .. N |-> f[n]]
    BY <2>2
  <2>6. f = Body(f)
    BY <2>4, <2>5
  <2>7. QED  BY <2>6
<1>6. run = Body(run)
  BY <1>5
<1> HIDE DEF run
<1>7. run[0] = init /\ \A n \in 1 .. N : run[n] = step(run[n - 1])
  <2>1. run[0] = init
    BY <1>3, <1>6
  <2>2. ASSUME NEW n \in 1 .. N PROVE run[n] = step(run[n - 1])
    <3>1. n \in 0 .. N /\ n # 0
      BY <1>3
    <3>2. run[n] = CHOOSE after \in {step(before) : before \in {run[n - 1]}} : TRUE
      BY <1>6, <3>1
    <3>3. QED  BY <1>4, <3>2
  <2>3. QED  BY <2>1, <2>2
<1>8. \A n \in 0 .. N : run[n] \in S
  BY <1>2, <1>3, <1>7, Iteration
<1>9. run \in [0 .. N -> S]
  <2>1. run = [n \in 0 .. N |-> run[n]]
    BY <1>6
  <2>2. QED  BY <1>8, <2>1
<1>10. QED  BY <1>1, <1>7, <1>9 DEF N, init, step

(* In a file the call finds all newlines but the last.                      *)
LEMMA FileCompletes ==
  ASSUME NEW text \in File, NEW e, EachEndsIn(text, e), At(text, Len(text) - 1) = e,
         NEW first \in Nat, first < Len(text)
  PROVE  Complete(RunLines(text, LinesCall(first, Len(text) - 1, 0, Unlimited),
                           <<first - 1>>).destination,
                  text, e, first, Len(text) - 1)
<1> DEFINE p    == LinesCall(first, Len(text) - 1, 0, Unlimited)
           d    == <<first - 1>>
           last == Len(text) - 1
           Good == {r \in LinesLocalsType :
                      \/ /\ r.out = "running" /\ first <= r.pos /\ r.pos <= last
                         /\ r.first_nl \in {"any", e}
                         /\ Complete(r.destination, text, e, first, r.pos)
                      \/ r.out = "end" /\ Complete(r.destination, text, e, first, last)}
<1>1. Len(text) \in Nat /\ last \in Nat /\ first <= last /\ text \in Seq(Char)
  BY DEF File
<1>2. /\ p \in LinesCallType /\ p.start = first /\ p.end = last /\ p.offset = 0
      /\ p.n_max = Unlimited
  BY <1>1 DEF LinesCall, LinesCallType, Unlimited
<1> HIDE DEF p
<1>3. EnterLines(p, d) \in Good
  <2>1. d \in Seq(Nat \union {-1})
    <3>1. first - 1 \in Nat \union {-1}
      OBVIOUS
    <3>2. QED  BY <3>1
  <2>2. /\ EnterLines(p, d) \in LinesLocalsType /\ EnterLines(p, d).pos = first
        /\ EnterLines(p, d).out = "running" /\ EnterLines(p, d).destination = d
    BY <1>2, <2>1, EnterLinesType
  <2>3. EnterLines(p, d).first_nl = "any"
    BY DEF EnterLines
  <2>4. Complete(d, text, e, first, first)
    BY CompleteFirst
  <2> HIDE DEF d
  <2>5. QED  BY <1>1, <2>2, <2>3, <2>4
<1> HIDE DEF d
<1>4. ASSUME NEW r \in Good, r.out = "running"
      PROVE  /\ LinesStep(text, p, r) \in Good
             /\ LinesStep(text, p, r).out = "running" => LinesStep(text, p, r).pos > r.pos
  <2>1. /\ r \in LinesLocalsType /\ first <= r.pos /\ r.pos <= last
        /\ r.first_nl \in {"any", e} /\ Complete(r.destination, text, e, first, r.pos)
        /\ r.pos \in Nat
    BY <1>4 DEF LinesLocalsType
  <2>2. /\ p.offset + r.pos = r.pos /\ p.offset + p.end = last
        /\ \A q \in 0 .. (p.end - 1) : p.offset + q = q
    BY <1>1, <1>2, <2>1
  <2>3. Part(text, p, text, first, p.offset + r.pos)
    BY <1>2, <2>1, <2>2 DEF Part
  <2>4. Searched(text, p.end, r.pos, r.first_nl, e)
    <3>1. e \in {"lf", "cr"}
      BY DEF EachEndsIn
    <3>2. ASSUME NEW q \in r.pos .. (p.end - 1)
          PROVE  /\ At(text, q) # "nul"
                 /\ At(text, q) \in {"lf", "cr"} \ {e} => e = "lf" /\ At(text, q + 1) = "lf"
      <4>1. q \in Nat /\ q < Len(text)
        BY <1>1, <1>2, <2>1
      <4>2. At(text, q) \in Char
        <5>1. q + 1 \in 1 .. Len(text)
          BY <1>1, <4>1
        <5>2. text[q + 1] \in Char
          BY <1>1, <5>1
        <5>3. QED  BY <4>1, <5>2 DEF At
      <4>3. At(text, q) # "nul"
        BY <4>2 DEF Char
      <4>4. QED  BY <4>1, <4>3 DEF EachEndsIn
    <3>3. QED  BY <1>1, <1>2, <2>1, <3>1, <3>2 DEF Searched
  <2>5. Complete(r.destination, text, e, first, p.offset + r.pos)
    BY <2>1, <2>2
  <2> DEFINE s == LinesStep(text, p, r)
  <2>6. /\ s \in LinesLocalsType
        /\ \/ s.out = "end" /\ Complete(s.destination, text, e, first, p.offset + p.end)
           \/ /\ s.out = "running" /\ s.pos > r.pos /\ s.pos <= p.end /\ s.first_nl = e
              /\ Complete(s.destination, text, e, first, p.offset + s.pos)
    BY <1>4, <2>1, <2>3, <2>4, <2>5, StepCompletes
  <2> HIDE DEF s
  <2>7. CASE s.out = "end" /\ Complete(s.destination, text, e, first, p.offset + p.end)
    BY <2>2, <2>6, <2>7 DEF s
  <2>8. CASE /\ s.out = "running" /\ s.pos > r.pos /\ s.pos <= p.end /\ s.first_nl = e
             /\ Complete(s.destination, text, e, first, p.offset + s.pos)
    <3>1. s.pos \in Nat
      BY <2>6 DEF LinesLocalsType
    <3>2. p.offset + s.pos = s.pos /\ first <= s.pos /\ s.pos <= last
      BY <1>1, <1>2, <2>1, <2>8, <3>1
    <3>3. QED  BY <2>6, <2>8, <3>2 DEF s
  <2>9. QED  BY <2>6, <2>7, <2>8
<1> HIDE DEF Good
<1>5. PICK run \in [0 .. (Len(text) + 1) -> Good] :
        /\ run[0] = EnterLines(p, d)
        /\ \A n \in 1 .. (Len(text) + 1) :
             run[n] = IF run[n - 1].out = "running" THEN LinesStep(text, p, run[n - 1])
                      ELSE run[n - 1]
        /\ RunLines(text, p, d) = run[Len(text) + 1]
  BY <1>1, <1>3, <1>4, RunLinesTurns
<1> DEFINE N   == Len(text) + 1
           Far == {n \in 0 .. N : run[n].out = "running" => n <= run[n].pos}
<1>6. /\ N \in Nat
      /\ \A n \in 0 .. N : run[n] \in Good /\ (run[n].out = "running" => run[n].pos \in Nat)
  <2>1. \A r \in Good : r.out = "running" => r.pos \in Nat
    BY DEF Good, LinesLocalsType
  <2>2. QED  BY <1>1, <2>1
<1>7. \A n \in 0 .. N : n \in Far
  <2>1. 0 \in Far
    BY <1>6
  <2>2. ASSUME NEW n \in 1 .. N, n - 1 \in Far PROVE n \in Far
    <3> SUFFICES ASSUME run[n].out = "running" PROVE n <= run[n].pos
      OBVIOUS
    <3>1. n - 1 \in 0 .. N /\ n \in 0 .. N
      BY <1>6
    <3>2. run[n - 1].out = "running"
      BY <1>5
    <3>3. run[n] = LinesStep(text, p, run[n - 1]) /\ run[n - 1] \in Good
      BY <1>5, <3>1, <3>2
    <3>4. run[n].pos > run[n - 1].pos /\ run[n - 1].pos \in Nat /\ run[n].pos \in Nat
      BY <1>4, <1>6, <3>1, <3>2, <3>3
    <3>5. n - 1 <= run[n - 1].pos
      BY <2>2, <3>2
    <3>6. QED  BY <3>4, <3>5
  <2> HIDE DEF Far
  <2>3. QED  BY <1>6, <2>1, <2>2, UpTo
<1>8. run[N].out # "running" /\ run[N] \in Good
  <2>1. N \in 0 .. N /\ run[N] \in Good
    BY <1>6
  <2>2. run[N].out = "running" => N <= run[N].pos /\ run[N].pos <= last
    BY <1>7, <2>1 DEF Good
  <2>3. QED  BY <1>1, <1>6, <2>1, <2>2
<1>9. Complete(run[N].destination, text, e, first, last)
  BY <1>8 DEF Good
<1>10. QED  BY <1>5, <1>9 DEF p, d

(* A buffer that holds the first characters of a file, or all of them, and   *)
(* then a null character.                                                  *)
BeginsFile(chunk, src) ==
  /\ Len(src) \in Nat /\ Len(chunk) \in Nat \ {0} /\ Len(chunk) - 1 <= Len(src)
  /\ \A q \in Nat : q < Len(chunk) - 1 => At(chunk, q) = At(src, q)
  /\ At(chunk, Len(chunk) - 1) = "nul"

(* What strcspn finds in it is what it finds in the file. *)
LEMMA FirstOfAlike ==
  ASSUME NEW chunk, NEW src, BeginsFile(chunk, src), NEW pos \in Nat, pos < Len(chunk) - 1,
         NEW chars, "nul" \notin chars
  PROVE  LET a == FirstOf(chunk, pos, chars)
             b == FirstOf(src, pos, chars)
         IN  /\ a \in pos .. Len(chunk) /\ b \in pos .. Len(src)
             /\ \/ a = b /\ a < Len(chunk) - 1
                \/ a >= Len(chunk) - 1 /\ b >= Len(chunk) - 1
<1> DEFINE size == Len(chunk) - 1
           a    == FirstOf(chunk, pos, chars)
           b    == FirstOf(src, pos, chars)
<1>1. /\ size \in Nat /\ Len(src) \in Nat /\ size <= Len(src) /\ Len(chunk) = size + 1
      /\ pos < size /\ \A q \in Nat : q < size => At(chunk, q) = At(src, q)
  BY DEF BeginsFile
<1> HIDE DEF size
<1>2. /\ a \in pos .. Len(chunk) /\ (a = Len(chunk) \/ At(chunk, a) \in chars)
      /\ \A k \in pos .. (a - 1) : At(chunk, k) \notin chars
  <2>1. Len(chunk) \in Nat /\ pos <= Len(chunk)
    BY <1>1
  <2>2. QED  BY <2>1, FirstOfStops
<1>3. /\ b \in pos .. Len(src) /\ (b = Len(src) \/ At(src, b) \in chars)
      /\ \A k \in pos .. (b - 1) : At(src, k) \notin chars
  <2>1. pos <= Len(src)
    BY <1>1
  <2>2. QED  BY <1>1, <2>1, FirstOfStops
<1> HIDE DEF a, b
<1>4. CASE b < size
  <2>1. b \in Nat /\ At(src, b) \in chars /\ At(chunk, b) \in chars
    BY <1>1, <1>3, <1>4
  <2>2. a <= b
    BY <1>1, <1>2, <1>3, <2>1
  <2>3. a \in Nat /\ a < size /\ At(src, a) \in chars
    BY <1>1, <1>2, <1>4, <2>1, <2>2
  <2>4. b <= a
    BY <1>1, <1>2, <1>3, <2>3
  <2>5. QED  BY <1>2, <1>3, <2>1, <2>2, <2>3, <2>4 DEF a, b, size
<1>5. CASE ~(b < size)
  <2>1. ~(a < size)
    <3> SUFFICES ASSUME a < size PROVE FALSE
      OBVIOUS
    <3>1. a \in Nat /\ At(src, a) \in chars
      BY <1>1, <1>2
    <3>2. a \in pos .. (b - 1)
      BY <1>1, <1>2, <1>3, <1>5
    <3>3. QED  BY <1>3, <3>1, <3>2
  <2>2. QED  BY <1>1, <1>2, <1>3, <1>5, <2>1 DEF a, b, size
<1>6. QED  BY <1>4, <1>5

(* A line that is blank or a comment in the file is in the buffer, and the   *)
(* other way round, if it has its newline there or is neither.             *)
LEMMA KindAlike ==
  ASSUME NEW chunk, NEW src, BeginsFile(chunk, src), NEW pos \in Nat, pos < Len(chunk) - 1,
         \/ FirstOf(src, pos, Char \ {"blank"}) < Len(chunk) - 1
         \/ ~IsBlankLine(src, pos) /\ ~IsCommentLine(src, pos)
  PROVE  /\ IsBlankLine(chunk, pos) <=> IsBlankLine(src, pos)
         /\ IsCommentLine(chunk, pos) <=> IsCommentLine(src, pos)
<1> DEFINE size == Len(chunk) - 1
           v    == FirstOf(chunk, pos, Char \ {"blank"})
           w    == FirstOf(src, pos, Char \ {"blank"})
<1>1. /\ size \in Nat /\ Len(chunk) = size + 1 /\ At(chunk, size) = "nul"
      /\ \A q \in Nat : q < size => At(chunk, q) = At(src, q)
  BY DEF BeginsFile
<1>2. /\ v \in pos .. Len(chunk) /\ w \in pos .. Len(src)
      /\ (v = w /\ v < size) \/ (v >= size /\ w >= size)
  <2>1. "nul" \notin Char \ {"blank"}
    BY DEF Char
  <2>2. QED  BY <2>1, FirstOfAlike
<1>3. /\ IsBlankLine(chunk, pos) <=> SkipEmptyRows /\ At(chunk, v) \in {"lf", "cr"}
      /\ IsBlankLine(src, pos) <=> SkipEmptyRows /\ At(src, w) \in {"lf", "cr"}
      /\ IsCommentLine(chunk, pos) <=> HasComment /\ At(chunk, v) = "hash"
      /\ IsCommentLine(src, pos) <=> HasComment /\ At(src, w) = "hash"
  BY DEF IsBlankLine, IsCommentLine, FirstNotOf
<1>4. w < size \/ (~IsBlankLine(src, pos) /\ ~IsCommentLine(src, pos))
  OBVIOUS
<1> HIDE DEF size, v, w
<1>5. CASE v = w /\ v < size
  <2>1. At(chunk, v) = At(src, w)
    BY <1>1, <1>2, <1>5
  <2>2. QED  BY <1>3, <2>1
<1>6. CASE v >= size /\ w >= size
  <2>1. ~(w < size)
    BY <1>1, <1>2, <1>6
  <2>2. v = size \/ v = Len(chunk)
    BY <1>1, <1>2, <1>6
  <2>3. At(chunk, v) \notin {"lf", "cr", "hash"}
    <3>1. ~(Len(chunk) < Len(chunk))
      BY <1>1
    <3>2. At(chunk, Len(chunk)) = "eof"
      BY <3>1 DEF At
    <3>3. QED  BY <1>1, <2>2, <3>2
  <2>4. QED  BY <1>3, <1>4, <2>1, <2>3
<1>7. QED  BY <1>2, <1>5, <1>6

(* So find_first_line does the same in both as long as it stays in the      *)
(* buffer.                                                                 *)
LEMMA TurnAlike ==
  ASSUME NEW chunk, NEW src \in File, BeginsFile(chunk, src), NEW pos \in Nat,
         NEW skip \in Int, pos < Len(src) - 1, Turned(src, pos, skip) < Len(chunk) - 1
  PROVE  /\ SkipsLine(chunk, pos, skip) <=> SkipsLine(src, pos, skip)
         /\ Turned(chunk, pos, skip) = Turned(src, pos, skip)
<1> DEFINE size == Len(chunk) - 1
           q    == FirstOf(src, pos, {"lf", "cr"})
           p    == FirstOf(chunk, pos, {"lf", "cr"})
           w    == FirstOf(src, pos, Char \ {"blank"})
<1>1. /\ size \in Nat /\ Len(chunk) = size + 1 /\ Len(src) \in Nat /\ size <= Len(src)
      /\ \A k \in Nat : k < size => At(chunk, k) = At(src, k)
      /\ Turned(src, pos, skip) < size
  BY DEF BeginsFile
<1>2. Turned(src, pos, skip) \in Nat /\ Turned(src, pos, skip) >= pos
  BY TurnedForward
<1>3. pos < size
  BY <1>1, <1>2
<1>4. /\ SkipsLine(src, pos, skip) <=>
           skip > 0 \/ IsBlankLine(src, pos) \/ IsCommentLine(src, pos)
      /\ SkipsLine(chunk, pos, skip) <=>
           skip > 0 \/ IsBlankLine(chunk, pos) \/ IsCommentLine(chunk, pos)
  BY <1>1, <1>3 DEF SkipsLine
<1>5. CASE SkipsLine(src, pos, skip)
  <2>1. /\ NextLine(src, pos) = 1 + FindNextNewline(src, pos)[1]
        /\ NextLine(chunk, pos) = 1 + FindNextNewline(chunk, pos)[1]
    BY FixedWidthAssumption DEF NextLine
  <2>2. /\ FindNextNewline(src, pos) = NewlineAt(src, q, Len(src))
        /\ FindNextNewline(chunk, pos) = NewlineAt(chunk, p, Len(chunk))
    BY <1>1, <1>3 DEF FindNextNewline
  <2>3. /\ q \in pos .. Len(src) /\ (q = Len(src) \/ At(src, q) \in {"lf", "cr"})
    BY FirstOfStops
  <2>4. (p = q /\ p < size) \/ q >= size
    BY <1>3, FirstOfAlike
  <2> HIDE DEF q, p, size
  <2>5. NewlineAt(src, q, Len(src))[1] \in {q, q + 1}
    BY DEF NewlineAt
  <2>6. NextLine(src, pos) < size
    BY <1>1, <1>5 DEF Turned
  <2>7. q \in Nat /\ q + 1 < size
    BY <1>1, <2>1, <2>2, <2>3, <2>5, <2>6
  <2>8. p = q
    BY <1>1, <2>4, <2>7
  <2>9. NewlineAt(chunk, q, Len(chunk)) = NewlineAt(src, q, Len(src))
    <3>1. /\ At(chunk, q) = At(src, q) /\ At(chunk, q + 1) = At(src, q + 1)
          /\ q + 1 < Len(chunk) /\ q + 1 < Len(src)
      BY <1>1, <2>7
    <3>2. QED  BY <3>1 DEF NewlineAt
  <2>10. NextLine(chunk, pos) = NextLine(src, pos)
    BY <2>1, <2>2, <2>8, <2>9
  <2>11. w < size
    <3>1. /\ w \in pos .. Len(src)
          /\ \A k \in pos .. (w - 1) : At(src, k) \notin Char \ {"blank"}
      BY FirstOfStops
    <3>2. At(src, q) \in Char \ {"blank"}
      BY <1>1, <2>3, <2>7 DEF Char
    <3>3. q \notin pos .. (w - 1)
      BY <3>1, <3>2
    <3> HIDE DEF w
    <3>4. w <= q
      BY <1>1, <2>3, <3>1, <3>3
    <3>5. QED  BY <1>1, <2>7, <3>1, <3>4
  <2>12. /\ IsBlankLine(chunk, pos) <=> IsBlankLine(src, pos)
         /\ IsCommentLine(chunk, pos) <=> IsCommentLine(src, pos)
    BY <1>3, <2>11, KindAlike DEF size
  <2>13. SkipsLine(chunk, pos, skip)
    BY <1>4, <1>5, <2>12
  <2>14. QED  BY <1>5, <2>10, <2>13 DEF Turned
<1>6. CASE ~SkipsLine(src, pos, skip)
  <2>1. ~(skip > 0) /\ ~IsBlankLine(src, pos) /\ ~IsCommentLine(src, pos)
    BY <1>4, <1>6
  <2>2. ~IsBlankLine(chunk, pos) /\ ~IsCommentLine(chunk, pos)
    BY <1>3, <2>1, KindAlike
  <2>3. ~SkipsLine(chunk, pos, skip)
    BY <1>4, <2>1, <2>2
  <2>4. QED  BY <1>6, <2>3 DEF Turned
<1>7. QED  BY <1>5, <1>6

(* The first row is the same one when it starts in the buffer, and not at    *)
(* the last character of the file.                                          *)
LEMMA FirstLineAlike ==
  ASSUME NEW chunk, NEW src \in File, BeginsFile(chunk, src), NEW skip \in Nat,
         FindFirstLine(src, skip) < Len(chunk) - 1, FindFirstLine(src, skip) < Len(src) - 1
  PROVE  FindFirstLine(chunk, skip) = FindFirstLine(src, skip)
<1> DEFINE size == Len(chunk) - 1
           b    == FindFirstLine(src, skip)
<1>1. /\ size \in Nat /\ Len(chunk) = size + 1 /\ Len(src) \in Nat \ {0} /\ size <= Len(src)
      /\ b < size /\ b < Len(src) - 1 /\ Len(chunk) \in Nat \ {0}
  BY DEF BeginsFile, File
<1>2. PICK c \in Lines(chunk, skip) : FindFirstLine(chunk, skip) = c[Len(chunk)]
  BY <1>1, FindFirstLineLines
<1>3. PICK f \in Lines(src, skip) : b = f[Len(src)]
  BY <1>1, FindFirstLineLines
<1>4. b \in Nat
  BY <1>1, FindFirstLineForward
<1> HIDE DEF size, b
<1>5. /\ c[0] = 0 /\ f[0] = 0
      /\ \A n \in 0 .. size : f[n] \in Nat
      /\ \A n \in 1 .. size : /\ c[n] = Turned(chunk, c[n - 1], skip - (n - 1))
                              /\ f[n] = Turned(src, f[n - 1], skip - (n - 1))
  <2>1. /\ c[0] = 0 /\ f \in [0 .. Len(src) -> Nat] /\ f[0] = 0
        /\ \A n \in 1 .. Len(chunk) : c[n] = Turned(chunk, c[n - 1], skip - (n - 1))
        /\ \A n \in 1 .. Len(src) : f[n] = Turned(src, f[n - 1], skip - (n - 1))
    BY DEF Lines, Turned
  <2>2. \A n \in 0 .. size : n \in 0 .. Len(src)
    BY <1>1
  <2>3. \A n \in 1 .. size : n \in 1 .. Len(chunk) /\ n \in 1 .. Len(src)
    BY <1>1
  <2>4. QED  BY <2>1, <2>2, <2>3
<1>6. \A n \in 0 .. size : f[n] <= b
  <2> SUFFICES ASSUME NEW n \in 0 .. size PROVE f[n] <= b
    OBVIOUS
  <2>1. n \in 0 .. Len(src)
    BY <1>1
  <2>2. f[Len(src)] >= f[n]
    BY <2>1, LinesForward
  <2>3. QED  BY <1>3, <1>4, <1>5, <2>2
<1>7. \A n \in 0 .. size : \A k \in Int :
        Turned(src, f[n], k) <= b =>
          /\ SkipsLine(chunk, f[n], k) <=> SkipsLine(src, f[n], k)
          /\ Turned(chunk, f[n], k) = Turned(src, f[n], k)
  <2> SUFFICES ASSUME NEW n \in 0 .. size, NEW k \in Int, Turned(src, f[n], k) <= b
               PROVE  /\ SkipsLine(chunk, f[n], k) <=> SkipsLine(src, f[n], k)
                      /\ Turned(chunk, f[n], k) = Turned(src, f[n], k)
    OBVIOUS
  <2>1. f[n] \in Nat /\ f[n] < Len(src) - 1
    BY <1>1, <1>4, <1>5, <1>6
  <2>2. Turned(src, f[n], k) < Len(chunk) - 1
    <3>1. Turned(src, f[n], k) \in Nat
      BY <2>1, TurnedForward
    <3>2. QED  BY <1>1, <1>4, <3>1
  <2>3. QED  BY <2>1, <2>2, TurnAlike
<1> DEFINE Agree == {n \in 0 .. size : c[n] = f[n]}
           Gone  == {n \in 0 .. size : f[n] >= n \/ ~SkipsLine(src, f[n], skip - n)}
<1>8. 0 \in Agree /\ 0 \in Gone
  BY <1>1, <1>5
<1>9. ASSUME NEW n \in 1 .. size
      PROVE  /\ n - 1 \in Agree => n \in Agree
             /\ n - 1 \in Gone => n \in Gone
  <2> DEFINE k == skip - (n - 1)
  <2>1. n - 1 \in 0 .. size /\ n \in 0 .. size /\ k \in Int /\ k - 1 = skip - n
    BY <1>1
  <2>2. /\ c[n] = Turned(chunk, c[n - 1], k) /\ f[n] = Turned(src, f[n - 1], k)
        /\ f[n - 1] \in Nat /\ f[n] \in Nat /\ f[n] <= b
    BY <1>5, <1>6, <2>1
  <2> HIDE DEF k
  <2>3. n - 1 \in Agree => n \in Agree
    <3> SUFFICES ASSUME c[n - 1] = f[n - 1] PROVE c[n] = f[n]
      BY <2>1
    <3>1. Turned(chunk, f[n - 1], k) = Turned(src, f[n - 1], k)
      BY <1>7, <2>1, <2>2
    <3>2. QED  BY <2>2, <3>1
  <2>4. n - 1 \in Gone => n \in Gone
    <3>1. CASE SkipsLine(src, f[n - 1], k) /\ f[n - 1] >= n - 1
      <4>1. f[n] = NextLine(src, f[n - 1])
        BY <2>2, <3>1 DEF Turned
      <4>2. f[n - 1] < Len(src)
        BY <1>1, <1>4, <1>6, <2>1, <2>2
      <4>3. f[n - 1] < f[n]
        BY <2>2, <4>1, <4>2, NextLineForward
      <4>4. QED  BY <2>1, <2>2, <3>1, <4>3
    <3>2. CASE ~SkipsLine(src, f[n - 1], k)
      <4>1. f[n] = f[n - 1]
        BY <2>2, <3>2 DEF Turned
      <4>2. skip - n > 0 => k > 0
        BY <2>1
      <4>3. ~SkipsLine(src, f[n - 1], skip - n)
        BY <3>2, <4>2 DEF SkipsLine
      <4>4. QED  BY <2>1, <4>1, <4>3
    <3>3. QED  BY <2>1, <3>1, <3>2 DEF k
  <2>5. QED  BY <2>3, <2>4
<1> HIDE DEF Agree, Gone
<1>10. \A n \in 0 .. size : n \in Agree
  BY <1>1, <1>8, <1>9, UpTo
<1>11. \A n \in 0 .. size : n \in Gone
  BY <1>1, <1>8, <1>9, UpTo
<1>12. size \in 0 .. size /\ size \in 0 .. Len(src) /\ size \in 0 .. Len(chunk)
       /\ skip - size \in Int
  BY <1>1
<1>13. c[size] = f[size] /\ ~SkipsLine(src, f[size], skip - size)
  <2>1. ~(f[size] >= size)
    BY <1>1, <1>4, <1>5, <1>6, <1>12
  <2>2. QED  BY <1>10, <1>11, <1>12, <2>1 DEF Agree, Gone
<1>14. f[Len(src)] = f[size]
  BY <1>1, <1>12, <1>13, FirstLineFound
<1>15. ~SkipsLine(chunk, c[size], skip - size)
  <2>1. Turned(src, f[size], skip - size) = f[size]
    BY <1>13 DEF Turned
  <2>2. QED  BY <1>6, <1>7, <1>12, <1>13, <2>1
<1>16. c[Len(chunk)] = c[size]
  BY <1>1, <1>12, <1>15, FirstLineFound
<1>17. QED  BY <1>2, <1>3, <1>13, <1>14, <1>16 DEF b

(* A text has one kind of newlines. *)
UniformNewlines(text) ==
  \/ \A q \in Nat : At(text, q) # "cr"
  \/ \A q \in Nat : At(text, q) # "lf"
  \/ \A q \in Nat : At(text, q) = "cr" <=> At(text, q + 1) = "lf"

(* So each of its lines ends in what the last one ends in. *)
LEMMA UniformEnds ==
  ASSUME NEW text \in File, UniformNewlines(text)
  PROVE  EachEndsIn(text, At(text, Len(text) - 1))
<1> DEFINE e == At(text, Len(text) - 1)
<1>1. Len(text) \in Nat \ {0} /\ e \in {"lf", "cr"} /\ Len(text) - 1 \in Nat
  BY DEF File, At
<1>2. At(text, Len(text)) = "eof"
  BY <1>1 DEF At
<1> HIDE DEF e
<1>3. ASSUME NEW q \in Nat, At(text, q) \in {"lf", "cr"} \ {e}
      PROVE  e = "lf" /\ At(text, q + 1) = "lf"
  <2>1. CASE \A k \in Nat : At(text, k) # "cr"
    BY <1>1, <1>3, <2>1 DEF e
  <2>2. CASE \A k \in Nat : At(text, k) # "lf"
    BY <1>1, <1>3, <2>2 DEF e
  <2>3. CASE \A k \in Nat : At(text, k) = "cr" <=> At(text, k + 1) = "lf"
    <3>1. e # "cr"
      <4>1. Len(text) - 1 + 1 = Len(text)
        BY <1>1
      <4>2. QED  BY <1>1, <1>2, <2>3, <4>1 DEF e
    <3>2. QED  BY <1>1, <1>3, <2>3, <3>1
  <2>4. QED  BY <2>1, <2>2, <2>3 DEF UniformNewlines
<1>4. QED  BY <1>1, <1>3 DEF EachEndsIn, e

(* A file ends before its last character when its lines end in both.        *)
EndsInBoth(text) ==
  /\ At(text, Len(text) - 1) = "lf" /\ At(text, Len(text) - 2) = "cr"
  /\ Len(text) > 2 => At(text, Len(text) - 3) # "cr"

LEMMA LastNewlineIs ==
  ASSUME NEW text \in File, UniformNewlines(text), NEW first \in Nat, first < Len(text) - 1
  PROVE  \/ LastNewline(text, first) = Len(text) - 1
         \/ LastNewline(text, first) = Len(text) - 2 /\ EndsInBoth(text)
<1> DEFINE nl == FindNextNewline(text, first)[1]
<1>1. /\ Len(text) \in Nat /\ Len(text) - 1 \in Nat /\ Len(text) - 2 \in Nat
      /\ At(text, Len(text) - 1) \in {"lf", "cr"} /\ At(text, Len(text)) = "eof"
  <2>1. Len(text) \in Nat /\ Len(text) > 0 /\ text[Len(text)] \in {"lf", "cr"}
    BY DEF File
  <2>2. Len(text) - 1 \in Nat /\ Len(text) - 2 \in Nat
    BY <2>1
  <2>3. At(text, Len(text) - 1) = text[Len(text)] /\ At(text, Len(text)) = "eof"
    BY <2>1 DEF At
  <2>4. QED  BY <2>1, <2>2, <2>3
<1>2. nl \in Nat
  BY FindNextNewlineInFile
<1> HIDE DEF nl
<1>3. LastNewline(text, first) =
        IF nl > first /\ At(text, nl) = "lf" /\ At(text, nl - 1) = "cr" THEN Len(text) - 2
        ELSE Len(text) - 1
  BY DEF LastNewline, nl
<1>4. CASE nl > first /\ At(text, nl) = "lf" /\ At(text, nl - 1) = "cr"
  <2>1. nl - 1 \in Nat
    BY <1>2, <1>4
  <2>2. \A k \in Nat : At(text, k) = "cr" <=> At(text, k + 1) = "lf"
    BY <1>2, <1>4, <2>1 DEF UniformNewlines
  <2>3. At(text, Len(text) - 1) = "lf"
    <3>1. Len(text) - 1 + 1 = Len(text)
      BY <1>1
    <3>2. At(text, Len(text) - 1) # "cr"
      BY <1>1, <2>2, <3>1
    <3>3. QED  BY <1>1, <3>2
  <2>4. At(text, Len(text) - 2) = "cr"
    <3>1. Len(text) - 2 + 1 = Len(text) - 1
      BY <1>1
    <3>2. QED  BY <1>1, <2>2, <2>3, <3>1
  <2>5. Len(text) > 2 => At(text, Len(text) - 3) # "cr"
    <3>1. Len(text) > 2 => Len(text) - 3 \in Nat /\ Len(text) - 3 + 1 = Len(text) - 2
      BY <1>1
    <3>2. QED  BY <1>1, <2>2, <2>4, <3>1
  <2>6. QED  BY <1>3, <1>4, <2>3, <2>4, <2>5 DEF EndsInBoth
<1>5. QED  BY <1>3, <1>4

(* The cell of a row that starts and ends at given positions.               *)
CellIn(src, from, newline, col) ==
  LET line_end == LineEnd(src, from + col.start, newline)
      begin    == Min({from + col.start, line_end})
      end      == Min({IF col.end = NA THEN newline ELSE from + col.end, line_end})
      cell     == IF TrimWs THEN TrimWhitespace(src, begin, end) ELSE <<begin, end>>
  IN  SubSeq(src, cell[1] + 1, cell[2])

LEMMA GetIsCell ==
  ASSUME NEW src, NEW newlines, NEW row, NEW col
  PROVE  Get(src, newlines, row, col)
           = CellIn(src, newlines[row] + 1, newlines[row + 1], col)
BY DEF Get, CellIn

(* A cell that ends where it begins is empty. *)
CellOf(src, begin, end) ==
  LET cell == IF TrimWs THEN TrimWhitespace(src, begin, end) ELSE <<begin, end>>
  IN  SubSeq(src, cell[1] + 1, cell[2])

LEMMA NothingThere ==
  ASSUME NEW src \in Seq(Char), NEW begin \in Nat, NEW end \in Nat, end <= begin
  PROVE  CellOf(src, begin, end) = <<>>
<1>1. \A m, n \in Nat : n < m => SubSeq(src, m, n) = <<>>
  OBVIOUS
<1>2. begin + 1 \in Nat /\ end + 1 \in Nat /\ end < begin + 1 /\ end < end + 1
  OBVIOUS
<1>3. SubSeq(src, begin + 1, end) = <<>> /\ SubSeq(src, end + 1, end) = <<>>
  BY <1>1, <1>2
<1>4. CASE TrimWs
  <2>1. {q \in begin .. (end - 1) : At(src, q) \notin Blank} = {}
    OBVIOUS
  <2>2. TrimWhitespace(src, begin, end) = <<end, end>>
    BY <2>1 DEF TrimWhitespace
  <2>3. QED  BY <1>3, <1>4, <2>2 DEF CellOf
<1>5. CASE ~TrimWs
  BY <1>3, <1>5 DEF CellOf
<1>6. QED  BY <1>4, <1>5

(* It makes no difference for the cells whether the last row ends at the     *)
(* carriage return or at the line feed after it.                            *)
LEMMA CellAlike ==
  ASSUME NEW text \in Seq(Char), EndsInBoth(text), Len(text) > 1, NEW from \in Nat, NEW col,
         col.start \in Nat, col.end \in Nat \union {NA}
  PROVE  CellIn(text, from, Len(text) - 1, col) = CellIn(text, from, Len(text) - 2, col)
<1> DEFINE n == Len(text)
           b == from + col.start
           to == from + col.end
<1>1. n \in Nat /\ n - 1 \in Nat /\ n - 2 \in Nat /\ b \in Nat
  OBVIOUS
<1>2. col.end # NA => to \in Nat
  BY DEF NA
<1>3. /\ LineEnd(text, b, n - 1) = IF n - 1 > b THEN n - 2 ELSE n - 1
      /\ LineEnd(text, b, n - 2) = n - 2
  <2>1. (n - 1) - 1 = n - 2 /\ (n - 2) - 1 = n - 3
    BY <1>1
  <2>2. n - 2 > b => n > 2
    BY <1>1
  <2>3. QED  BY <2>1, <2>2 DEF LineEnd, EndsInBoth
<1>4. \A x \in Nat : \A y \in Nat : Min({x, y}) = IF x <= y THEN x ELSE y
  <2> SUFFICES ASSUME NEW x \in Nat, NEW y \in Nat
               PROVE  Min({x, y}) = IF x <= y THEN x ELSE y
    OBVIOUS
  <2>1. Min({x, y}) \in {x, y} /\ Min({x, y}) <= x /\ Min({x, y}) <= y
    BY LeastOfTwo
  <2>2. QED  BY <2>1
<1> DEFINE Begin(newline) == Min({b, LineEnd(text, b, newline)})
           End(newline)   == Min({IF col.end = NA THEN newline ELSE to,
                                  LineEnd(text, b, newline)})
<1>5. \A newline : CellIn(text, from, newline, col) = CellOf(text, Begin(newline), End(newline))
  BY DEF CellIn, CellOf
<1> HIDE DEF n, b, to
<1>6. CASE n - 1 > b
  <2>1. LineEnd(text, b, n - 1) = n - 2 /\ LineEnd(text, b, n - 2) = n - 2
    BY <1>3, <1>6
  <2>2. Begin(n - 1) = Begin(n - 2)
    BY <2>1
  <2>3. End(n - 1) = End(n - 2)
    <3>1. CASE col.end = NA
      <4>1. End(n - 1) = Min({n - 1, n - 2}) /\ End(n - 2) = Min({n - 2, n - 2})
        BY <2>1, <3>1
      <4>2. Min({n - 1, n - 2}) = n - 2 /\ Min({n - 2, n - 2}) = n - 2
        BY <1>1, <1>4
      <4>3. QED  BY <4>1, <4>2
    <3>2. CASE col.end # NA
      BY <2>1, <3>2
    <3>3. QED  BY <3>1, <3>2
  <2> HIDE DEF Begin, End
  <2>4. QED  BY <1>5, <2>2, <2>3 DEF n
<1>7. CASE ~(n - 1 > b)
  <2>1. LineEnd(text, b, n - 1) = n - 1 /\ LineEnd(text, b, n - 2) = n - 2
    BY <1>3, <1>7
  <2>2. Begin(n - 1) = n - 1 /\ Begin(n - 2) = n - 2
    BY <1>1, <1>4, <1>7, <2>1
  <2>3. /\ End(n - 1) \in Nat /\ End(n - 1) <= n - 1
        /\ End(n - 2) \in Nat /\ End(n - 2) <= n - 2
    <3>1. CASE col.end = NA
      BY <1>1, <1>4, <2>1, <3>1
    <3>2. CASE col.end # NA
      BY <1>1, <1>2, <1>4, <2>1, <3>2
    <3>3. QED  BY <3>1, <3>2
  <2> HIDE DEF Begin, End
  <2>4. CellOf(text, Begin(n - 1), End(n - 1)) = <<>>
    BY <1>1, <2>2, <2>3, NothingThere
  <2>5. CellOf(text, Begin(n - 2), End(n - 2)) = <<>>
    BY <1>1, <2>2, <2>3, NothingThere
  <2>6. QED  BY <1>5, <2>4, <2>5 DEF n
<1>8. QED  BY <1>6, <1>7

(* The columns of a table. *)
Columns(cols) ==
  \A c \in DOMAIN cols : cols[c].start \in Nat /\ cols[c].end \in Nat \union {NA}

(* The table of a file is that of all of its newlines. *)
LEMMA TablesAlike ==
  ASSUME NEW text \in File, UniformNewlines(text),
         FindFirstLine(text, Skip) \in Nat, FindFirstLine(text, Skip) < Len(text) - 1,
         NEW d, Complete(d, text, At(text, Len(text) - 1), FindFirstLine(text, Skip), Len(text)),
         NEW cols, Columns(cols)
  PROVE  TableOf(text, d, cols) = TableOf(text, FileNewlines(text, Unlimited), cols)
<1> DEFINE e     == At(text, Len(text) - 1)
           first == FindFirstLine(text, Skip)
           last  == Len(text) - 1
           c     == RunLines(text, LinesCall(first, last, 0, Unlimited),
                             <<first - 1>>).destination
           f     == FileNewlines(text, Unlimited)
           n     == Len(c)
<1>1. Len(text) \in Nat /\ last \in Nat /\ first \in Nat /\ first < Len(text) /\ first <= last
      /\ last + 1 = Len(text) /\ text \in Seq(Char) /\ Len(text) > 1
  BY DEF File
<1>2. EachEndsIn(text, e)
  BY UniformEnds
<1>3. Complete(c, text, e, first, last)
  BY <1>1, <1>2, FileCompletes
<1>4. f = Append(c, LastNewline(text, first))
  <2>1. BeforeFirst(first, Unlimited) = <<first - 1>>
    BY DEF BeforeFirst, Unlimited
  <2>2. QED  BY <2>1 DEF FileNewlines
<1> HIDE DEF c, f, first
<1>5. d = Append(c, last)
  <2>1. last .. (last - 1) = {}
    BY <1>1
  <2>2. Complete(Append(c, last), text, e, first, last + 1)
    <3>1. At(text, last) = e /\ last <= last /\ \A q \in last .. (last - 1) : At(text, q) # e
      BY <1>1, <2>1
    <3> HIDE DEF last, e
    <3>2. QED  BY <1>1, <1>3, <3>1, CompleteAppend
  <2>3. Complete(d, text, e, first, last + 1)
    BY <1>1 DEF first
  <2>4. last + 1 \in Nat
    BY <1>1
  <2> HIDE DEF last, e
  <2>5. QED  BY <1>1, <2>2, <2>3, <2>4, CompleteSame
<1>6. c \in Seq(Nat \union {-1}) /\ n \in Nat /\ n > 0
      /\ \A k \in 1 .. n : c[k] + 1 \in Nat
  <2>1. c \in Seq(Nat \union {-1}) /\ n \in Nat /\ n > 0
    BY <1>3 DEF Complete
  <2>2. ASSUME NEW k \in 1 .. n PROVE c[k] + 1 \in Nat
    <3>1. c[k] \in Nat \union {-1}
      BY <2>1
    <3>2. QED  BY <3>1
  <2>3. QED  BY <2>1, <2>2
<1>7. \/ LastNewline(text, first) = last
      \/ LastNewline(text, first) = Len(text) - 2 /\ EndsInBoth(text)
  BY <1>1, LastNewlineIs DEF first
<1> DEFINE l == LastNewline(text, first)
<1>8. /\ NumRows(d) = n /\ NumRows(f) = n
      /\ \A k \in 1 .. n : d[k] = c[k] /\ f[k] = c[k]
      /\ d[n + 1] = last /\ f[n + 1] = l
  <2>1. Len(Append(c, last)) = n + 1 /\ Len(Append(c, l)) = n + 1
    BY <1>6
  <2>2. \A k \in 1 .. n : Append(c, last)[k] = c[k] /\ Append(c, l)[k] = c[k]
    BY <1>6
  <2>3. Append(c, last)[n + 1] = last /\ Append(c, l)[n + 1] = l
    BY <1>6
  <2>4. f = Append(c, l) /\ d = Append(c, last)
    BY <1>4, <1>5
  <2> HIDE DEF n, l, last
  <2>5. NumRows(d) = n /\ NumRows(f) = n
    <3>1. Len(d) = n + 1 /\ Len(f) = n + 1
      BY <2>1, <2>4
    <3>2. QED  BY <1>6, <3>1 DEF NumRows
  <2>6. QED  BY <2>2, <2>3, <2>4, <2>5
<1> HIDE DEF n, last, l, e
<1>9. ASSUME NEW row \in 1 .. n, NEW k \in DOMAIN cols
      PROVE  Get(text, d, row, cols[k]) = Get(text, f, row, cols[k])
  <2>1. /\ Get(text, d, row, cols[k]) = CellIn(text, c[row] + 1, d[row + 1], cols[k])
        /\ Get(text, f, row, cols[k]) = CellIn(text, c[row] + 1, f[row + 1], cols[k])
    BY <1>8, GetIsCell
  <2>2. CASE row # n
    <3>1. row + 1 \in 1 .. n
      BY <1>6, <2>2
    <3>2. d[row + 1] = f[row + 1]
      BY <1>8, <3>1
    <3>3. QED  BY <2>1, <3>2
  <2>3. CASE row = n
    <3>1. d[row + 1] = last /\ f[row + 1] = l
      BY <1>8, <2>3
    <3>2. CASE l = last
      BY <2>1, <3>1, <3>2
    <3>3. CASE l = Len(text) - 2 /\ EndsInBoth(text)
      <4>1. cols[k].start \in Nat /\ cols[k].end \in Nat \union {NA} /\ c[row] + 1 \in Nat
        BY <1>6 DEF Columns
      <4>2. CellIn(text, c[row] + 1, Len(text) - 1, cols[k])
              = CellIn(text, c[row] + 1, Len(text) - 2, cols[k])
        BY <1>1, <3>3, <4>1, CellAlike
      <4>3. QED  BY <2>1, <3>1, <3>3, <4>2 DEF last
    <3>4. QED  BY <1>7, <3>2, <3>3 DEF l
  <2>4. QED  BY <2>2, <2>3
<1>10. ASSUME NEW row \in 1 .. n
       PROVE  [k \in DOMAIN cols |-> Get(text, d, row, cols[k])]
                = [k \in DOMAIN cols |-> Get(text, f, row, cols[k])]
  BY <1>9
<1>11. TableOf(text, d, cols) = TableOf(text, f, cols)
  BY <1>8, <1>10 DEF TableOf
<1>12. QED  BY <1>11 DEF f

(* The inputs that are read alike.  All newlines are of one kind, as the     *)
(* whole file and a buffer may otherwise each take another one for it; rows *)
(* start in the first buffer, in which alone they are looked for, and not at *)
(* the last character; and when a CRLF is split between two buffers, it is   *)
(* not the first newline of the one before, which would take the CR for it.  *)
FullSize(in) == in.chunk_size - 1

BufferStarts(in) == {m * FullSize(in) : m \in Nat}

NoFirstSplit(in) ==
  \A o \in BufferStarts(in) :
    LET q == o + FullSize(in) - 1
    IN  At(in.content, q) = "cr" /\ At(in.content, q + 1) = "lf" =>
          \E k \in o .. (q - 1) : /\ FindFirstLine(in.content, Skip) <= k
                                  /\ At(in.content, k) \in {"lf", "cr"}

RowsInside(in) ==
  /\ in.content # <<>>
  /\ FindFirstLine(in.content, Skip) < FullSize(in)
  /\ FindFirstLine(in.content, Skip) < Len(in.content) - 1

ReadAlike(in) ==
  /\ UniformNewlines(in.content) /\ NoFirstSplit(in) /\ RowsInside(in) /\ Columns(in.cols)

(* The rest of what FilesReadAlike asks for. *)
Alike ==
  /\ input.n_max = Unlimited /\ input.content \in File /\ ReadAlike(input)

First == FindFirstLine(input.content, Skip)

EndChar == At(input.content, Len(input.content) - 1)

(* Every buffer ends in its null character. *)
NulsFine ==
  \A k \in {0, 1} : buf[k] # <<>> => At(buf[k], Len(buf[k]) - 1) = "nul"

(* Buffers are full but for the last one, and all of the connection is read. *)
PlaceFine ==
  /\ remaining = Unlimited
  /\ pc \in {"parse", "write"} =>
       /\ total_read \in BufferStarts(input) /\ sz > 0
       /\ sz = FullSize(input) \/ taken = Len(input.content)
  /\ pc = "read" => total_read \in BufferStarts(input) \/ taken = Len(input.content)
  /\ pc = "finish" => taken = Len(input.content) /\ total_read = taken
  /\ pc = "done" => out = input.content

(* The newlines of the content up to a bound have been found. *)
FoundUpTo(b) ==
  First <= b /\ Complete(scan.destination, input.content, EndChar, First, b)

(* The task has found those up to its position. *)
TaskComplete ==
  Parsing =>
    LET p == region.call
    IN  /\ p.n_max = Unlimited /\ p.offset \in BufferStarts(input)
        /\ p.offset + p.end = Bound
        /\ p.end = FullSize(input) \/ p.offset + p.end = Len(input.content)
        /\ scan.pos <= p.end /\ scan.first_nl \in {"any", EndChar}
        /\ scan.first_nl = "any" => p.offset + scan.pos = First \/ scan.pos = 0
        /\ FoundUpTo(p.offset + scan.pos)

(* Between two tasks, all in the buffers so far are found. *)
Between ==
  /\ pc = "parse" /\ write.state = "none" => start = First
  /\ ~Parsing /\ (pc \in {"write", "read", "finish"} \/ (pc = "parse" /\ write.state # "none"))
       => FoundUpTo(Bound)
  /\ pc = "done" => FoundUpTo(Len(input.content))

CompleteInv == NulsFine /\ (Alike => PlaceFine /\ TaskComplete /\ Between)

(* What has to be known beside it. *)
Known == FileInv /\ TasksBehind /\ TypeInv /\ NewlinesInv

(* A read fills the buffer, or takes all that is left. *)
LEMMA ReadFills ==
  ASSUME BuffersFine
  PROVE  \/ Len(ReadConnection) = FullSize(input)
         \/ taken + Len(ReadConnection) = Len(input.content)
<1> DEFINE size == Len(input.content)
           most == taken + input.chunk_size - 1
           c    == input.content
<1>1. /\ c \in Seq(Char) /\ size \in Nat /\ taken \in Nat /\ taken <= size /\ most \in Nat
      /\ taken <= most /\ input.chunk_size \in Nat
  BY InputsAssumption DEF BuffersFine
<1>2. most - taken = FullSize(input)
  BY <1>1 DEF FullSize
<1>3. ReadConnection = SubSeq(c, taken + 1, Min({most, size}))
  BY DEF ReadConnection
<1> HIDE DEF most
<1>4. PICK to \in Nat : to = Min({most, size}) /\ to \in {most, size} /\ to <= most /\ to <= size
  BY <1>1, LeastOfTwo
<1>5. taken <= to
  BY <1>1, <1>4
<1>6. Len(SubSeq(c, taken + 1, to)) = to - taken
  BY <1>1, <1>4, <1>5
<1>7. Len(ReadConnection) = to - taken
  BY <1>3, <1>4, <1>6
<1>8. QED  BY <1>1, <1>2, <1>4, <1>7

(* What is known of the inputs. *)
LEMMA AlikeFacts ==
  ASSUME BuffersFine, Alike
  PROVE  /\ input.content \in File /\ Len(input.content) \in Nat
         /\ First \in Nat /\ First < FullSize(input) /\ First < Len(input.content) - 1
         /\ FullSize(input) \in Nat /\ FullSize(input) > 0
         /\ EachEndsIn(input.content, EndChar)
<1>1. input.content \in File /\ UniformNewlines(input.content) /\ RowsInside(input)
  BY DEF Alike, ReadAlike
<1>2. Len(input.content) \in Nat \ {0} /\ FullSize(input) \in Nat /\ FullSize(input) > 0
  <2>1. input.chunk_size \in Nat \ {0, 1}
    BY Sizes
  <2>2. QED  BY <1>1, <2>1 DEF File, FullSize
<1>3. First \in Nat
  BY <1>2, FindFirstLineForward DEF First
<1>4. QED  BY <1>1, <1>2, <1>3, UniformEnds DEF RowsInside, First, EndChar

(* At first nothing has been read. *)
LEMMA InitComplete == Init => CompleteInv
<1> SUFFICES ASSUME Init PROVE CompleteInv
  OBVIOUS
<1>1. /\ pc = "open" /\ write.state = "none" /\ ~Parsing /\ remaining = input.n_max
      /\ \A k \in {0, 1} : buf[k] = <<>>
  BY DEF Init, Parsing
<1>2. QED
  BY <1>1 DEF CompleteInv, NulsFine, Alike, PlaceFine, TaskComplete, Between

(* What a read puts in a buffer ends in a null character. *)
LEMMA AppendNul ==
  ASSUME NEW s \in Seq(Char)
  PROVE  At(Append(s, "nul"), Len(Append(s, "nul")) - 1) = "nul"
<1>1. Len(s) \in Nat /\ Len(Append(s, "nul")) = Len(s) + 1 /\ Append(s, "nul")[Len(s) + 1] = "nul"
  BY NulFacts
<1>2. QED  BY <1>1 DEF At

(* The first read finds the first row where it is in the content. *)
LEMMA OpenComplete == Known /\ CompleteInv /\ Open => CompleteInv'
<1> SUFFICES ASSUME Known, CompleteInv, Open PROVE CompleteInv'
  OBVIOUS
<1>1. /\ taken' = Len(ReadConnection) /\ sz' = taken'
      /\ buf' = [buf EXCEPT ![i] = Append(ReadConnection, "nul")]
      /\ start' = Min({FindFirstLine(buf'[i], Skip), sz' + 1})
      /\ pc' = IF sz' = 0 THEN "finish" ELSE "parse"
      /\ scan' = [scan EXCEPT !.destination = BeforeFirst(start', input.n_max)]
      /\ UNCHANGED <<input, i, total_read, remaining, region, write, out>> /\ pc = "open"
  BY DEF Open
<1>2. /\ write.state = "none" /\ ~Parsing /\ total_read = 0 /\ taken = 0
      /\ i \in {0, 1} /\ DOMAIN buf = {0, 1} /\ scan \in LinesLocalsType
  BY <1>1
  DEF Known, NewlinesInv, FirstFine, TypeInv, RegionTypes, FileInv, FileFine, TasksBehind
<1>3. /\ ReadConnection \in Seq(Char) /\ sz' \in Nat /\ sz' <= Len(input.content)
      /\ \A k \in 1 .. sz' : ReadConnection[k] = input.content[k]
      /\ sz' = FullSize(input) \/ sz' = Len(input.content)
      /\ Len(input.content) \in Nat
  <2>1. BuffersFine
    BY DEF Known, FileInv
  <2>2. /\ ReadConnection \in Seq(Char) /\ taken + Len(ReadConnection) \in 0 .. Len(input.content)
        /\ Len(ReadConnection) \in Nat
        /\ \A k \in 1 .. Len(ReadConnection) : ReadConnection[k] = input.content[taken + k]
    BY <2>1, ReadFacts, Sizes
  <2>3. Len(input.content) \in Nat
    BY <2>1, Sizes
  <2>4. /\ 0 + Len(ReadConnection) = Len(ReadConnection)
        /\ \A k \in 1 .. Len(ReadConnection) : 0 + k = k
    BY <2>2
  <2>5. \A k \in 1 .. sz' : ReadConnection[k] = input.content[k]
    BY <1>1, <1>2, <2>2, <2>4
  <2>6. sz' = FullSize(input) \/ sz' = Len(input.content)
    BY <1>1, <1>2, <2>1, <2>4, ReadFills
  <2>7. sz' \in Nat /\ sz' <= Len(input.content)
    BY <1>1, <1>2, <2>2, <2>3, <2>4
  <2>8. QED  BY <2>2, <2>3, <2>5, <2>6, <2>7
<1> DEFINE chunk == Append(ReadConnection, "nul")
<1>4. /\ Len(chunk) = sz' + 1 /\ Len(chunk) \in Nat /\ chunk[sz' + 1] = "nul"
      /\ \A k \in 1 .. sz' : chunk[k] = ReadConnection[k]
      /\ At(chunk, Len(chunk) - 1) = "nul"
  BY <1>1, <1>3, NulFacts, AppendNul
<1> HIDE DEF chunk
<1>9. PICK n \in Nat : n = sz'
  BY <1>3
<1>5. NulsFine'
  <2>1. buf'[i] = chunk /\ \A k \in {0, 1} : k # i => buf'[k] = buf[k]
    BY <1>1, <1>2 DEF chunk
  <2>2. QED  BY <1>4, <2>1 DEF CompleteInv, NulsFine
<1>6. ASSUME Alike PROVE PlaceFine' /\ TaskComplete' /\ Between'
  <2>1. /\ First \in Nat /\ First < FullSize(input) /\ First < Len(input.content) - 1
        /\ FullSize(input) \in Nat /\ input.content \in File
    BY <1>6, AlikeFacts DEF Known, FileInv
  <2>2. sz' > 0 /\ First < sz' /\ pc' = "parse"
    BY <1>1, <1>3, <2>1
  <2>3. /\ n \in Nat /\ First < n /\ n <= Len(input.content)
        /\ Len(chunk) = n + 1 /\ Len(chunk) - 1 = n /\ Len(chunk) \in Nat
    <3>1. Len(chunk) = n + 1 /\ First < n /\ n <= Len(input.content)
      BY <1>3, <1>4, <1>9, <2>2
    <3>2. n \in Nat /\ n + 1 \in Nat /\ (n + 1) - 1 = n
      <4>1. n \in Nat
        BY <1>9
      <4>2. QED  BY <4>1
    <3>3. Len(chunk) - 1 = n
      BY <3>1, <3>2
    <3>4. Len(chunk) \in Nat
      BY <1>4
    <3>5. QED  BY <3>1, <3>2, <3>3, <3>4
  <2>4. BeginsFile(chunk, input.content)
    <3>1. ASSUME NEW q \in Nat, q < Len(chunk) - 1 PROVE At(chunk, q) = At(input.content, q)
      <4>1. q < n
        BY <2>3, <3>1
      <4>2. q < Len(input.content) /\ q < n + 1 /\ q + 1 \in 1 .. n
        BY <1>3, <2>3, <4>1
      <4>3. chunk[q + 1] = input.content[q + 1]
        BY <1>3, <1>4, <1>9, <4>2
      <4>4. q < Len(chunk)
        BY <2>3, <4>2
      <4>5. QED  BY <4>2, <4>3, <4>4 DEF At
    <3>2. Len(chunk) - 1 <= Len(input.content)
      BY <2>3
    <3>3. Len(input.content) \in Nat /\ Len(chunk) \in Nat \ {0}
      <4>1. Len(chunk) # 0
        BY <2>3
      <4>2. QED  BY <1>3, <1>4, <4>1
    <3>4. QED  BY <1>4, <3>1, <3>2, <3>3 DEF BeginsFile
  <2>5. FindFirstLine(chunk, Skip) = First
    <3>1. First < Len(chunk) - 1
      BY <2>1, <2>2, <2>3
    <3>2. QED  BY <2>1, <2>4, <3>1, FixedWidthAssumption, FirstLineAlike DEF First
  <2>6. start' = First
    <3>1. buf'[i] = chunk
      BY <1>1, <1>2 DEF chunk
    <3>2. start' = Min({First, sz' + 1})
      BY <1>1, <2>5, <3>1
    <3>3. n + 1 = sz' + 1
      BY <1>9
    <3>4. n + 1 \in Nat /\ First < n + 1
      BY <2>1, <2>3
    <3>5. QED  BY <2>1, <3>2, <3>3, <3>4, LeastOfTwo
  <2>7. /\ First' = First /\ FullSize(input') = FullSize(input)
        /\ BufferStarts(input') = BufferStarts(input)
    BY <1>1 DEF First
  <2>8. 0 \in BufferStarts(input)
    <3>1. 0 * FullSize(input) = 0
      BY <2>1
    <3>2. QED  BY <3>1 DEF BufferStarts
  <2>9. PlaceFine'
    <3>1. remaining = Unlimited
      BY <1>6 DEF CompleteInv, PlaceFine
    <3>2. QED  BY <1>1, <1>2, <1>3, <2>2, <2>7, <2>8, <3>1 DEF PlaceFine
  <2>10. ~Parsing'
    BY <1>1, <1>2 DEF Parsing, LinesLocalsType
  <2>11. TaskComplete' /\ Between'
    BY <1>1, <1>2, <2>2, <2>6, <2>7, <2>10 DEF TaskComplete, Between
  <2>12. QED  BY <2>9, <2>11
<1>7. Alike' => Alike
  BY <1>1 DEF Alike
<1>8. QED  BY <1>5, <1>6, <1>7 DEF CompleteInv

(* The next buffer starts a buffer further on. *)
LEMMA NextStart ==
  ASSUME NEW in, FullSize(in) \in Nat, NEW o \in BufferStarts(in)
  PROVE  o \in Nat /\ o + FullSize(in) \in BufferStarts(in)
<1>1. PICK m \in Nat : o = m * FullSize(in)
  BY DEF BufferStarts
<1> DEFINE s == FullSize(in)
<1> HIDE DEF s
<1>2. s \in Nat /\ m + 1 \in Nat
  BY DEF s
<1>3. m * s \in Nat /\ (m + 1) * s = m * s + s
  BY <1>2
<1>4. o + s = (m + 1) * s /\ o \in Nat
  BY <1>1, <1>3 DEF s
<1>5. QED  BY <1>2, <1>4 DEF BufferStarts, s

(* What was counted is what has been given to the writing task. *)
LEMMA CountedFacts ==
  ASSUME Known
  PROVE  /\ total_read = Given /\ total_read \in Nat
         /\ pc \in {"parse", "write"} => total_read + sz = taken
         /\ pc = "read" => total_read = taken
<1>1. total_read = Given
  BY DEF Known, TypeInv, MainTypes
<1>2. QED  BY <1>1, BoundFacts DEF Known, FileInv, ReadFine

(* The task starts where the newlines have been found up to. *)
LEMMA WaitForParseComplete == Known /\ CompleteInv /\ WaitForParse => CompleteInv'
<1> SUFFICES ASSUME Known, CompleteInv, WaitForParse PROVE CompleteInv'
  OBVIOUS
<1>1. /\ UNCHANGED <<input, taken, buf, i, sz, start, total_read, write, out>>
      /\ pc = "parse" /\ ~Parsing
  BY DEF WaitForParse
<1>2. NulsFine'
  BY <1>1 DEF CompleteInv, NulsFine
<1>3. ASSUME Alike PROVE PlaceFine' /\ TaskComplete' /\ Between'
  <2>1. PlaceFine /\ Between /\ remaining = Unlimited
    BY <1>3 DEF CompleteInv, PlaceFine
  <2>2. /\ pc' = "write" /\ remaining' = Unlimited
        /\ region' = [buf |-> i, call |-> LinesCall(start, sz, total_read, Unlimited)]
        /\ scan' = EnterLines(region'.call, scan.destination)
    BY <2>1 DEF WaitForParse, Below
  <2>3. /\ region'.call.start = start /\ region'.call.end = sz
        /\ region'.call.offset = total_read /\ region'.call.n_max = Unlimited
    BY <2>2 DEF LinesCall
  <2>4. /\ scan'.pos = start /\ scan'.first_nl = "any" /\ Parsing'
        /\ scan'.destination = scan.destination
    BY <2>2, <2>3 DEF EnterLines, Parsing
  <2>5. /\ total_read \in Nat /\ sz \in Nat /\ start \in Nat /\ taken \in Nat
        /\ total_read + sz = taken /\ Bound = total_read
    BY <1>1, BoundFacts, CountedFacts DEF Known, Bound
  <2>6. /\ total_read \in BufferStarts(input) /\ sz > 0
        /\ sz = FullSize(input) \/ taken = Len(input.content)
    BY <1>1, <2>1 DEF PlaceFine
  <2>7. /\ First \in Nat /\ First < FullSize(input) /\ First < Len(input.content) - 1
        /\ FullSize(input) \in Nat /\ Len(input.content) \in Nat
    BY <1>3, AlikeFacts DEF Known, FileInv
  <2>8. /\ start <= sz /\ FoundUpTo(total_read + start)
        /\ total_read + start = First \/ start = 0
    <3>1. CASE write.state = "none"
      <4>1. /\ total_read = 0 /\ start = First
            /\ scan.destination = BeforeFirst(start, input.n_max)
        BY <1>1, <2>1, <3>1 DEF Known, NewlinesInv, FirstFine, Between
      <4>2. scan.destination = <<First - 1>>
        BY <1>3, <4>1 DEF BeforeFirst, Alike, Unlimited
      <4>3. First < sz
        <5>1. total_read + sz = sz
          BY <2>5, <4>1
        <5>2. sz = taken
          BY <2>5, <5>1
        <5>3. QED  BY <2>5, <2>6, <2>7, <5>2
      <4>4. total_read + start = First
        BY <2>7, <4>1
      <4>5. FoundUpTo(First)
        BY <2>7, <4>2, CompleteFirst DEF FoundUpTo
      <4>6. QED  BY <2>5, <2>7, <4>1, <4>3, <4>4, <4>5
    <3>2. CASE write.state # "none"
      <4>1. start = 0
        BY <1>1, <3>2 DEF Known, NewlinesInv, LaterFine
      <4>2. FoundUpTo(total_read)
        BY <1>1, <2>1, <2>5, <3>2 DEF Between
      <4>3. total_read + start = total_read
        BY <2>5, <4>1
      <4>4. QED  BY <2>5, <4>1, <4>2, <4>3
    <3>3. QED  BY <3>1, <3>2
  <2>9. /\ First' = First /\ FullSize(input') = FullSize(input) /\ EndChar' = EndChar
        /\ BufferStarts(input') = BufferStarts(input) /\ Bound' = total_read + sz
    BY <1>1, <2>2 DEF First, EndChar, Bound
  <2>10. PlaceFine'
    BY <1>1, <2>2, <2>6, <2>9 DEF PlaceFine
  <2>11. FoundUpTo(total_read + start)'
    BY <1>1, <2>4, <2>8, <2>9 DEF FoundUpTo
  <2>12. TaskComplete'
    <3>1. region'.call.offset + region'.call.end = Bound'
      BY <2>3, <2>9
    <3>2. region'.call.end = FullSize(input')
            \/ region'.call.offset + region'.call.end = Len(input'.content)
      BY <1>1, <2>3, <2>5, <2>6, <2>9
    <3>3. scan'.pos <= region'.call.end
      BY <2>3, <2>4, <2>8
    <3>4. region'.call.offset + scan'.pos = First' \/ scan'.pos = 0
      BY <2>3, <2>4, <2>8, <2>9
    <3>5. FoundUpTo(region.call.offset + scan.pos)'
      BY <1>1, <2>3, <2>4, <2>11 DEF FoundUpTo
    <3>6. QED  BY <1>1, <2>3, <2>4, <2>6, <2>9, <3>1, <3>2, <3>3, <3>4, <3>5 DEF TaskComplete
  <2>13. Between'
    BY <2>2, <2>4 DEF Between
  <2>14. QED  BY <2>10, <2>12, <2>13
<1>4. Alike' => Alike
  BY <1>1 DEF Alike
<1>5. QED  BY <1>2, <1>3, <1>4 DEF CompleteInv

(* The buffer counts once it has been given to the writing task. *)
LEMMA WaitForWriteComplete == Known /\ CompleteInv /\ WaitForWrite => CompleteInv'
<1> SUFFICES ASSUME Known, CompleteInv, WaitForWrite PROVE CompleteInv'
  OBVIOUS
<1>1. /\ pc = "write" /\ pc' = "read"
      /\ write' = [buf |-> i, size |-> sz, state |-> "running"]
      /\ total_read' = total_read + sz
      /\ UNCHANGED <<input, taken, buf, i, sz, start, remaining, region, scan, out>>
  BY DEF WaitForWrite
<1>2. NulsFine'
  BY <1>1 DEF CompleteInv, NulsFine
<1>3. /\ First' = First /\ FullSize(input') = FullSize(input) /\ EndChar' = EndChar
      /\ BufferStarts(input') = BufferStarts(input) /\ Bound' = Bound
      /\ Parsing' = Parsing
  BY <1>1 DEF First, EndChar, Bound, Parsing
<1>4. ASSUME Alike PROVE PlaceFine' /\ TaskComplete' /\ Between'
  <2>1. PlaceFine /\ TaskComplete /\ Between
    BY <1>4 DEF CompleteInv
  <2>2. FullSize(input) \in Nat
    BY <1>4, AlikeFacts DEF Known, FileInv
  <2>3. total_read' \in BufferStarts(input) \/ taken = Len(input.content)
    BY <1>1, <2>1, <2>2, NextStart DEF PlaceFine
  <2>4. PlaceFine'
    BY <1>1, <1>3, <2>1, <2>3 DEF PlaceFine
  <2>5. TaskComplete'
    BY <1>1, <1>3, <2>1 DEF TaskComplete, FoundUpTo
  <2>6. Between'
    BY <1>1, <1>3, <2>1 DEF Between, FoundUpTo
  <2>7. QED  BY <2>4, <2>5, <2>6
<1>5. Alike' => Alike
  BY <1>1 DEF Alike
<1>6. QED  BY <1>2, <1>4, <1>5 DEF CompleteInv

(* A read that gives nothing has come to the end. *)
LEMMA ReadComplete == Known /\ CompleteInv /\ Read => CompleteInv'
<1> SUFFICES ASSUME Known, CompleteInv, Read PROVE CompleteInv'
  OBVIOUS
<1>1. /\ taken' = taken + Len(ReadConnection) /\ sz' = Len(ReadConnection) /\ i' = 1 - i
      /\ buf' = IF sz' = 0 THEN buf ELSE [buf EXCEPT ![i'] = Append(ReadConnection, "nul")]
      /\ pc = "read" /\ pc' = IF sz' = 0 THEN "finish" ELSE "parse"
      /\ UNCHANGED <<input, total_read, remaining, region, scan, write, out>>
  BY DEF Read
<1>2. BuffersFine /\ i' \in {0, 1} /\ DOMAIN buf = {0, 1}
  BY <1>1 DEF Known, FileInv, TasksBehind
<1>3. NulsFine'
  <2> DEFINE chunk == Append(ReadConnection, "nul")
  <2>1. At(chunk, Len(chunk) - 1) = "nul"
    BY <1>2, ReadFacts, AppendNul
  <2>2. \A k \in {0, 1} : buf'[k] = buf[k] \/ buf'[k] = chunk
    BY <1>1, <1>2
  <2> HIDE DEF chunk
  <2>3. \A k \in {0, 1} : buf'[k] # <<>> => At(buf'[k], Len(buf'[k]) - 1) = "nul"
    BY <2>1, <2>2 DEF CompleteInv, NulsFine
  <2>4. QED  BY <2>3 DEF NulsFine
<1>4. /\ First' = First /\ FullSize(input') = FullSize(input) /\ EndChar' = EndChar
      /\ BufferStarts(input') = BufferStarts(input) /\ Bound' = Bound
      /\ Parsing' = Parsing
  BY <1>1 DEF First, EndChar, Bound, Parsing
<1>5. ASSUME Alike PROVE PlaceFine' /\ TaskComplete' /\ Between'
  <2>1. PlaceFine /\ TaskComplete /\ Between
    BY <1>5 DEF CompleteInv
  <2>2. FullSize(input) \in Nat /\ FullSize(input) > 0 /\ Len(input.content) \in Nat
    BY <1>2, <1>5, AlikeFacts
  <2>3. PICK t \in Nat : t = Len(ReadConnection)
    BY <1>2, ReadFacts
  <2>4. t \in Nat /\ taken \in Nat /\ taken + t <= Len(input.content) /\ total_read = taken
    BY <1>1, <1>2, <2>3, ReadFacts, Sizes, CountedFacts
  <2>5. t = FullSize(input) \/ taken + t = Len(input.content)
    BY <1>2, <2>3, ReadFills
  <2>6. sz' = t /\ taken' = taken + t
    BY <1>1, <2>3
  <2>7. CASE t = 0
    <3>1. taken + t = taken /\ taken = Len(input.content)
      BY <2>2, <2>4, <2>5, <2>7
    <3>2. pc' = "finish" /\ taken' = Len(input.content) /\ total_read = taken'
      BY <1>1, <2>4, <2>6, <2>7, <3>1
    <3>3. QED  BY <1>1, <2>1, <3>2 DEF PlaceFine, TaskComplete, Between, FoundUpTo, Bound,
                                       Parsing, First, EndChar, BufferStarts, FullSize
  <2>8. CASE t # 0
    <3>1. pc' = "parse" /\ sz' > 0 /\ write.state # "none"
      BY <1>1, <2>4, <2>6, <2>8 DEF Known, NewlinesInv, LaterFine
    <3>2. taken # Len(input.content)
      BY <2>2, <2>4, <2>8
    <3>3. total_read \in BufferStarts(input)
      BY <1>1, <2>1, <3>2 DEF PlaceFine
    <3>4. sz' = FullSize(input) \/ taken' = Len(input.content)
      BY <2>5, <2>6
    <3>5. PlaceFine'
      BY <1>1, <1>4, <2>1, <3>1, <3>3, <3>4 DEF PlaceFine
    <3>6. TaskComplete'
      BY <1>1, <1>4, <2>1 DEF TaskComplete, FoundUpTo
    <3>7. Between'
      BY <1>1, <1>4, <2>1, <3>1 DEF Between, FoundUpTo
    <3>8. QED  BY <3>5, <3>6, <3>7
  <2>9. QED  BY <2>7, <2>8
<1>6. Alike' => Alike
  BY <1>1 DEF Alike
<1>7. QED  BY <1>3, <1>5, <1>6 DEF CompleteInv

(* What the task looks at is a part of the content. *)
LEMMA TaskLooks ==
  ASSUME Known, Parsing
  PROVE  LET src == buf[region.buf]
             p   == region.call
         IN  /\ p \in LinesCallType /\ scan \in LinesLocalsType /\ scan.out = "running"
             /\ p.end = Len(src) - 1 /\ p.end \in Nat /\ p.offset \in Nat
             /\ Len(src) \in Nat \ {0} /\ scan.pos \in Nat
             /\ \A q \in 0 .. (p.end - 1) :
                  At(src, q) = At(input.content, p.offset + q) /\ At(src, q) # "nul"
<1> DEFINE src == buf[region.buf]
           p   == region.call
           c   == input.content
<1>1. /\ p \in LinesCallType /\ scan \in LinesLocalsType /\ scan.out = "running"
      /\ p.end = Len(src) - 1 /\ region.buf \in {0, 1}
  BY DEF Known, TypeInv, RegionTypes, Parsing
<1>2. /\ p.offset + p.end <= Bound
      /\ \A k \in 1 .. p.end : src[k] = c[p.offset + k]
  BY DEF Known, NewlinesInv, TaskFine
<1>3. p.end \in Nat /\ p.offset \in Nat /\ scan.pos \in Nat /\ Len(src) \in Nat \ {0}
  <2>1. Len(src) \in Nat
    BY <1>1, Sizes DEF Known, FileInv
  <2>2. QED  BY <1>1, <2>1, LinesFields
<1>4. /\ c \in Seq(Char) /\ Bound \in Nat /\ Bound <= Len(c) /\ Len(c) \in Nat
  <2>1. c \in Seq(Char) /\ Len(c) \in Nat
    BY Sizes DEF Known, FileInv
  <2>2. Bound \in Nat /\ Bound <= taken /\ taken \in Nat /\ taken <= Len(c)
    BY BoundFacts DEF Known
  <2>3. QED  BY <2>1, <2>2
<1> HIDE DEF src, p, c
<1>5. ASSUME NEW q \in 0 .. (p.end - 1)
      PROVE  At(src, q) = At(c, p.offset + q) /\ At(src, q) # "nul"
  <2>1. q \in Nat /\ q + 1 \in 1 .. p.end /\ q < Len(src)
    BY <1>1, <1>3 DEF src, p
  <2>2. PICK m \in Nat : m = p.offset + q /\ m + 1 = p.offset + (q + 1) /\ m < Len(c)
    <3>1. p.offset + q \in Nat /\ (p.offset + q) + 1 = p.offset + (q + 1)
          /\ p.offset + q < p.offset + p.end
      <4>1. \A o, a, b \in Nat : a < b => o + a \in Nat /\ (o + a) + 1 = o + (a + 1)
                                        /\ o + a < o + b
        OBVIOUS
      <4>2. q < p.end
        BY <1>3
      <4>3. QED  BY <1>3, <2>1, <4>1, <4>2
    <3>2. p.offset + q < Len(c)
      BY <1>2, <1>3, <1>4, <3>1
    <3>3. QED  BY <3>1, <3>2
  <2>3. At(src, q) = src[q + 1] /\ At(c, m) = c[m + 1]
    BY <2>1, <2>2 DEF At
  <2>4. src[q + 1] = c[m + 1]
    BY <1>2, <2>1, <2>2
  <2>5. c[m + 1] \in Char
    BY <1>4, <2>2
  <2>6. QED  BY <2>2, <2>3, <2>4, <2>5 DEF Char
<1>6. QED  BY <1>1, <1>3, <1>5 DEF src, p, c

(* A carriage return that has lost its line feed to the next buffer is not   *)
(* what the task looks for, once it knows its newline.                     *)
LEMMA TaskSearched ==
  ASSUME Known, CompleteInv, Alike, Parsing
  PROVE  Searched(buf[region.buf], region.call.end, scan.pos, scan.first_nl, EndChar)
<1> DEFINE src == buf[region.buf]
           p   == region.call
           c   == input.content
           e   == EndChar
<1>1. /\ p.end = Len(src) - 1 /\ p.end \in Nat /\ p.offset \in Nat
      /\ Len(src) \in Nat \ {0} /\ scan.pos \in Nat
      /\ \A q \in 0 .. (p.end - 1) : At(src, q) = At(c, p.offset + q) /\ At(src, q) # "nul"
  BY TaskLooks
<1>2. /\ p.offset \in BufferStarts(input) /\ scan.pos <= p.end
      /\ p.end = FullSize(input) \/ p.offset + p.end = Len(c)
      /\ scan.first_nl \in {"any", e}
      /\ scan.first_nl = "any" => p.offset + scan.pos = First \/ scan.pos = 0
  BY DEF CompleteInv, TaskComplete
<1>3. /\ First \in Nat /\ FullSize(input) \in Nat /\ EachEndsIn(c, e) /\ Len(c) \in Nat
  BY AlikeFacts DEF Known, FileInv
<1>4. At(src, p.end) = "nul"
  <2>1. region.buf \in {0, 1}
    BY DEF Known, TypeInv, RegionTypes
  <2>2. src # <<>>
    BY <1>1
  <2>3. At(src, Len(src) - 1) = "nul"
    BY <2>1, <2>2 DEF CompleteInv, NulsFine
  <2>4. QED  BY <1>1, <2>3
<1> DEFINE o   == p.offset
           end == p.end
           pos == scan.pos
<1> HIDE DEF src, c, e, p
<1>5. ASSUME NEW q \in pos .. (end - 1), At(src, q) \in {"lf", "cr"} \ {e}
      PROVE  /\ e = "lf"
             /\ \/ At(src, q + 1) = "lf"
                \/ scan.first_nl = "any" => \E k \in pos .. (q - 1) : At(src, k) \in {"lf", "cr"}
  <2>1. q \in Nat /\ q < end /\ q + 1 \in Nat /\ q \in 0 .. (end - 1) /\ pos <= q
    BY <1>1
  <2>2. PICK m \in Nat : m = o + q /\ m + 1 = o + (q + 1)
    <3>1. \A a, b \in Nat : a + b \in Nat /\ (a + b) + 1 = a + (b + 1)
      OBVIOUS
    <3>2. QED  BY <1>1, <2>1, <3>1
  <2>3. At(c, m) \in {"lf", "cr"} \ {e}
    BY <1>1, <1>5, <2>1, <2>2
  <2>4. e = "lf" /\ At(c, m + 1) = "lf" /\ At(c, m) = "cr"
    BY <1>3, <2>3 DEF EachEndsIn
  <2>5. CASE q + 1 < end
    <3>1. q + 1 \in 0 .. (end - 1)
      BY <1>1, <2>1, <2>5
    <3>2. At(src, q + 1) = At(c, o + (q + 1))
      BY <1>1, <3>1
    <3>3. QED  BY <2>2, <2>4, <3>2
  <2>6. CASE ~(q + 1 < end) /\ scan.first_nl = "any"
    <3>1. q + 1 = end
      BY <1>1, <2>1, <2>6
    <3>2. m + 1 < Len(c)
      BY <2>4 DEF At
    <3>3. end = FullSize(input)
      BY <1>2, <2>2, <3>1, <3>2
    <3>4. o + FullSize(input) - 1 = m
      <4>1. \A a, b \in Nat : a + (b + 1) - 1 = a + b
        OBVIOUS
      <4>2. QED  BY <1>1, <2>1, <2>2, <3>1, <3>3, <4>1
    <3>5. PICK k \in o .. (m - 1) : First <= k /\ At(c, k) \in {"lf", "cr"}
      BY <1>2, <2>4, <3>4 DEF Alike, ReadAlike, NoFirstSplit, First, c, p
    <3>6. PICK j \in Nat : k = o + j /\ j < q
      <4>1. k \in Int /\ o <= k /\ k <= m - 1
        BY <1>1, <2>2
      <4>2. k - o \in Nat /\ k = o + (k - o) /\ k - o < q
        <5>1. \A a, b, n, j \in Int : b <= j /\ j <= a - 1 /\ a = b + n =>
                j - b \in Nat /\ j = b + (j - b) /\ j - b < n
          OBVIOUS
        <5>2. o \in Int /\ m \in Int /\ q \in Int /\ m = o + q
          BY <1>1, <2>1, <2>2
        <5> HIDE DEF o
        <5>3. QED  BY <4>1, <5>1, <5>2
      <4>3. QED  BY <4>2
    <3>7. pos <= j
      <4>1. CASE o + pos = First
        <5>1. \A a, b, n \in Nat : a + b <= a + n => b <= n
          OBVIOUS
        <5>2. QED  BY <1>1, <3>5, <3>6, <4>1, <5>1
      <4>2. CASE pos = 0
        BY <3>6, <4>2
      <4>3. QED  BY <1>2, <2>6, <4>1, <4>2
    <3>8. j \in pos .. (q - 1) /\ j \in 0 .. (end - 1)
      BY <1>1, <2>1, <3>6, <3>7
    <3>9. At(src, j) \in {"lf", "cr"}
      BY <1>1, <3>5, <3>6, <3>8
    <3>10. QED  BY <2>4, <3>8, <3>9
  <2>7. QED  BY <2>4, <2>5, <2>6
<1>6. \A q \in pos .. (end - 1) : At(src, q) # "nul"
  <2> SUFFICES ASSUME NEW q \in pos .. (end - 1) PROVE At(src, q) # "nul"
    OBVIOUS
  <2>1. q \in 0 .. (end - 1)
    BY <1>1
  <2>2. QED  BY <1>1, <2>1
<1>7. e \in {"lf", "cr"}
  BY <1>3 DEF EachEndsIn
<1>8. Searched(src, end, pos, scan.first_nl, e)
  BY <1>1, <1>2, <1>4, <1>5, <1>6, <1>7 DEF Searched
<1>9. QED  BY <1>8 DEF src, e, p

(* Each turn of the task finds the next newline, or has found all that are in *)
(* its buffer.                                                             *)
LEMMA ParseComplete == Known /\ CompleteInv /\ Parse => CompleteInv'
<1> SUFFICES ASSUME Known, CompleteInv, Parse PROVE CompleteInv'
  OBVIOUS
<1>1. /\ Parsing /\ scan' = LinesStep(buf[region.buf], region.call, scan)
      /\ UNCHANGED <<input, taken, pc, buf, i, sz, start, total_read, remaining, region,
                     write, out>>
  BY DEF Parse
<1>2. NulsFine'
  BY <1>1 DEF CompleteInv, NulsFine
<1>3. /\ First' = First /\ FullSize(input') = FullSize(input) /\ EndChar' = EndChar
      /\ BufferStarts(input') = BufferStarts(input) /\ Bound' = Bound
  BY <1>1 DEF First, EndChar, Bound
<1>4. pc \notin Ends
  BY <1>1 DEF Known, TasksBehind, Ends
<1>5. ASSUME Alike PROVE PlaceFine' /\ TaskComplete' /\ Between'
  <2> DEFINE src == buf[region.buf]
             p   == region.call
             c   == input.content
             e   == EndChar
  <2>1. PlaceFine /\ TaskComplete /\ Between
    BY <1>5 DEF CompleteInv
  <2>2. /\ p \in LinesCallType /\ scan \in LinesLocalsType /\ scan.out = "running"
        /\ p.end \in Nat /\ p.offset \in Nat /\ scan.pos \in Nat
        /\ \A q \in 0 .. (p.end - 1) : At(src, q) = At(c, p.offset + q)
    BY <1>1, TaskLooks
  <2>3. /\ p.n_max = Unlimited /\ p.offset \in BufferStarts(input)
        /\ p.offset + p.end = Bound /\ scan.pos <= p.end
        /\ p.end = FullSize(input) \/ p.offset + p.end = Len(c)
        /\ First <= p.offset + scan.pos
        /\ Complete(scan.destination, c, e, First, p.offset + scan.pos)
    BY <1>1, <2>1 DEF TaskComplete, FoundUpTo
  <2>4. First \in Nat /\ e \in {"lf", "cr"}
    BY <1>5, AlikeFacts DEF Known, FileInv, EachEndsIn
  <2>5. Searched(src, p.end, scan.pos, scan.first_nl, e)
    BY <1>1, <1>5, TaskSearched
  <2>6. p.offset + scan.pos \in Nat
    BY <2>2
  <2>7. Part(src, p, c, First, p.offset + scan.pos)
    BY <2>2, <2>3, <2>4, <2>6 DEF Part
  <2> HIDE DEF src, p, c, e
  <2>8. /\ scan' \in LinesLocalsType
        /\ \/ scan'.out = "end" /\ Complete(scan'.destination, c, e, First, p.offset + p.end)
           \/ /\ scan'.out = "running" /\ scan'.pos > scan.pos /\ scan'.pos <= p.end
              /\ scan'.first_nl = e
              /\ Complete(scan'.destination, c, e, First, p.offset + scan'.pos)
    <3> DEFINE s == LinesStep(src, p, scan)
    <3>1. scan' = s
      BY <1>1 DEF src, p
    <3>2. /\ s \in LinesLocalsType
          /\ \/ s.out = "end" /\ Complete(s.destination, c, e, First, p.offset + p.end)
             \/ /\ s.out = "running" /\ s.pos > scan.pos /\ s.pos <= p.end
                /\ s.first_nl = e
                /\ Complete(s.destination, c, e, First, p.offset + s.pos)
      <4>1. Complete(scan.destination, c, e, First, p.offset + scan.pos)
        BY <2>3
      <4>2. scan \in LinesLocalsType /\ scan.out = "running"
        BY <2>2
      <4>3. QED  BY <2>5, <2>7, <4>1, <4>2, StepCompletes
    <3> HIDE DEF s
    <3>3. QED  BY <3>1, <3>2
  <2>9. PlaceFine'
    BY <1>1, <1>3, <2>1 DEF PlaceFine
  <2>10. ~Parsing' => FoundUpTo(Bound)'
    <3> SUFFICES ASSUME ~Parsing' PROVE FoundUpTo(Bound)'
      OBVIOUS
    <3>1. Complete(scan'.destination, c, e, First, Bound)
      BY <2>3, <2>8 DEF Parsing
    <3>2. First <= Bound
      BY <2>2, <2>3, <2>4
    <3>3. QED  BY <1>1, <1>3, <3>1, <3>2 DEF FoundUpTo, c, e
  <2>11. Between'
    <3>1. pc = "parse" => write.state # "none"
      BY <1>1 DEF Known, NewlinesInv, FirstFine
    <3>2. QED  BY <1>1, <1>4, <2>10, <3>1 DEF Between, Ends
  <2>12. TaskComplete'
    <3>1. CASE ~Parsing'
      BY <3>1 DEF TaskComplete
    <3>2. CASE Parsing'
      <4>1. /\ scan'.pos > scan.pos /\ scan'.pos <= p.end /\ scan'.first_nl = e
            /\ Complete(scan'.destination, c, e, First, p.offset + scan'.pos)
        BY <2>8, <3>2 DEF Parsing
      <4>2. PICK pos \in Nat : pos = scan'.pos
        BY <2>8 DEF LinesLocalsType
      <4>3. First <= p.offset + pos
        <5>1. pos > scan.pos
          BY <4>1, <4>2
        <5>2. \A a, b, m, n \in Nat : a <= b + m /\ n > m => a <= b + n
          OBVIOUS
        <5>3. QED  BY <2>2, <2>3, <2>4, <5>1, <5>2 DEF p
      <4>4. FoundUpTo(region.call.offset + scan.pos)'
        BY <1>1, <1>3, <4>1, <4>2, <4>3 DEF FoundUpTo, c, e, p
      <4>5. scan'.first_nl # "any"
        BY <2>4, <4>1
      <4>6. QED  BY <1>1, <1>3, <2>3, <4>1, <4>4, <4>5 DEF TaskComplete, c, e, p
    <3>3. QED  BY <3>1, <3>2
  <2>13. QED  BY <2>9, <2>11, <2>12
<1>6. Alike' => Alike
  BY <1>1 DEF Alike
<1>7. QED  BY <1>2, <1>5, <1>6 DEF CompleteInv

(* The newlines do not depend on what has been written. *)
LEMMA WriteComplete == Known /\ CompleteInv /\ Write => CompleteInv'
<1> SUFFICES ASSUME Known, CompleteInv, Write PROVE CompleteInv'
  OBVIOUS
<1>1. /\ Writing /\ write' = [write EXCEPT !.state = "done"]
      /\ UNCHANGED <<input, taken, pc, buf, i, sz, start, total_read, remaining, region,
                     scan>>
  BY DEF Write
<1>2. write.state # "none" /\ write'.state # "none"
  BY <1>1 DEF Writing, Known, TypeInv, WriteTypes
<1>3. pc \notin Ends
  BY <1>1 DEF Known, TasksBehind, Ends
<1>4. /\ First' = First /\ FullSize(input') = FullSize(input) /\ EndChar' = EndChar
      /\ BufferStarts(input') = BufferStarts(input) /\ Bound' = Bound
      /\ Parsing' = Parsing
  BY <1>1 DEF First, EndChar, Bound, Parsing
<1>5. NulsFine'
  BY <1>1 DEF CompleteInv, NulsFine
<1>6. ASSUME Alike PROVE PlaceFine' /\ TaskComplete' /\ Between'
  <2>1. PlaceFine /\ TaskComplete /\ Between
    BY <1>6 DEF CompleteInv
  <2>2. PlaceFine'
    BY <1>1, <1>3, <1>4, <2>1 DEF PlaceFine, Ends
  <2>3. TaskComplete'
    BY <1>1, <1>4, <2>1 DEF TaskComplete, FoundUpTo
  <2>4. Between'
    BY <1>1, <1>2, <1>3, <1>4, <2>1 DEF Between, FoundUpTo, Ends
  <2>5. QED  BY <2>2, <2>3, <2>4
<1>7. Alike' => Alike
  BY <1>1 DEF Alike
<1>8. QED  BY <1>5, <1>6, <1>7 DEF CompleteInv

(* At the end the file is the content, which ends in a newline: no more is    *)
(* put after those that were found.                                        *)
LEMMA FinishComplete == Known /\ CompleteInv /\ Finish => CompleteInv'
<1> SUFFICES ASSUME Known, CompleteInv, Finish PROVE CompleteInv'
  OBVIOUS
<1>1. /\ UNCHANGED <<input, taken, buf, i, sz, start, total_read, remaining, region, write,
                     out>>
      /\ pc = "finish" /\ pc' \in Ends /\ ~Parsing /\ ~Writing
      /\ scan' = IF out # <<>> /\ input.n_max = Unlimited /\ Last(out) \notin {"lf", "cr"}
                 THEN [scan EXCEPT !.destination = Append(@, Len(out))] ELSE scan
  BY DEF Finish, Ends
<1>2. NulsFine'
  BY <1>1 DEF CompleteInv, NulsFine
<1>3. ASSUME Alike PROVE PlaceFine' /\ TaskComplete' /\ Between'
  <2> DEFINE c == input.content
  <2>1. PlaceFine /\ Between
    BY <1>3 DEF CompleteInv
  <2>2. taken = Len(c) /\ total_read = taken /\ FoundUpTo(Bound) /\ Bound = total_read
    BY <1>1, <2>1 DEF PlaceFine, Between, Bound
  <2>3. c \in Seq(Char) /\ Len(c) \in Nat \ {0} /\ c[Len(c)] \in {"lf", "cr"}
    BY <1>3, AlikeFacts DEF Known, FileInv, File
  <2>4. out = c
    <3>1. /\ out \in Seq(Char) /\ Len(out) \in Nat
          /\ \A k \in 1 .. Len(out) : out[k] = c[k]
      BY DEF Known, FileInv, FileFine
    <3>2. Len(out) = Len(c)
      <4>1. Given = Len(out) + 0 /\ total_read = Given
        BY <1>1, CountedFacts DEF Given
      <4>2. QED  BY <2>2, <3>1, <4>1
    <3>3. QED  BY <2>3, <3>1, <3>2
  <2>5. scan' = scan
    <3>1. Last(out) = c[Len(c)]
      BY <2>4 DEF Last
    <3>2. QED  BY <1>1, <2>3, <3>1
  <2>6. FoundUpTo(Len(input.content))'
    BY <1>1, <2>2, <2>5 DEF FoundUpTo, First, EndChar
  <2>7. PlaceFine'
    BY <1>1, <2>1, <2>4 DEF PlaceFine, Ends
  <2>8. TaskComplete'
    BY <1>1, <2>5 DEF TaskComplete, Parsing
  <2>9. Between'
    BY <1>1, <2>6 DEF Between, Ends
  <2>10. QED  BY <2>7, <2>8, <2>9
<1>4. Alike' => Alike
  BY <1>1 DEF Alike
<1>5. QED  BY <1>2, <1>3, <1>4 DEF CompleteInv

(* Every step keeps the newlines complete. *)
LEMMA NextComplete == Known /\ CompleteInv /\ [Next]_vars => CompleteInv'
<1>1. CompleteInv /\ UNCHANGED vars => CompleteInv'
  BY DEF vars, CompleteInv, NulsFine, Alike, PlaceFine, TaskComplete, Between, FoundUpTo,
         First, EndChar, Bound, Parsing
<1>2. QED
  BY <1>1, OpenComplete, WaitForParseComplete, WaitForWriteComplete, ReadComplete,
     ParseComplete, WriteComplete, FinishComplete
  DEF Next, Main, Done

(* Then the table is that of a file. *)
LEMMA CompleteReadsAlike ==
  Known /\ CompleteInv => (ReadAlike(input) => FilesReadAlike)
<1> SUFFICES ASSUME Known, CompleteInv, ReadAlike(input), pc = "done",
                    input.n_max = Unlimited, Last(input.content) \in {"lf", "cr"}
             PROVE  TableOf(out, scan.destination, input.cols)
                      = TableOf(input.content, FileNewlines(input.content, Unlimited), input.cols)
  BY DEF FilesReadAlike
<1> DEFINE c == input.content
<1>1. c \in File
  <2>1. c \in Seq(Char) /\ Len(c) \in Nat /\ c # <<>>
    BY Sizes DEF Known, FileInv, ReadAlike, RowsInside
  <2>2. Len(c) > 0
    BY <2>1
  <2>3. QED  BY <2>1, <2>2 DEF File, Last
<1>2. Alike
  BY <1>1 DEF Alike
<1>3. out = c /\ FoundUpTo(Len(c))
  BY <1>2 DEF CompleteInv, PlaceFine, Between
<1>4. First \in Nat /\ First < Len(c) - 1
  BY <1>2, AlikeFacts DEF Known, FileInv
<1>5. UniformNewlines(c) /\ Columns(input.cols)
  BY DEF ReadAlike
<1>6. Complete(scan.destination, c, At(c, Len(c) - 1), FindFirstLine(c, Skip), Len(c))
  BY <1>3 DEF FoundUpTo, First, EndChar
<1> HIDE DEF c
<1>7. TableOf(c, scan.destination, input.cols)
        = TableOf(c, FileNewlines(c, Unlimited), input.cols)
  BY <1>1, <1>4, <1>5, <1>6, TablesAlike DEF First, c
<1>8. QED  BY <1>3, <1>7 DEF c

(* For every input and turns of the tasks: a content that ends in a newline,  *)
(* and is one of those above, is read through a connection as the same table *)
(* as from a file.                                                         *)
THEOREM FilesAlwaysReadAlike == Spec => [](ReadAlike(input) => FilesReadAlike)
<1>1. Init => Known /\ CompleteInv
  BY InitFileInv, InitTasksBehind, InitTypeInv, InitNewlinesInv, InitComplete DEF Known
<1>2. Known /\ CompleteInv /\ [Next]_vars => Known' /\ CompleteInv'
  BY NextFileInv, NextTasksBehind, NextTypeInv, NextNewlines, NextComplete DEF Known
<1>3. Known /\ CompleteInv => (ReadAlike(input) => FilesReadAlike)
  BY CompleteReadsAlike
<1>4. QED  BY <1>1, <1>2, <1>3, PTL DEF Spec

=============================================================================
