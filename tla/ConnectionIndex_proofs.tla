----------------------- MODULE ConnectionIndex_proofs ----------------------
(***************************************************************************)
(* Proofs about ConnectionIndex, for every content, size of the buffers    *)
(* and n_max: the main thread and its tasks do not use a buffer in each    *)
(* other's way, the temporary file is a copy of what was read, positions   *)
(* are within the buffer that they are about, no separator is past the end *)
(* of the file, and a first row is refused exactly if it does not fit.     *)
(***************************************************************************)
EXTENDS ConnectionIndex, IndexRegion_proofs

(* Where the tasks are while the main thread is about to start the writing  *)
(* task, or to read: in the buffer that was read last.                      *)
TasksBehind ==
  /\ i \in {0, 1}
  /\ pc = "open" => ~Parsing /\ ~Writing
  /\ pc \in {"write", "read"} => (Parsing => region.buf = i)
  /\ pc = "read" => (Writing => write.buf = i)

(* The tasks are behind at first, and stay so: each step of the main thread *)
(* that starts a task waits for the one before it.                          *)
LEMMA InitTasksBehind == Init => TasksBehind
BY DEF Init, TasksBehind, Parsing, Writing, Idle, Enter

(* Each action keeps the tasks behind. *)
LEMMA NextTasksBehind == TasksBehind /\ [Next]_vars => TasksBehind'
<1> SUFFICES ASSUME TasksBehind, [Next]_vars PROVE TasksBehind'
  OBVIOUS
<1>1. CASE Open
  BY <1>1 DEF Open, TasksBehind, Parsing, Writing
<1>2. CASE IndexFirstRow
  BY <1>2 DEF IndexFirstRow, TasksBehind
<1>3. CASE WaitForParse
  <2>1. pc' = "write" /\ i' = i /\ ~Parsing
    BY <1>3 DEF WaitForParse
  <2>2. Parsing' => region'.buf = i
    BY <1>3, <2>1 DEF WaitForParse, Parsing, Idle, Enter
  <2>3. QED  BY <2>1, <2>2 DEF TasksBehind
<1>4. CASE WaitForWrite
  <2>1. i' = i /\ region' = region /\ scan' = scan /\ pc = "write"
    BY <1>4 DEF WaitForWrite
  <2>2. pc' \in {"finish", "read"} /\ (pc' = "read" => write'.buf = i)
    BY <1>4 DEF WaitForWrite
  <2>3. QED  BY <2>1, <2>2 DEF TasksBehind, Parsing
<1>5. CASE Read
  BY <1>5 DEF Read, TasksBehind
<1>6. CASE Finish
  BY <1>6 DEF Finish, TasksBehind
<1>7. CASE Parse
  BY <1>7 DEF Parse, TasksBehind, Parsing, Writing, main
<1>8. CASE Write
  <2>1. UNCHANGED <<pc, i, region, scan>> /\ Writing
    BY <1>8 DEF Write, main
  <2>2. write'.state # "running" \/ write'.buf = write.buf
    BY <1>8 DEF Write
  <2>3. QED  BY <2>1, <2>2 DEF TasksBehind, Parsing, Writing
<1>9. CASE UNCHANGED vars
  BY <1>9 DEF vars, TasksBehind, Parsing, Writing
<1>10. QED
  BY <1>1, <1>2, <1>3, <1>4, <1>5, <1>6, <1>7, <1>8, <1>9 DEF Next, Main, Done

(* A step of the constructor never changes a buffer that the indexing or    *)
(* the writing task is about to look at, for every schedule of the three.   *)
THEOREM BuffersAlwaysKept == Spec => BuffersKept
<1>1. TasksBehind /\ [Next]_vars =>
        [\A k \in {0, 1} : buf'[k] # buf[k] => k \notin InUse]_vars
  <2> SUFFICES ASSUME TasksBehind, Next, NEW k \in {0, 1}, buf'[k] # buf[k]
               PROVE  k \notin InUse
    OBVIOUS
  <2>1. CASE Open
    <3>1. ~Parsing /\ ~Writing
      BY <2>1 DEF Open, TasksBehind
    <3>2. QED  BY <3>1 DEF InUse
  <2>2. CASE Read
    <3>1. (Parsing => region.buf = i) /\ (Writing => write.buf = i) /\ i \in {0, 1}
      BY <2>2 DEF Read, TasksBehind
    <3>2. k = 1 - i
      BY <2>2, <3>1 DEF Read
    <3>3. QED  BY <3>1, <3>2 DEF InUse
  <2>3. CASE buf' = buf
    BY <2>3
  <2>4. QED
    BY <2>1, <2>2, <2>3
    DEF Next, Main, Done, vars, main, IndexFirstRow, WaitForParse, WaitForWrite, Parse,
        Write, Finish
<1>2. QED
  BY <1>1, InitTasksBehind, NextTasksBehind, PTL DEF Spec, BuffersKept

----------------------------------------------------------------------------
(* The temporary file.                                                     *)

(* What has been given to the writing task, and will be in the file.       *)
Given == Len(out) + (IF Writing THEN write.size ELSE 0)

(* The buffers and the connection. *)
BuffersFine ==
  /\ input \in Inputs
  /\ taken \in 0 .. Len(input.content)
  /\ buf \in [{0, 1} -> Seq(Char \union {"nul"})]

(* The file is a beginning of the content, what is being written goes on    *)
(* where it ends, and the buffer of the main thread where that ends.        *)
FileFine ==
  /\ out \in Seq(Char) /\ Len(out) <= taken
  /\ \A k \in 1 .. Len(out) : out[k] = input.content[k]
  /\ pc = "open" => out = <<>> /\ taken = 0

WriteFine ==
  Writing =>
    /\ write.buf \in {0, 1}
    /\ write.size \in Nat /\ write.size <= Len(buf[write.buf])
    /\ Len(out) + write.size <= taken
    /\ \A k \in 1 .. write.size : buf[write.buf][k] = input.content[Len(out) + k]

ReadFine ==
  /\ pc \in {"first_row", "parse", "write"} =>
       /\ sz \in Nat /\ sz <= Len(buf[i])
       /\ Given + sz = taken
       /\ \A k \in 1 .. sz : buf[i][k] = input.content[Given + k]
  /\ pc = "read" => Given = taken

FileInv == BuffersFine /\ FileFine /\ WriteFine /\ ReadFine

(* What a read gives goes on where the last one ended. *)
LEMMA ReadFacts ==
  ASSUME BuffersFine
  PROVE  /\ ReadConnection \in Seq(Char)
         /\ taken + Len(ReadConnection) \in 0 .. Len(input.content)
         /\ Len(ReadConnection) \in 0 .. (input.chunk_size - 1)
         /\ \A k \in 1 .. Len(ReadConnection) : ReadConnection[k] = input.content[taken + k]
<1> DEFINE size == Len(input.content)
           most == taken + input.chunk_size - 1
<1>1. /\ input.content \in Seq(Char) /\ size \in Nat
      /\ taken \in 0 .. size /\ most \in Nat /\ most >= taken
      /\ input.chunk_size \in Nat
  BY InputsAssumption DEF BuffersFine
<1> HIDE DEF most
<1>2. PICK to \in Nat : to = Min({most, size}) /\ to <= size /\ to <= most /\ taken <= to
  <2>1. \E x \in {most, size} : \A y \in {most, size} : x <= y
    BY <1>1
  <2>2. /\ Min({most, size}) \in {most, size}
        /\ \A y \in {most, size} : Min({most, size}) <= y
    BY <2>1 DEF Min
  <2>3. QED  BY <1>1, <2>2
<1>3. ReadConnection = SubSeq(input.content, taken + 1, to)
  BY <1>2 DEF ReadConnection, most
<1> DEFINE c == input.content
<1> HIDE DEF c
<1>4. /\ SubSeq(c, taken + 1, to) \in Seq(Char)
      /\ Len(SubSeq(c, taken + 1, to)) = to - taken
      /\ \A k \in 1 .. (to - taken) : SubSeq(c, taken + 1, to)[k] = c[taken + k]
  <2>1. c \in Seq(Char) /\ taken \in Nat /\ to \in Nat /\ taken <= to /\ to <= Len(c)
    BY <1>1, <1>2 DEF c
  <2>2. taken + 1 \in 1 .. (Len(c) + 1)
    BY <2>1
  <2>3. Len(SubSeq(c, taken + 1, to)) = to - taken
    BY <2>1, <2>2
  <2>4. ASSUME NEW k \in 1 .. (to - taken) PROVE SubSeq(c, taken + 1, to)[k] = c[taken + k]
    BY <2>1, <2>2, <2>4
  <2>5. SubSeq(c, taken + 1, to) \in Seq(Char)
    BY <2>1, <2>2
  <2>6. QED  BY <2>3, <2>4, <2>5
<1>5. Len(ReadConnection) = to - taken /\ taken + (to - taken) = to
  BY <1>1, <1>2, <1>3, <1>4 DEF c
<1>6. ReadConnection \in Seq(Char) /\ taken + Len(ReadConnection) \in 0 .. size
  <2>1. ReadConnection \in Seq(Char)
    BY <1>3, <1>4 DEF c
  <2>2. taken + Len(ReadConnection) = to
    BY <1>5
  <2>3. to \in 0 .. size
    BY <1>1, <1>2
  <2>4. QED  BY <2>1, <2>2, <2>3
<1>7. \A k \in 1 .. Len(ReadConnection) : ReadConnection[k] = input.content[taken + k]
  BY <1>3, <1>4, <1>5 DEF c
<1>8. Len(ReadConnection) \in 0 .. (input.chunk_size - 1)
  <2>1. to - taken \in 0 .. (input.chunk_size - 1)
    BY <1>1, <1>2 DEF most
  <2>2. QED  BY <1>5, <2>1
<1>9. QED  BY <1>6, <1>7, <1>8

(* Nothing has been read or written at first. *)
LEMMA InitFileInv == Init => FileInv
<1> SUFFICES ASSUME Init PROVE FileInv
  OBVIOUS
<1>1. input \in Inputs /\ input.content \in Seq(Char)
  BY InputsAssumption DEF Init
<1>2. buf \in [{0, 1} -> Seq(Char \union {"nul"})]
  BY DEF Init
<1>3. out = <<>> /\ taken = 0 /\ pc = "open" /\ ~Writing
  BY DEF Init, Writing
<1>4. QED
  BY <1>1, <1>2, <1>3 DEF FileInv, BuffersFine, FileFine, WriteFine, ReadFine

(* The first read. *)
LEMMA OpenFileInv == FileInv /\ TasksBehind /\ Open => FileInv'
<1> SUFFICES ASSUME FileInv, TasksBehind, Open PROVE FileInv'
  OBVIOUS
<1>1. /\ taken' = Len(ReadConnection) /\ sz' = taken'
      /\ buf' = [buf EXCEPT ![i] = Append(ReadConnection, "nul")]
      /\ UNCHANGED <<input, i, out, write>> /\ pc = "open" /\ pc' # "open" /\ pc' # "read"
  BY DEF Open
<1>2. out = <<>> /\ taken = 0 /\ ~Writing /\ i \in {0, 1}
  BY <1>1 DEF FileInv, FileFine, TasksBehind
<1>3. /\ ReadConnection \in Seq(Char)
      /\ taken' \in 0 .. Len(input.content)
      /\ \A k \in 1 .. taken' : ReadConnection[k] = input.content[k]
  BY <1>1, <1>2, ReadFacts DEF FileInv, BuffersFine
<1> DEFINE s == ReadConnection
<1> HIDE DEF s
<1>4. /\ buf'[i] \in Seq(Char \union {"nul"}) /\ Len(buf'[i]) = taken' + 1
      /\ \A k \in 1 .. taken' : buf'[i][k] = input.content[k]
  <2>1. buf'[i] = Append(s, "nul")
    BY <1>1, <1>2 DEF s, FileInv, BuffersFine
  <2>2. QED  BY <1>1, <1>3, <2>1, NulFacts DEF s
<1>5. BuffersFine'
  BY <1>1, <1>2, <1>3, <1>4 DEF FileInv, BuffersFine
<1>6. FileFine' /\ WriteFine' /\ ~Writing'
  BY <1>1, <1>2, <1>3 DEF FileFine, WriteFine, Writing
<1>7. Given' = 0
  BY <1>1, <1>2, <1>6 DEF Given
<1>8. ReadFine'
  BY <1>1, <1>2, <1>3, <1>4, <1>7 DEF ReadFine
<1>9. QED  BY <1>5, <1>6, <1>8 DEF FileInv

(* Later ones: into the buffer that is not being written.                   *)
LEMMA ReadFileInv == FileInv /\ TasksBehind /\ Read => FileInv'
<1> SUFFICES ASSUME FileInv, TasksBehind, Read PROVE FileInv'
  OBVIOUS
<1>1. /\ taken' = taken + Len(ReadConnection) /\ sz' = Len(ReadConnection)
      /\ i' = 1 - i
      /\ buf' = IF sz' = 0 THEN buf ELSE [buf EXCEPT ![i'] = Append(ReadConnection, "nul")]
      /\ UNCHANGED <<input, out, write>> /\ pc = "read"
      /\ pc' = IF sz' = 0 THEN "finish" ELSE "parse"
  BY DEF Read
<1>2. Given = taken /\ i \in {0, 1} /\ (Writing => write.buf = i)
  BY <1>1 DEF FileInv, ReadFine, TasksBehind
<1>3. /\ ReadConnection \in Seq(Char) /\ sz' \in Nat
      /\ taken \in Nat /\ taken' \in 0 .. Len(input.content)
      /\ \A k \in 1 .. sz' : ReadConnection[k] = input.content[taken + k]
  BY <1>1, ReadFacts DEF FileInv, BuffersFine
<1> DEFINE s == ReadConnection
<1> HIDE DEF s
<1>4. /\ buf' \in [{0, 1} -> Seq(Char \union {"nul"})]
      /\ sz' # 0 => buf'[1 - i] = Append(s, "nul")
      /\ buf'[i] = buf[i]
  <2>1. Append(s, "nul") \in Seq(Char \union {"nul"})
    BY <1>3, NulFacts DEF s
  <2>2. 1 - i \in {0, 1} /\ 1 - i # i
    BY <1>2
  <2>3. QED  BY <1>1, <1>2, <2>1, <2>2 DEF s, FileInv, BuffersFine
<1>5. BuffersFine'
  BY <1>1, <1>3, <1>4 DEF FileInv, BuffersFine
<1>6. FileFine'
  <2>1. Len(out) \in Nat /\ Len(out) <= taken
    BY DEF FileInv, FileFine
  <2>2. Len(out) <= taken'
    BY <1>1, <1>3, <2>1
  <2>3. QED  BY <1>1, <2>2 DEF FileInv, FileFine
<1>7. WriteFine' /\ Given' = taken
  <2>1. Writing' = Writing /\ Given' = Given
    BY <1>1 DEF Writing, Given
  <2>2. CASE Writing
    <3>1. Len(out) + write.size <= taken' /\ buf'[write.buf] = buf[write.buf]
      BY <1>1, <1>2, <1>3, <1>4, <2>2 DEF FileInv, WriteFine, FileFine
    <3>2. QED  BY <1>1, <1>2, <2>1, <2>2, <3>1 DEF FileInv, WriteFine
  <2>3. QED  BY <1>2, <2>1, <2>2 DEF WriteFine
<1>8. ReadFine'
  <2>1. CASE sz' = 0
    BY <1>1, <2>1 DEF ReadFine
  <2>2. CASE sz' # 0
    <3>1. buf'[i'] = Append(s, "nul") /\ pc' = "parse"
      BY <1>1, <1>4, <2>2
    <3>2. Len(buf'[i']) = sz' + 1 /\ \A k \in 1 .. sz' : buf'[i'][k] = input.content[taken + k]
      BY <1>1, <1>3, <3>1, NulFacts DEF s
    <3>3. QED  BY <1>1, <1>3, <1>7, <3>1, <3>2 DEF ReadFine
  <2>3. QED  BY <2>1, <2>2
<1>9. QED  BY <1>5, <1>6, <1>7, <1>8 DEF FileInv

(* The writing task is given the buffer that goes on where it stopped.      *)
LEMMA WaitForWriteFileInv == FileInv /\ TasksBehind /\ WaitForWrite => FileInv'
<1> SUFFICES ASSUME FileInv, TasksBehind, WaitForWrite PROVE FileInv'
  OBVIOUS
<1>1. UNCHANGED <<input, taken, buf, i, sz, out>> /\ pc = "write" /\ ~Writing
  BY DEF WaitForWrite
<1>2. BuffersFine'
  BY <1>1 DEF FileInv, BuffersFine
<1>3. CASE pc' = "finish" /\ UNCHANGED write
  BY <1>1, <1>2, <1>3 DEF FileInv, FileFine, WriteFine, ReadFine, Writing
<1>4. CASE pc' = "read" /\ write' = [buf |-> i, size |-> sz, state |-> "running"]
  <2>1. /\ sz \in Nat /\ sz <= Len(buf[i]) /\ Len(out) + sz = taken
        /\ \A k \in 1 .. sz : buf[i][k] = input.content[Len(out) + k]
    BY <1>1 DEF FileInv, ReadFine, Given
  <2>2. Writing' /\ write'.buf = i /\ write'.size = sz
    BY <1>4 DEF Writing
  <2>3. Len(out) \in Nat /\ taken \in Nat
    BY InputsAssumption DEF FileInv, FileFine, BuffersFine
  <2>4. WriteFine'
    BY <1>1, <2>1, <2>2, <2>3 DEF WriteFine, TasksBehind
  <2>5. Given' = taken'
    BY <1>1, <2>1, <2>2 DEF Given
  <2>6. FileFine'
    BY <1>1, <1>4 DEF FileInv, FileFine
  <2>7. QED  BY <1>2, <1>4, <2>4, <2>5, <2>6 DEF FileInv, ReadFine
<1>5. QED  BY <1>3, <1>4 DEF WaitForWrite

(* The write itself. *)
LEMMA WriteFileInv == FileInv /\ TasksBehind /\ Write => FileInv' /\ Given' = Given
<1> SUFFICES ASSUME FileInv, TasksBehind, Write PROVE FileInv' /\ Given' = Given
  OBVIOUS
<1>1. /\ Writing /\ out' = out \o SubSeq(buf[write.buf], 1, write.size)
      /\ UNCHANGED <<input, taken, pc, buf, i, sz>>
      /\ ~Writing'
  BY DEF Write, main, Writing
<1> DEFINE b == buf[write.buf]
           n == write.size
<1>2. /\ write.buf \in {0, 1} /\ n \in Nat /\ n <= Len(b) /\ Len(out) + n <= taken
      /\ \A k \in 1 .. n : b[k] = input.content[Len(out) + k]
  BY <1>1 DEF FileInv, WriteFine
<1>3. /\ out \in Seq(Char) /\ b \in Seq(Char \union {"nul"})
      /\ \A k \in 1 .. Len(out) : out[k] = input.content[k]
      /\ taken \in 0 .. Len(input.content) /\ input.content \in Seq(Char)
  BY <1>2, InputsAssumption DEF FileInv, FileFine, BuffersFine
<1> HIDE DEF b, n
<1> DEFINE part == SubSeq(b, 1, n)
<1>4. Len(part) = n /\ \A k \in 1 .. n : part[k] = input.content[Len(out) + k]
  BY <1>2, <1>3
<1>5. part \in Seq(Char)
  <2>1. part \in Seq(Char \union {"nul"})
    BY <1>2, <1>3
  <2>2. ASSUME NEW k \in 1 .. Len(part) PROVE part[k] \in Char
    <3>1. Len(out) + k \in 1 .. Len(input.content)
      BY <1>2, <1>3, <1>4, <2>2
    <3>2. input.content[Len(out) + k] \in Char
      BY <1>3, <3>1
    <3>3. part[k] = input.content[Len(out) + k]
      BY <1>4, <2>2
    <3>4. QED  BY <3>2, <3>3
  <2>3. QED  BY <2>1, <2>2
<1> HIDE DEF part
<1>6. out' = out \o part
  BY <1>1 DEF part, b, n
<1>7. Len(out') = Len(out) + n /\ out' \in Seq(Char)
  <2>1. out \o part \in Seq(Char) /\ Len(out \o part) = Len(out) + Len(part)
    BY <1>3, <1>5
  <2>2. QED  BY <1>4, <1>6, <2>1
<1>8. ASSUME NEW k \in 1 .. Len(out') PROVE out'[k] = input'.content[k]
  <2>1. CASE k <= Len(out)
    BY <1>1, <1>3, <1>5, <1>6, <1>7, <2>1
  <2>2. CASE k > Len(out)
    <3>1. out'[k] = part[k - Len(out)] /\ k - Len(out) \in 1 .. n
      BY <1>2, <1>3, <1>4, <1>5, <1>6, <1>7, <2>2
    <3>2. part[k - Len(out)] = input.content[Len(out) + (k - Len(out))]
      BY <1>4, <3>1
    <3>3. Len(out) + (k - Len(out)) = k
      BY <1>3
    <3>4. QED  BY <1>1, <3>1, <3>2, <3>3
  <2>3. QED  BY <1>3, <1>7, <2>1, <2>2
<1>9. Given' = Given
  BY <1>1, <1>7 DEF Given, n
<1>10. BuffersFine' /\ WriteFine' /\ ReadFine'
  BY <1>1, <1>9 DEF FileInv, BuffersFine, WriteFine, ReadFine
<1>11. FileFine'
  <2>1. Len(out') <= taken'
    BY <1>1, <1>2, <1>7
  <2>2. pc' # "open"
    BY <1>1 DEF TasksBehind
  <2>3. QED  BY <1>7, <1>8, <2>1, <2>2 DEF FileFine
<1>12. QED  BY <1>9, <1>10, <1>11 DEF FileInv

(* The other steps leave the file and the buffers alone. *)
LEMMA NextFileInv == FileInv /\ TasksBehind /\ [Next]_vars => FileInv'
<1> SUFFICES ASSUME FileInv, TasksBehind, [Next]_vars PROVE FileInv'
  OBVIOUS
<1> USE DEF FileInv, BuffersFine, FileFine, WriteFine, ReadFine, Given, Writing
<1>1. CASE IndexFirstRow
  BY <1>1 DEF IndexFirstRow
<1>2. CASE WaitForParse
  BY <1>2 DEF WaitForParse
<1>3. CASE Finish
  BY <1>3 DEF Finish
<1>4. CASE Parse
  BY <1>4 DEF Parse, main
<1>5. CASE UNCHANGED vars
  BY <1>5 DEF vars
<1>6. QED
  BY <1>1, <1>2, <1>3, <1>4, <1>5, OpenFileInv, ReadFileInv, WaitForWriteFileInv, WriteFileInv
  DEF Next, Main, Done

(* What has been written is what the connection gave, from its beginning.   *)
LEMMA FileInvPrefix == FileInv => FileIsPrefix
<1> SUFFICES ASSUME FileInv PROVE IsPrefix(out, input.content)
  BY DEF FileIsPrefix
<1>1. /\ out \in Seq(Char) /\ input.content \in Seq(Char)
      /\ Len(out) <= Len(input.content)
      /\ \A k \in 1 .. Len(out) : out[k] = input.content[k]
  BY InputsAssumption DEF FileInv, FileFine, BuffersFine
<1>2. SubSeq(out, 1, Len(out)) = SubSeq(input.content, 1, Len(out))
  BY <1>1
<1>3. QED  BY <1>1, <1>2 DEF IsPrefix

(* The temporary file is a beginning of what the connection gives, for      *)
(* every size of the buffers and every schedule of the main thread, the     *)
(* indexing and the writing task: no buffer is written twice, left out or   *)
(* written after it has been filled again.                                  *)
THEOREM FileAlwaysPrefix == Spec => []FileIsPrefix
<1>1. Init => FileInv /\ TasksBehind
  BY InitFileInv, InitTasksBehind
<1>2. FileInv /\ TasksBehind /\ [Next]_vars => FileInv' /\ TasksBehind'
  BY NextFileInv, NextTasksBehind
<1>3. FileInv => FileIsPrefix
  BY FileInvPrefix
<1>4. QED  BY <1>1, <1>2, <1>3, PTL DEF Spec

----------------------------------------------------------------------------
(* Types, and where the positions of the tasks are.                        *)

(* What the main thread counts.  What it has given to the tasks is what is  *)
(* in the file or about to be.                                             *)
MainFine ==
  /\ pc \in {"open", "too_small", "first_row", "parse", "write", "read", "finish",
             "done", "crashed"}
  /\ sz \in 0 .. (input.chunk_size - 1)
  /\ nl \in (-1 .. input.chunk_size) \X {"lf", "cr"}
  /\ n_max \in Nat \union {Unlimited}
  /\ columns \in 0 .. MaxSize /\ rows \in Nat
  /\ first_row \in Seq(Nat)
  /\ total_read = Given

(* The buffers, and what of them the writing task writes. *)
SizesFine ==
  /\ \A k \in {0, 1} : buf[k] = <<>> \/ buf[k][Len(buf[k])] = "nul"
  /\ write \in [buf : {0, 1}, size : Nat, state : {"none", "running", "done"}]
  /\ write.size < input.chunk_size

(* A region ends in its buffer.  It is a region of the buffer of the main   *)
(* thread when that is about to read into the other one.                   *)
RegionFine ==
  /\ region.buf \in {0, 1} /\ region.call \in CallType
  /\ region.call.end <= Len(buf[region.buf])
  /\ pc = "open" => region.call.end = 0
  /\ pc = "first_row" => /\ region.call.start <= region.call.end + 1
                         /\ region.call.file_offset = 0 /\ Len(buf[i]) = sz + 1
  /\ pc \in {"first_row", "read"} => region.buf = i
  /\ pc = "read" => write.state # "none"
  /\ pc \in {"parse", "write"} /\ write.state = "none" => region.buf = i
  /\ pc = "write" /\ n_max # 0 => region.buf = i

(* The locals of the indexing task. *)
ScanFine ==
  /\ scan \in LocalsType
  /\ Parsing /\ scan.pos < region.call.end => scan.last_tick <= region.call.end

TypeInv == MainFine /\ SizesFine /\ RegionFine /\ ScanFine

(* What is known of a call of index_region that begins.                     *)
LEMMA EnterType ==
  ASSUME NEW p \in CallType, NEW state \in CsvState, NEW cols \in Nat,
         NEW destination \in Seq(Nat)
  PROVE  LET r == Enter(p, state, cols, destination)
         IN  /\ r \in LocalsType /\ r.pos = p.start /\ r.last_tick = p.start
             /\ r.destination = destination /\ r.out = "running"
BY DEF Enter, LocalsType, CallType

(* The arguments of a call are numbers and a newline. *)
LEMMA RegionType ==
  ASSUME NEW start \in Nat, NEW end \in Nat, NEW newline \in {"lf", "cr"},
         NEW limit \in Nat \union {Unlimited}, NEW cols \in Nat, NEW offset \in Nat
  PROVE  LET p == [Region(start, end, newline, limit, cols, 1, 0) EXCEPT
                     !.file_offset = offset]
         IN  /\ p \in CallType /\ p.start = start /\ p.end = end
             /\ p.file_offset = offset
             /\ Region(start, end, newline, limit, cols, 1, 0) \in CallType
             /\ Region(start, end, newline, limit, cols, 1, 0).start = start
             /\ Region(start, end, newline, limit, cols, 1, 0).end = end
             /\ Region(start, end, newline, limit, cols, 1, 0).file_offset = 0
BY DEF Region, CallType

(* size_t arithmetic stays within the type.                                 *)
LEMMA WrappedType == \A n \in Int : Wrapped(n) \in 0 .. MaxSize
<1>1. \A d \in Nat \ {0} : \A n \in Int : n % d \in 0 .. (d - 1)
  OBVIOUS
<1>2. MaxSize + 1 \in Nat \ {0} /\ (MaxSize + 1) - 1 = MaxSize
  BY MaxSizeAssumption
<1>3. QED  BY <1>1, <1>2 DEF Wrapped

(* The number of rows is not negative. *)
LEMMA RowsOfType ==
  ASSUME NEW size \in Nat, NEW cols \in Nat
  PROVE  RowsOf(size, cols) \in Nat
<1>1. \A d \in Nat \ {0} : \A n \in Nat : n \div d \in Nat
  OBVIOUS
<1>2. size \div (cols + 1) \in Nat
  BY <1>1
<1>3. QED  BY <1>2, HeaderAssumption DEF RowsOf

(* The constants of the reading. *)
LEMMA InputFields ==
  ASSUME input \in Inputs
  PROVE  /\ input.chunk_size \in Nat \ {0, 1} /\ input.skip \in Nat
         /\ input.n_max \in Nat \union {Unlimited}
         /\ input.content \in Seq(Char)
BY InputsAssumption

(* Nothing is indexed at first. *)
LEMMA InitTypeInv == Init => TypeInv
<1> SUFFICES ASSUME Init PROVE TypeInv
  OBVIOUS
<1>1. input.chunk_size \in Nat \ {0, 1} /\ input.n_max \in Nat \union {Unlimited}
  BY InputFields DEF Init
<1>2. NMaxWithHeader(input.n_max) \in Nat \union {Unlimited}
  BY <1>1, HeaderAssumption DEF NMaxWithHeader, Unlimited
<1>3. NoRegion \in CallType /\ NoRegion.end = 0
  BY DEF NoRegion, Region, CallType, Unlimited
<1>4. Idle \in LocalsType /\ Idle.out = "idle"
  <2>1. /\ Enter(NoRegion, "RECORD_START", 0, <<>>) \in LocalsType
    BY <1>3 DEF Enter, LocalsType, CsvState, CallType
  <2>2. QED  BY <2>1 DEF Idle, LocalsType
<1>5. Given = 0
  BY DEF Init, Given, Writing
<1>6. MainFine
  <2>1. nl \in (-1 .. input.chunk_size) \X {"lf", "cr"}
    BY <1>1 DEF Init
  <2>2. columns \in 0 .. MaxSize
    BY MaxSizeAssumption DEF Init
  <2>3. QED  BY <1>1, <1>2, <1>5, <2>1, <2>2 DEF Init, MainFine
<1>7. SizesFine
  BY <1>1 DEF Init, SizesFine
<1>8. RegionFine
  BY <1>3 DEF Init, RegionFine
<1>9. ScanFine
  BY <1>4 DEF Init, ScanFine, Parsing
<1>10. QED  BY <1>6, <1>7, <1>8, <1>9 DEF TypeInv

(* The first row ends in the first buffer, and does not begin after that.   *)
LEMMA OpenTypeInv == FileInv /\ FileInv' /\ TasksBehind /\ TypeInv /\ Open => TypeInv'
<1> SUFFICES ASSUME FileInv, FileInv', TasksBehind, TypeInv, Open PROVE TypeInv'
  OBVIOUS
<1>1. /\ pc = "open" /\ taken' = Len(ReadConnection) /\ sz' = taken'
      /\ buf' = [buf EXCEPT ![i] = Append(ReadConnection, "nul")]
      /\ UNCHANGED <<input, i, n_max, total_read, scan, write, out,
                     first_row, errors, columns, rows>>
  BY DEF Open
<1>2. /\ ~Parsing /\ ~Writing /\ i \in {0, 1} /\ input.chunk_size \in Nat \ {0, 1}
      /\ n_max \in Nat \union {Unlimited} /\ out = <<>>
  BY <1>1, InputFields DEF TasksBehind, FileInv, BuffersFine, FileFine, TypeInv, MainFine
<1>3. /\ ReadConnection \in Seq(Char) /\ sz' \in 0 .. (input.chunk_size - 1)
  BY <1>1, ReadFacts DEF FileInv
<1>4. PICK chunk : chunk = Append(ReadConnection, "nul")
  OBVIOUS
<1>5. /\ Len(chunk) = sz' + 1 /\ chunk[Len(chunk)] = "nul" /\ buf'[i] = chunk
      /\ \A k \in {0, 1} : k # i => buf'[k] = buf[k]
  BY <1>1, <1>2, <1>3, <1>4, NulFacts DEF FileInv, BuffersFine
<1>6. sz' \in Nat /\ Len(chunk) \in Nat \ {0} /\ Len(chunk) - 1 = sz'
  <2>1. PICK m \in Nat : m = sz'
    BY <1>2, <1>3
  <2>2. Len(chunk) = m + 1
    BY <1>5, <2>1
  <2>3. sz' \in Nat
    BY <2>1
  <2>4. Len(chunk) \in Nat \ {0}
    BY <2>2
  <2>5. Len(chunk) - 1 = sz'
    <3>1. Len(chunk) - 1 = m
      BY <2>2
    <3>2. QED  BY <2>1, <3>1, Zenon
  <2>6. QED  BY <2>3, <2>4, <2>5
<1>7. SizesFine'
  BY <1>1, <1>5 DEF TypeInv, SizesFine
<1>8. ~Parsing' /\ ScanFine'
  BY <1>1, <1>2 DEF TypeInv, ScanFine, Parsing
<1>9. Given' = Given
  BY <1>1 DEF Given, Writing
<1>10. CASE sz' = 0
  <2>1. pc' = "done" /\ UNCHANGED <<nl, region>>
    BY <1>10 DEF Open
  <2>2. MainFine'
    BY <1>1, <1>3, <1>9, <2>1 DEF TypeInv, MainFine
  <2>3. Len(buf[region.buf]) \in Nat /\ Len(buf'[region.buf]) \in Nat
    BY <2>1 DEF TypeInv, RegionFine, FileInv, BuffersFine
  <2>4. region.call.end <= Len(buf'[region.buf])
    BY <1>1, <2>3 DEF TypeInv, RegionFine
  <2>5. RegionFine'
    BY <2>1, <2>4 DEF TypeInv, RegionFine
  <2>6. QED  BY <1>7, <1>8, <2>2, <2>5 DEF TypeInv
<1>11. CASE sz' # 0
  <2>1. PICK start \in {Min({FindFirstLine(chunk, input.skip), sz' + 1})} :
          /\ nl' = FirstNewline(chunk, start)
          /\ region' = [buf |-> i,
                        call |-> Region(start, nl'[1] + 1, nl'[2], n_max, 0, 1, 0)]
          /\ pc' \in {"too_small", "first_row"}
    BY <1>5, <1>11 DEF Open
  <2>2. start \in 0 .. (sz' + 1)
    <3>1. FindFirstLine(chunk, input.skip) \in Nat
      BY <1>3, <1>5, FindFirstLineForward
    <3>2. QED  BY <1>3, <2>1, <3>1, LeastOfTwo
  <2>3. /\ FindNewline(chunk, start) \in Nat \X {"lf", "cr"}
        /\ start < sz' + 1 => FindNewline(chunk, start)[1] >= start
        /\ start >= sz' + 1 => FindNewline(chunk, start)[1] = sz'
    <3>1. start \in Nat
      BY <1>6, <2>2
    <3>2. QED  BY <1>5, <1>6, <3>1, FindNewlineForward
  <2>4. /\ nl'[1] \in 0 .. sz' /\ nl'[2] \in {"lf", "cr"} /\ start <= nl'[1] + 2
        /\ nl' \in (-1 .. input.chunk_size) \X {"lf", "cr"}
    <3>1. nl' = <<Min({FindNewline(chunk, start)[1], sz'}), FindNewline(chunk, start)[2]>>
      BY <1>6, <2>1 DEF FirstNewline
    <3>2. /\ Min({FindNewline(chunk, start)[1], sz'}) \in {FindNewline(chunk, start)[1], sz'}
          /\ Min({FindNewline(chunk, start)[1], sz'}) <= sz'
      <4>1. FindNewline(chunk, start)[1] \in Nat /\ sz' \in Nat
        BY <1>3, <2>3
      <4>2. QED  BY <4>1, LeastOfTwo
    <3> DEFINE to == FindNewline(chunk, start)
               m  == Min({FindNewline(chunk, start)[1], sz'})
    <3>3. /\ to[1] \in Nat /\ to[2] \in {"lf", "cr"}
      BY <2>3
    <3>4. m \in 0 .. sz' /\ start <= m + 2
      <4> HIDE DEF to, m
      <4>1. m \in {to[1], sz'} /\ m <= sz'
        BY <3>2 DEF to, m
      <4>2. start < sz' + 1 => to[1] >= start
        BY <2>3 DEF to
      <4>3. start >= sz' + 1 => to[1] = sz'
        BY <2>3 DEF to
      <4>4. PICK e \in Nat : e = to[1]
        BY <3>3
      <4>5. QED  BY <1>3, <2>2, <4>1, <4>2, <4>3, <4>4
    <3>5. m \in -1 .. input.chunk_size
      <4> HIDE DEF m
      <4>1. QED  BY <1>2, <1>3, <3>4
    <3> HIDE DEF to, m
    <3>6. nl' = <<m, to[2]>>
      BY <3>1 DEF to, m
    <3>7. QED  BY <3>3, <3>4, <3>5, <3>6
  <2>5. /\ region'.call \in CallType /\ region'.call.start = start
        /\ region'.call.end = nl'[1] + 1 /\ region'.buf = i
        /\ region'.call.file_offset = 0
    <3>1. nl'[1] + 1 \in Nat /\ start \in Nat
      BY <2>2, <2>4
    <3>2. region'.call = Region(start, nl'[1] + 1, nl'[2], n_max, 0, 1, 0) /\ region'.buf = i
      BY <2>1
    <3>3. QED  BY <1>2, <2>4, <3>1, <3>2 DEF Region, CallType
  <2>6. RegionFine'
    <3>1. region'.call.end <= Len(buf'[region'.buf])
      BY <1>3, <1>5, <2>4, <2>5
    <3>2. region'.call.start <= region'.call.end + 1
      BY <1>3, <2>2, <2>4, <2>5
    <3>3. QED  BY <1>1, <1>2, <1>5, <2>1, <2>5, <3>1, <3>2 DEF RegionFine
  <2>7. MainFine'
    BY <1>1, <1>3, <1>9, <2>1, <2>4 DEF TypeInv, MainFine
  <2>8. QED  BY <1>7, <1>8, <2>6, <2>7 DEF TypeInv
<1>12. QED  BY <1>10, <1>11

(* The first row is a whole call of index_region. *)
LEMMA FirstRowTypeInv == FileInv /\ TypeInv /\ IndexFirstRow => TypeInv'
<1> SUFFICES ASSUME FileInv, TypeInv, IndexFirstRow PROVE TypeInv'
  OBVIOUS
<1> DEFINE src == buf[i]
           p   == region.call
<1>1. /\ pc = "first_row" /\ pc' = "parse"
      /\ first_row' = scan'.destination /\ columns' = Wrapped(Len(scan'.destination) - 1)
      /\ UNCHANGED <<input, taken, buf, i, sz, nl, single_line, n_max,
                     total_read, region, write, out, errors, rows>>
  BY DEF IndexFirstRow
<1>2. /\ region.buf = i /\ i \in {0, 1} /\ p \in CallType
      /\ p.end <= Len(src) /\ p.start <= p.end + 1
  BY <1>1 DEF TypeInv, RegionFine
<1>3. Len(src) \in Nat
  BY <1>2 DEF FileInv, BuffersFine
<1> DEFINE entry == Enter(p, "RECORD_START", 0, <<>>)
<1>4. /\ entry \in LocalsType /\ entry.pos = p.start /\ entry.last_tick = p.start
      /\ entry.destination = <<>>
  BY <1>2 DEF Enter, LocalsType, CsvState, CallType
<1>5. entry.pos < p.end => entry.last_tick <= p.end
  BY <1>2, <1>4 DEF CallType
<1>6. scan' = RunRegion(src, p, entry).locals
  BY DEF IndexFirstRow
<1> HIDE DEF src, p, entry
<1>7. /\ scan' \in LocalsType
      /\ scan'.pos < p.end => scan'.last_tick <= p.end
  <2>1. \A pos \in Nat : pos + p.file_offset \in Nat /\ pos + 1 + p.file_offset \in Nat
    BY <1>2, CallFields
  <2>2. entry.destination \in Seq(Nat)
    BY <1>4
  <2>3. QED  BY <1>2, <1>3, <1>4, <1>5, <1>6, <2>1, <2>2, RunRegionLocals
<1>8. first_row' \in Seq(Nat) /\ columns' \in 0 .. MaxSize
  <2>1. scan'.destination \in Seq(Nat)
    BY <1>7, LocalsFields
  <2>2. Len(scan'.destination) - 1 \in Int
    BY <2>1
  <2>3. QED  BY <1>1, <2>1, <2>2, WrappedType
<1>9. Given' = Given
  BY <1>1 DEF Given, Writing
<1>10. MainFine'
  BY <1>1, <1>8, <1>9 DEF TypeInv, MainFine
<1>11. SizesFine' /\ RegionFine'
  BY <1>1, <1>2 DEF TypeInv, SizesFine, RegionFine
<1>12. ScanFine'
  BY <1>1, <1>7 DEF ScanFine, p
<1>13. QED  BY <1>10, <1>11, <1>12 DEF TypeInv

(* The call for a buffer ends with it, and goes on as the last one ended.   *)
LEMMA WaitForParseTypeInv == FileInv /\ TasksBehind /\ TypeInv /\ WaitForParse => TypeInv'
<1> SUFFICES ASSUME FileInv, TasksBehind, TypeInv, WaitForParse PROVE TypeInv'
  OBVIOUS
<1>1. /\ pc = "parse" /\ pc' = "write" /\ ~Parsing
      /\ n_max' = Remaining(n_max, scan.lines_read)
      /\ UNCHANGED <<input, taken, buf, i, sz, nl, single_line,
                     total_read, write, out, first_row, errors, columns, rows>>
  BY DEF WaitForParse
<1>2. /\ i \in {0, 1} /\ sz \in Nat /\ sz <= Len(buf[i]) /\ scan \in LocalsType
      /\ nl[1] + 1 \in Nat /\ nl[2] \in {"lf", "cr"}
      /\ columns \in Nat /\ total_read \in Nat
  <2>1. nl \in (-1 .. input.chunk_size) \X {"lf", "cr"} /\ input.chunk_size \in Nat
    BY InputFields DEF TypeInv, MainFine, FileInv, BuffersFine
  <2>2. Given \in Nat
    BY DEF Given, FileInv, FileFine, WriteFine
  <2>3. i \in {0, 1} /\ sz \in Nat /\ sz <= Len(buf[i]) /\ scan \in LocalsType
    BY <1>1 DEF TypeInv, FileInv, ReadFine, ScanFine, TasksBehind
  <2>4. columns \in Nat /\ total_read \in Nat
    BY <2>2, MaxSizeAssumption DEF TypeInv, MainFine
  <2>5. nl[1] + 1 \in Nat /\ nl[2] \in {"lf", "cr"}
    BY <2>1
  <2>6. QED  BY <2>3, <2>4, <2>5
<1>3. n_max' \in Nat \union {Unlimited}
  <2>1. n_max \in Nat \union {Unlimited} /\ scan.lines_read \in Nat
    BY <1>2, LocalsFields DEF TypeInv, MainFine
  <2>2. QED  BY <1>1, <2>1 DEF Remaining
<1>4. Given' = Given
  BY <1>1 DEF Given, Writing
<1>5. MainFine' /\ SizesFine'
  BY <1>1, <1>3, <1>4 DEF TypeInv, MainFine, SizesFine
<1>6. CASE n_max' = 0
  <2>1. UNCHANGED region /\ scan' \in {Idle, scan}
    BY <1>6 DEF WaitForParse
  <2>2. RegionFine'
    BY <1>1, <1>6, <2>1 DEF TypeInv, RegionFine
  <2>3. Idle \in LocalsType /\ Idle.out = "idle"
    <3>1. NoRegion \in CallType
      BY DEF NoRegion, Region, CallType, Unlimited
    <3>2. Enter(NoRegion, "RECORD_START", 0, <<>>) \in LocalsType
      BY <3>1 DEF Enter, LocalsType, CsvState, CallType
    <3>3. QED  BY <3>2 DEF Idle, LocalsType
  <2>4. ScanFine'
    BY <1>1, <1>2, <2>1, <2>3 DEF ScanFine, Parsing
  <2>5. QED  BY <1>5, <2>2, <2>4 DEF TypeInv
<1>7. CASE n_max' # 0
  <2> DEFINE p == NextRegion(n_max')
  <2>1. region' = [buf |-> i, call |-> p] /\ scan' = Resume(p)
    BY <1>7 DEF WaitForParse
  <2>2. /\ p \in CallType /\ p.start = nl[1] + 1 /\ p.end = sz
    BY <1>2, <1>3 DEF NextRegion, Region, CallType
  <2>3. RegionFine'
    BY <1>1, <1>2, <2>1, <2>2 DEF RegionFine
  <2> HIDE DEF p
  <2>4. scan' \in LocalsType /\ scan'.pos = p.start /\ scan'.last_tick = p.start
    <3>1. scan.state \in CsvState /\ scan.cols \in Nat /\ scan.destination \in Seq(Nat)
      BY <1>2, LocalsFields
    <3>2. (IF total_read = 0 THEN <<>> ELSE scan.destination) \in Seq(Nat)
      BY <3>1
    <3>3. PICK d \in Seq(Nat) : scan' = Enter(p, scan.state, scan.cols, d)
      BY <2>1, <3>2 DEF Resume
    <3>4. QED  BY <2>2, <3>1, <3>3, EnterType
  <2>5. ScanFine'
    <3>1. p.start \in Nat /\ p.end \in Nat
      BY <2>2, CallFields
    <3>2. QED  BY <2>1, <2>4, <3>1 DEF ScanFine
  <2>6. QED  BY <1>5, <2>3, <2>5 DEF TypeInv
<1>8. QED  BY <1>6, <1>7

(* What the writing task is given has been read.                            *)
LEMMA WaitForWriteTypeInv == FileInv /\ TasksBehind /\ TypeInv /\ WaitForWrite => TypeInv'
<1> SUFFICES ASSUME FileInv, TasksBehind, TypeInv, WaitForWrite PROVE TypeInv'
  OBVIOUS
<1>1. /\ pc = "write" /\ ~Writing
      /\ UNCHANGED <<input, taken, buf, i, sz, nl, single_line, n_max,
                     region, scan, out, first_row, errors, columns, rows>>
  BY DEF WaitForWrite
<1>2. ScanFine'
  BY <1>1 DEF TypeInv, ScanFine, Parsing
<1>3. i \in {0, 1} /\ sz \in Nat /\ sz < input.chunk_size
  BY InputFields DEF TypeInv, MainFine, FileInv, BuffersFine, TasksBehind
<1>4. CASE write.state # "none" /\ n_max = 0
  <2>1. pc' = "finish" /\ UNCHANGED <<write, total_read>>
    BY <1>4 DEF WaitForWrite
  <2>2. Given' = Given
    BY <1>1, <2>1 DEF Given, Writing
  <2>3. MainFine' /\ SizesFine' /\ RegionFine'
    BY <1>1, <2>1, <2>2 DEF TypeInv, MainFine, SizesFine, RegionFine
  <2>4. QED  BY <1>2, <2>3 DEF TypeInv
<1>5. CASE ~(write.state # "none" /\ n_max = 0)
  <2>1. /\ pc' = "read" /\ total_read' = total_read + sz
        /\ write' = [buf |-> i, size |-> sz, state |-> "running"]
    BY <1>5 DEF WaitForWrite
  <2>2. total_read' = Given'
    BY <1>1, <2>1 DEF Given, Writing, TypeInv, MainFine
  <2>3. MainFine'
    BY <1>1, <2>1, <2>2 DEF TypeInv, MainFine
  <2>4. SizesFine'
    BY <1>1, <1>3, <2>1 DEF TypeInv, SizesFine
  <2>5. region.buf = i
    BY <1>1, <1>5 DEF TypeInv, RegionFine
  <2>6. RegionFine'
    BY <1>1, <2>1, <2>5 DEF TypeInv, RegionFine
  <2>7. QED  BY <1>2, <2>3, <2>4, <2>6 DEF TypeInv
<1>6. QED  BY <1>4, <1>5

(* The next buffer is not the one that the indexing task looks at.          *)
LEMMA ReadTypeInv == FileInv /\ TypeInv /\ TasksBehind /\ Read => TypeInv'
<1> SUFFICES ASSUME FileInv, TypeInv, TasksBehind, Read PROVE TypeInv'
  OBVIOUS
<1>1. /\ pc = "read" /\ sz' = Len(ReadConnection) /\ i' = 1 - i
      /\ buf' = IF sz' = 0 THEN buf ELSE [buf EXCEPT ![i'] = Append(ReadConnection, "nul")]
      /\ nl' = [nl EXCEPT ![1] = -1]
      /\ pc' = IF sz' = 0 THEN "finish" ELSE "parse"
      /\ UNCHANGED <<input, single_line, n_max, total_read, region, scan,
                     write, out, first_row, errors, columns, rows>>
  BY DEF Read
<1>2. /\ i \in {0, 1} /\ i' \in {0, 1} /\ i' # i
      /\ region.buf = i /\ write.state # "none"
  BY <1>1 DEF TypeInv, RegionFine, TasksBehind
<1>3. ReadConnection \in Seq(Char) /\ sz' \in 0 .. (input.chunk_size - 1)
  BY <1>1, ReadFacts DEF FileInv
<1>4. nl' \in (-1 .. input.chunk_size) \X {"lf", "cr"}
  <2>1. nl \in (-1 .. input.chunk_size) \X {"lf", "cr"} /\ input.chunk_size \in Nat
    BY InputFields DEF TypeInv, MainFine, FileInv, BuffersFine
  <2>2. nl' = <<-1, nl[2]>>
    BY <1>1, <2>1
  <2>3. QED  BY <2>1, <2>2
<1>5. Given' = Given
  BY <1>1 DEF Given, Writing
<1>6. MainFine'
  BY <1>1, <1>3, <1>4, <1>5 DEF TypeInv, MainFine
<1>7. buf'[i] = buf[i] /\ (buf'[i'] = buf[i'] \/ buf'[i'][Len(buf'[i'])] = "nul")
  <2>1. Append(ReadConnection, "nul")[Len(Append(ReadConnection, "nul"))] = "nul"
    BY <1>3, NulFacts
  <2>2. QED  BY <1>1, <1>2, <2>1 DEF FileInv, BuffersFine
<1>8. SizesFine'
  <2>1. \A k \in {0, 1} : k = i \/ k = i'
    BY <1>1, <1>2
  <2>2. QED  BY <1>1, <1>2, <1>7, <2>1 DEF TypeInv, SizesFine
<1>9. RegionFine'
  BY <1>1, <1>2, <1>7 DEF TypeInv, RegionFine
<1>10. ScanFine'
  BY <1>1 DEF TypeInv, ScanFine, Parsing
<1>11. QED  BY <1>6, <1>8, <1>9, <1>10 DEF TypeInv

(* An iteration of the indexing task. *)
LEMMA ParseTypeInv == FileInv /\ TypeInv /\ Parse => TypeInv'
<1> SUFFICES ASSUME FileInv, TypeInv, Parse PROVE TypeInv'
  OBVIOUS
<1> DEFINE src == buf[region.buf]
           p   == region.call
<1>1. /\ Parsing /\ scan' = IndexStep(src, p, scan)
      /\ UNCHANGED <<taken, pc, buf, i, sz, nl, single_line, n_max, total_read,
                     first_row, columns, rows, input, region, write, out>>
  BY DEF Parse, main
<1>2. p \in CallType /\ p.end <= Len(src) /\ Len(src) \in Nat
  BY DEF TypeInv, RegionFine, FileInv, BuffersFine
<1>3. scan \in LocalsType /\ (scan.pos < p.end => scan.last_tick <= p.end)
  BY <1>1 DEF TypeInv, ScanFine
<1>4. Given' = Given
  BY <1>1 DEF Given, Writing
<1>5. MainFine' /\ SizesFine' /\ RegionFine'
  BY <1>1, <1>4 DEF TypeInv, MainFine, SizesFine, RegionFine
<1> HIDE DEF src, p
<1>6. scan' \in LocalsType /\ (scan'.pos < p.end => scan'.last_tick <= p.end)
  BY <1>1, <1>2, <1>3, StepLocals
<1>7. ScanFine'
  BY <1>1, <1>6 DEF ScanFine, p
<1>8. QED  BY <1>5, <1>7 DEF TypeInv

(* The write. *)
LEMMA WriteTypeInv == FileInv /\ TasksBehind /\ TypeInv /\ Write => TypeInv'
<1> SUFFICES ASSUME FileInv, TasksBehind, TypeInv, Write PROVE TypeInv'
  OBVIOUS
<1>1. /\ Writing /\ write' = [write EXCEPT !.state = "done"]
      /\ UNCHANGED <<taken, pc, buf, i, sz, nl, single_line, n_max, total_read,
                     first_row, columns, rows, input, region, scan>>
  BY DEF Write, main
<1>2. /\ write' \in [buf : {0, 1}, size : Nat, state : {"none", "running", "done"}]
      /\ write'.size = write.size /\ write.state # "none" /\ write'.state # "none"
  BY <1>1 DEF TypeInv, SizesFine, Writing
<1>3. Given' = Given
  BY WriteFileInv
<1>4. MainFine' /\ SizesFine'
  BY <1>1, <1>2, <1>3 DEF TypeInv, MainFine, SizesFine
<1>5. RegionFine' /\ ScanFine'
  BY <1>1, <1>2 DEF TypeInv, RegionFine, ScanFine, Parsing
<1>6. QED  BY <1>4, <1>5 DEF TypeInv

(* A last line without a newline. *)
LEMMA FinishTypeInv == FileInv /\ TypeInv /\ Finish => TypeInv'
<1> SUFFICES ASSUME FileInv, TypeInv, Finish PROVE TypeInv'
  OBVIOUS
<1> DEFINE ended == EndsLine(nl[2], At(out, Len(out) - 1))
           first == columns = 0 \/ single_line
<1>1. /\ pc = "finish" /\ ~Parsing /\ ~Writing
      /\ first_row' = IF ~ended /\ first THEN Append(first_row, Len(out)) ELSE first_row
      /\ scan' = IF ~ended /\ ~first THEN Push(scan, Len(out)) ELSE scan
      /\ columns' = IF ~ended /\ first THEN Wrapped(columns + 1) ELSE columns
      /\ IF columns' = MaxSize THEN pc' = "crashed" /\ UNCHANGED rows
         ELSE /\ pc' = "done"
              /\ rows' = RowsOf(Len(first_row') + Len(scan'.destination), columns')
      /\ UNCHANGED <<input, taken, buf, i, sz, nl, single_line, n_max,
                     total_read, region, write, out, errors>>
  BY DEF Finish
<1> HIDE DEF ended, first
<1>2. /\ columns \in 0 .. MaxSize /\ rows \in Nat /\ first_row \in Seq(Nat)
      /\ scan \in LocalsType /\ Len(out) \in Nat
  BY DEF TypeInv, MainFine, ScanFine, FileInv, FileFine
<1>3. scan' \in LocalsType /\ scan'.out = scan.out
  <2>1. Push(scan, Len(out)) \in Rewritten(scan) /\ scan \in Rewritten(scan)
    BY <1>2, PushType
  <2>2. scan' \in Rewritten(scan)
    BY <1>1, <2>1
  <2>3. QED  BY <1>2, <2>2, RewrittenType
<1>4. first_row' \in Seq(Nat)
  BY <1>1, <1>2
<1>5. columns' \in 0 .. MaxSize
  BY <1>1, <1>2, WrappedType, MaxSizeAssumption
<1>6. rows' \in Nat
  <2>1. Len(first_row') + Len(scan'.destination) \in Nat
    <3>1. scan'.destination \in Seq(Nat)
      BY <1>3, LocalsFields
    <3>2. QED  BY <1>4, <3>1
  <2>2. columns' \in Nat
    BY <1>5, MaxSizeAssumption
  <2>3. RowsOf(Len(first_row') + Len(scan'.destination), columns') \in Nat
    BY <2>1, <2>2, RowsOfType
  <2>4. QED  BY <1>1, <1>2, <2>3
<1>7. pc' \in {"done", "crashed"}
  BY <1>1
<1>8. Given' = Given
  BY <1>1 DEF Given, Writing
<1>9. MainFine'
  BY <1>1, <1>4, <1>5, <1>6, <1>7, <1>8 DEF TypeInv, MainFine
<1>10. SizesFine' /\ RegionFine'
  BY <1>1, <1>7 DEF TypeInv, SizesFine, RegionFine
<1>11. ScanFine'
  BY <1>1, <1>3 DEF ScanFine, Parsing
<1>12. QED  BY <1>9, <1>10, <1>11 DEF TypeInv

(* Each action keeps the types. *)
LEMMA NextTypeInv ==
  FileInv /\ FileInv' /\ TasksBehind /\ TypeInv /\ [Next]_vars => TypeInv'
<1> SUFFICES ASSUME FileInv, FileInv', TasksBehind, TypeInv, [Next]_vars PROVE TypeInv'
  OBVIOUS
<1>1. CASE UNCHANGED vars
  <2>1. UNCHANGED <<input, taken, pc, buf, i, sz, nl, single_line, n_max, total_read, region,
                    scan, write, out, first_row, errors, columns, rows>>
    BY <1>1 DEF vars
  <2>2. Given' = Given /\ Parsing' = Parsing
    BY <2>1 DEF Given, Writing, Parsing
  <2>3. QED  BY <2>1, <2>2 DEF TypeInv, MainFine, SizesFine, RegionFine, ScanFine
<1>2. QED
  BY <1>1, OpenTypeInv, FirstRowTypeInv, WaitForParseTypeInv, WaitForWriteTypeInv,
     ReadTypeInv, ParseTypeInv, WriteTypeInv, FinishTypeInv
  DEF Next, Main, Done

(* The type invariant that TLC checks. *)
LEMMA TypeInvTypeOK == FileInv /\ TasksBehind /\ TypeInv => TypeOK
<1> SUFFICES ASSUME FileInv, TasksBehind, TypeInv PROVE TypeOK
  OBVIOUS
<1>1. total_read \in 0 .. taken
  <2>1. taken \in Nat /\ Len(out) \in Nat /\ Len(out) <= taken
    BY InputFields DEF FileInv, BuffersFine, FileFine
  <2>2. Given \in Nat /\ Given <= taken
    BY <2>1 DEF Given, FileInv, WriteFine
  <2>3. QED  BY <2>1, <2>2 DEF TypeInv, MainFine
<1>2. i \in {0, 1}
  BY DEF TasksBehind
<1>3. write.state \in {"none", "running", "done"}
  BY DEF TypeInv, SizesFine
<1>4. QED
  BY <1>1, <1>2, <1>3
  DEF TypeOK, FileInv, BuffersFine, TypeInv, MainFine, SizesFine, RegionFine, ScanFine

(* Whatever the connection gives, the options and the schedule: what the    *)
(* indexing task is told to look at is within the buffer that it looks at,  *)
(* although the buffers have other sizes from one read to the next and the  *)
(* main thread reads into one while the task is in the other.               *)
THEOREM TypeCorrect == Spec => []TypeOK
<1>1. Init => FileInv /\ TasksBehind /\ TypeInv
  BY InitFileInv, InitTasksBehind, InitTypeInv
<1>2. FileInv /\ TasksBehind /\ TypeInv /\ [Next]_vars
        => FileInv' /\ TasksBehind' /\ TypeInv'
  BY NextFileInv, NextTasksBehind, NextTypeInv
<1>3. FileInv /\ TasksBehind /\ TypeInv => TypeOK
  BY TypeInvTypeOK
<1>4. QED  BY <1>1, <1>2, <1>3, PTL DEF Spec

----------------------------------------------------------------------------
(* Where the separators are.                                               *)

(* Which of what has been read the separators may lie in: when the loop     *)
(* waits for the writing task, the buffer that the indexing task is already *)
(* in has not been given to the writing task yet.                          *)
Bound == IF pc = "write" /\ n_max # 0 THEN total_read + sz ELSE total_read

FirstBound == IF write.state = "none" THEN sz ELSE total_read

(* scan still holds the first row when the loop begins. *)
HoldsFirstRow == pc = "parse" /\ total_read = 0

(* The separators found so far, and those that the running task will find, *)
(* are within these bounds.                                                *)
PlacesInv ==
  /\ first_row \in Seq(0 .. FirstBound)
  /\ ~HoldsFirstRow =>
       /\ scan.destination \in Seq(0 .. Bound)
       /\ Parsing => region.call.end + region.call.file_offset <= Bound
  /\ pc \in {"open", "first_row"} =>
       first_row = <<>> /\ write.state = "none" /\ total_read = 0
  /\ pc = "finish" => write.state # "none"
  /\ pc = "done" => ~Writing /\ (write.state = "none" => sz = 0)

(* The numbers that the bounds are made of. *)
LEMMA BoundType ==
  ASSUME FileInv, TypeInv
  PROVE  /\ total_read \in Nat /\ sz \in Nat /\ Len(out) \in Nat
         /\ Bound \in Nat /\ FirstBound \in Nat
         /\ total_read <= Bound /\ Bound <= total_read + sz
<1>1. sz \in Nat
  BY InputFields DEF TypeInv, MainFine, FileInv, BuffersFine
<1>2. Len(out) \in Nat /\ Given \in Nat
  BY DEF FileInv, FileFine, WriteFine, Given
<1>3. total_read \in Nat
  BY <1>2 DEF TypeInv, MainFine
<1>4. QED  BY <1>1, <1>2, <1>3 DEF Bound, FirstBound

(* A larger bound holds too. *)
LEMMA SeqWithin ==
  ASSUME NEW a \in Nat, NEW b \in Nat, a <= b, NEW s \in Seq(0 .. a)
  PROVE  s \in Seq(0 .. b)
<1>1. 0 .. a \subseteq 0 .. b
  OBVIOUS
<1>2. \A S, T : S \subseteq T => \A t \in Seq(S) : t \in Seq(T)
  OBVIOUS
<1>3. QED  BY <1>1, <1>2

(* Nothing has been found at first. *)
LEMMA InitPlacesInv == Init => PlacesInv
<1> SUFFICES ASSUME Init PROVE PlacesInv
  OBVIOUS
<1>1. /\ pc = "open" /\ first_row = <<>> /\ write.state = "none" /\ total_read = 0
      /\ scan.destination = <<>> /\ ~Parsing
  BY DEF Init, Idle, Enter, Parsing
<1>2. \A S : <<>> \in Seq(S)
  OBVIOUS
<1>3. QED  BY <1>1, <1>2 DEF PlacesInv

(* The separators of the first row are in the first buffer: an escape is    *)
(* not its null character.                                                  *)
LEMMA FirstRowPlaces ==
  FileInv /\ FileInv' /\ TypeInv /\ TypeInv' /\ PlacesInv /\ IndexFirstRow => PlacesInv'
<1> SUFFICES ASSUME FileInv, FileInv', TypeInv, TypeInv', PlacesInv, IndexFirstRow
             PROVE  PlacesInv'
  OBVIOUS
<1> DEFINE src == buf[i]
           p   == region.call
           entry == Enter(p, "RECORD_START", 0, <<>>)
<1>1. /\ pc = "first_row" /\ pc' = "parse"
      /\ first_row' = scan'.destination
      /\ scan' = RunRegion(src, p, entry).locals
      /\ UNCHANGED <<buf, i, sz, total_read, region, write, out>>
  BY DEF IndexFirstRow
<1>2. /\ region.buf = i /\ i \in {0, 1} /\ p \in CallType
      /\ p.end <= Len(src) /\ p.start <= p.end + 1
      /\ p.file_offset = 0 /\ Len(src) = sz + 1
  BY <1>1 DEF TypeInv, RegionFine
<1>3. sz \in Nat /\ Len(src) \in Nat
  BY <1>2, BoundType DEF FileInv, BuffersFine
<1>4. src[Len(src)] = "nul"
  <2>1. src = <<>> \/ src[Len(src)] = "nul"
    BY <1>2 DEF TypeInv, SizesFine
  <2>2. src # <<>>
    BY <1>2, <1>3
  <2>3. QED  BY <2>1, <2>2
<1>5. /\ entry \in LocalsType /\ entry.pos = p.start /\ entry.last_tick = p.start
      /\ entry.destination = <<>>
  BY <1>2 DEF Enter, LocalsType, CsvState, CallType
<1>6. entry.pos < p.end => entry.last_tick <= p.end
  BY <1>2, <1>5 DEF CallType
<1> HIDE DEF src, p, entry
<1>7. /\ \A pos \in Nat : pos < p.end => pos + p.file_offset \in 0 .. sz
      /\ \A pos \in Nat : pos < p.end /\ EscapeBackslash /\ At(src, pos) = "bslash" =>
                            pos + 1 + p.file_offset \in 0 .. sz
  <2>1. p.end \in Nat
    BY <1>2, CallFields
  <2>2. ASSUME NEW pos \in Nat, pos < p.end
        PROVE  pos + p.file_offset \in 0 .. sz
    BY <1>2, <1>3, <2>1, <2>2
  <2>3. ASSUME NEW pos \in Nat, pos < p.end, At(src, pos) = "bslash"
        PROVE  pos + 1 + p.file_offset \in 0 .. sz
    <3>1. pos # sz
      BY <1>2, <1>3, <1>4, <2>3 DEF At
    <3>2. QED  BY <1>2, <1>3, <2>1, <2>3, <3>1
  <2>4. QED  BY <2>2, <2>3
<1>8. scan'.destination \in Seq(0 .. sz)
  <2>1. entry.destination \in Seq(0 .. sz)
    BY <1>5
  <2>2. QED  BY <1>1, <1>2, <1>3, <1>5, <1>6, <1>7, <2>1, RunRegionLocals
<1>9. write'.state = "none" /\ total_read' = 0 /\ sz' = sz
  BY <1>1 DEF PlacesInv
<1>10. HoldsFirstRow'
  BY <1>1, <1>9 DEF HoldsFirstRow
<1>11. FirstBound' = sz
  BY <1>9 DEF FirstBound
<1>12. QED  BY <1>1, <1>8, <1>10, <1>11 DEF PlacesInv

(* The next call looks at the buffer that is read, which is given to the    *)
(* writing task afterwards.                                                *)
LEMMA WaitForParsePlaces ==
  FileInv /\ TypeInv /\ PlacesInv /\ WaitForParse => PlacesInv'
<1> SUFFICES ASSUME FileInv, TypeInv, PlacesInv, WaitForParse PROVE PlacesInv'
  OBVIOUS
<1>1. /\ pc = "parse" /\ pc' = "write" /\ ~Parsing
      /\ UNCHANGED <<sz, total_read, write, out, first_row>>
  BY DEF WaitForParse
<1>2. total_read \in Nat /\ sz \in Nat /\ Bound = total_read /\ FirstBound' = FirstBound
  BY <1>1, BoundType DEF Bound, FirstBound
<1>3. ~HoldsFirstRow'
  BY <1>1 DEF HoldsFirstRow
<1>4. total_read # 0 => scan.destination \in Seq(0 .. total_read)
  BY <1>1, <1>2 DEF PlacesInv, HoldsFirstRow
<1>5. CASE n_max' = 0
  <2>1. scan' = IF total_read = 0 THEN Idle ELSE scan
    BY <1>5 DEF WaitForParse
  <2>2. ~Parsing'
    BY <1>1, <2>1 DEF Parsing, Idle, Enter
  <2>3. Bound' = total_read
    BY <1>1, <1>5 DEF Bound
  <2>4. scan'.destination \in Seq(0 .. total_read)
    <3>1. Idle.destination = <<>>
      BY DEF Idle, Enter
    <3>2. \A S : <<>> \in Seq(S)
      OBVIOUS
    <3>3. QED  BY <1>4, <2>1, <3>1, <3>2
  <2>5. QED  BY <1>1, <1>2, <2>2, <2>3, <2>4 DEF PlacesInv
<1>6. CASE n_max' # 0
  <2>1. region'.call = NextRegion(n_max') /\ scan' = Resume(region'.call)
    BY <1>6 DEF WaitForParse
  <2>2. /\ Bound' = total_read + sz /\ total_read + sz \in Nat
        /\ total_read <= total_read + sz
    BY <1>1, <1>2, <1>6 DEF Bound
  <2>3. region'.call.end = sz /\ region'.call.file_offset = total_read
    BY <2>1 DEF NextRegion, Region
  <2>4. scan'.destination = IF total_read = 0 THEN <<>> ELSE scan.destination
    BY <2>1 DEF Resume, Enter
  <2>5. scan'.destination \in Seq(0 .. Bound')
    <3>1. \A S : <<>> \in Seq(S)
      OBVIOUS
    <3>2. CASE total_read = 0
      BY <2>4, <3>1, <3>2
    <3>3. CASE total_read # 0
      <4>1. scan.destination \in Seq(0 .. (total_read + sz))
        BY <1>2, <1>4, <2>2, <3>3, SeqWithin
      <4>2. QED  BY <2>2, <2>4, <3>3, <4>1
    <3>4. QED  BY <3>2, <3>3
  <2>6. region'.call.end + region'.call.file_offset <= Bound'
    BY <1>2, <2>2, <2>3
  <2>7. QED  BY <1>1, <1>2, <2>5, <2>6 DEF PlacesInv
<1>7. QED  BY <1>5, <1>6

(* Then it is. *)
LEMMA WaitForWritePlaces ==
  FileInv /\ TypeInv /\ PlacesInv /\ WaitForWrite => PlacesInv'
<1> SUFFICES ASSUME FileInv, TypeInv, PlacesInv, WaitForWrite PROVE PlacesInv'
  OBVIOUS
<1>1. /\ pc = "write"
      /\ UNCHANGED <<sz, n_max, region, scan, out, first_row>>
  BY DEF WaitForWrite
<1>2. /\ total_read \in Nat /\ sz \in Nat /\ Bound \in Nat /\ FirstBound \in Nat
      /\ Bound <= total_read + sz
  BY BoundType
<1>3. /\ ~HoldsFirstRow /\ Parsing' = Parsing
      /\ scan'.destination \in Seq(0 .. Bound) /\ first_row' \in Seq(0 .. FirstBound)
      /\ Parsing' => region'.call.end + region'.call.file_offset <= Bound
  BY <1>1 DEF PlacesInv, HoldsFirstRow, Parsing
<1>4. CASE write.state # "none" /\ n_max = 0
  <2>1. pc' = "finish" /\ UNCHANGED <<write, total_read>>
    BY <1>4 DEF WaitForWrite
  <2>2. Bound' = Bound /\ FirstBound' = FirstBound
    BY <1>1, <1>4, <2>1 DEF Bound, FirstBound
  <2>3. QED  BY <1>3, <1>4, <2>1, <2>2 DEF PlacesInv
<1>5. CASE ~(write.state # "none" /\ n_max = 0)
  <2>1. pc' = "read" /\ total_read' = total_read + sz /\ write'.state = "running"
    BY <1>5 DEF WaitForWrite
  <2>2. Bound' = total_read + sz /\ FirstBound' = total_read + sz
    BY <2>1 DEF Bound, FirstBound
  <2>3. FirstBound <= total_read + sz /\ total_read + sz \in Nat
    BY <1>2 DEF FirstBound
  <2>4. first_row' \in Seq(0 .. FirstBound') /\ scan'.destination \in Seq(0 .. Bound')
    BY <1>2, <1>3, <2>2, <2>3, SeqWithin
  <2>5. Parsing' => region'.call.end + region'.call.file_offset <= Bound'
    <3>1. region.call \in CallType
      BY DEF TypeInv, RegionFine
    <3>2. region'.call.end \in Nat /\ region'.call.file_offset \in Nat
      BY <1>1, <3>1, CallFields
    <3>3. QED  BY <1>2, <1>3, <2>2, <3>2
  <2>6. QED  BY <2>1, <2>4, <2>5 DEF PlacesInv
<1>6. QED  BY <1>4, <1>5

(* The steps that find no separator and move neither bound.                 *)
LEMMA OtherPlaces ==
  ASSUME FileInv, TypeInv, TasksBehind, PlacesInv, Open \/ Read \/ Write
  PROVE  PlacesInv'
<1>1. CASE Open
  <2>1. /\ pc = "open" /\ ~Parsing /\ ~Writing
        /\ UNCHANGED <<total_read, scan, write, first_row>>
    BY <1>1 DEF Open, TasksBehind
  <2>2. /\ first_row = <<>> /\ write.state = "none" /\ total_read = 0
        /\ scan.destination \in Seq(0 .. total_read)
    BY <2>1 DEF PlacesInv, HoldsFirstRow, Bound
  <2>3. /\ pc' \in {"done", "first_row", "too_small"} /\ (pc' = "done" => sz' = 0)
        /\ ~Parsing' /\ ~Writing'
    BY <1>1, <2>1 DEF Open, Parsing, Writing
  <2>4. Bound' = total_read
    BY <2>1, <2>3 DEF Bound
  <2>5. first_row' \in Seq(0 .. FirstBound')
    BY <2>1, <2>2
  <2>6. QED  BY <2>1, <2>2, <2>3, <2>4, <2>5 DEF PlacesInv
<1>2. CASE Read
  <2>1. /\ pc = "read" /\ pc' \in {"finish", "parse"}
        /\ UNCHANGED <<total_read, region, scan, write, first_row>>
    BY <1>2 DEF Read
  <2>2. write.state # "none"
    BY <2>1 DEF TypeInv, RegionFine
  <2>3. Bound' = Bound /\ FirstBound' = FirstBound /\ Parsing' = Parsing
    BY <2>1, <2>2 DEF Bound, FirstBound, Parsing
  <2>4. ~HoldsFirstRow
    BY <2>1 DEF HoldsFirstRow
  <2>5. QED  BY <2>1, <2>2, <2>3, <2>4 DEF PlacesInv
<1>3. CASE Write
  <2>1. /\ Writing /\ write' = [write EXCEPT !.state = "done"]
        /\ UNCHANGED <<pc, sz, n_max, total_read, first_row, region, scan>>
    BY <1>3 DEF Write, main
  <2>2. write.state # "none" /\ write'.state # "none" /\ ~Writing'
    BY <2>1 DEF TypeInv, SizesFine, Writing
  <2>3. /\ Bound' = Bound /\ FirstBound' = FirstBound /\ Parsing' = Parsing
        /\ HoldsFirstRow' = HoldsFirstRow
    BY <2>1, <2>2 DEF Bound, FirstBound, Parsing, HoldsFirstRow
  <2>4. QED  BY <2>1, <2>2, <2>3 DEF PlacesInv
<1>4. QED  BY <1>1, <1>2, <1>3

(* An iteration of the indexing task stays within the bound of its call.    *)
LEMMA ParsePlaces ==
  FileInv /\ TypeInv /\ PlacesInv /\ Parse => PlacesInv'
<1> SUFFICES ASSUME FileInv, TypeInv, PlacesInv, Parse PROVE PlacesInv'
  OBVIOUS
<1> DEFINE src == buf[region.buf]
           p   == region.call
<1>1. /\ Parsing /\ scan' = IndexStep(src, p, scan)
      /\ UNCHANGED <<pc, sz, n_max, total_read, first_row, region, write>>
  BY DEF Parse, main
<1>2. /\ Bound' = Bound /\ FirstBound' = FirstBound /\ HoldsFirstRow' = HoldsFirstRow
      /\ Writing' = Writing
  BY <1>1 DEF Bound, FirstBound, HoldsFirstRow, Writing
<1>3. ~HoldsFirstRow => scan'.destination \in Seq(0 .. Bound)
  <2> SUFFICES ASSUME ~HoldsFirstRow PROVE scan'.destination \in Seq(0 .. Bound)
    OBVIOUS
  <2>1. p \in CallType /\ scan \in LocalsType
    BY DEF TypeInv, RegionFine, ScanFine
  <2>2. scan.destination \in Seq(0 .. Bound) /\ p.end + p.file_offset <= Bound
    BY <1>1 DEF PlacesInv
  <2>3. Bound \in Nat
    BY BoundType
  <2> HIDE DEF src, p
  <2>4. /\ p.end \in Nat /\ p.file_offset \in Nat /\ scan.pos \in Nat
    BY <2>1, CallFields, LocalsFields
  <2>5. scan.pos < p.end => /\ scan.pos + p.file_offset \in 0 .. Bound
                            /\ scan.pos + 1 + p.file_offset \in 0 .. Bound
    BY <2>2, <2>3, <2>4
  <2>6. IndexStep(src, p, scan).destination \in Seq(0 .. Bound)
    BY <2>1, <2>2, <2>5, StepPushes
  <2>7. QED  BY <1>1, <2>6
<1>4. QED  BY <1>1, <1>2, <1>3 DEF PlacesInv

(* The end of the file is the last separator of a row that ends with it.    *)
LEMMA FinishPlaces ==
  FileInv /\ TypeInv /\ PlacesInv /\ Finish => PlacesInv'
<1> SUFFICES ASSUME FileInv, TypeInv, PlacesInv, Finish PROVE PlacesInv'
  OBVIOUS
<1>1. /\ pc = "finish" /\ pc' \in {"done", "crashed"} /\ ~Parsing /\ ~Writing
      /\ first_row' \in {first_row, Append(first_row, Len(out))}
      /\ scan' \in {scan, Push(scan, Len(out))}
      /\ UNCHANGED <<sz, n_max, total_read, region, write, out>>
  BY DEF Finish
<1>2. write.state # "none" /\ scan \in LocalsType
  BY <1>1 DEF PlacesInv, TypeInv, ScanFine
<1>3. /\ Bound = total_read /\ Bound' = total_read /\ FirstBound = total_read
      /\ FirstBound' = total_read /\ ~HoldsFirstRow
  BY <1>1, <1>2 DEF Bound, FirstBound, HoldsFirstRow
<1>4. Len(out) = total_read /\ total_read \in Nat
  BY <1>1, BoundType DEF TypeInv, MainFine, Given
<1>5. \A n \in Nat : \A s \in Seq(0 .. n) : Append(s, n) \in Seq(0 .. n)
  <2> SUFFICES ASSUME NEW n \in Nat, NEW s \in Seq(0 .. n) PROVE Append(s, n) \in Seq(0 .. n)
    OBVIOUS
  <2>1. n \in 0 .. n
    OBVIOUS
  <2>2. QED  BY <2>1
<1>6. first_row' \in Seq(0 .. total_read)
  BY <1>1, <1>3, <1>4, <1>5 DEF PlacesInv
<1>7. scan'.destination \in Seq(0 .. total_read) /\ scan'.out = scan.out
  <2>1. scan.destination \in Seq(0 .. total_read)
    BY <1>3 DEF PlacesInv
  <2>2. CASE scan' = scan
    BY <2>1, <2>2
  <2>3. CASE scan' = Push(scan, Len(out))
    <3>1. /\ scan'.destination = Append(scan.destination, Len(out))
          /\ scan'.out = scan.out
      BY <1>2, <2>3 DEF Push, LocalsType
    <3>2. QED  BY <1>4, <1>5, <2>1, <3>1
  <2>4. QED  BY <1>1, <2>2, <2>3
<1>8. ~Parsing' /\ ~Writing'
  BY <1>1, <1>7 DEF Parsing, Writing
<1>9. QED  BY <1>1, <1>2, <1>3, <1>6, <1>7, <1>8 DEF PlacesInv

(* Each action keeps the separators where they may be. *)
LEMMA NextPlacesInv ==
  /\ FileInv /\ FileInv' /\ TasksBehind /\ TypeInv /\ TypeInv' /\ PlacesInv
  /\ [Next]_vars
  => PlacesInv'
<1> SUFFICES ASSUME FileInv, FileInv', TasksBehind, TypeInv, TypeInv', PlacesInv, [Next]_vars
             PROVE  PlacesInv'
  OBVIOUS
<1>1. CASE UNCHANGED vars
  <2>1. UNCHANGED <<input, taken, pc, buf, i, sz, nl, single_line, n_max, total_read, region,
                    scan, write, out, first_row, errors, columns, rows>>
    BY <1>1 DEF vars
  <2>2. /\ Bound' = Bound /\ FirstBound' = FirstBound /\ HoldsFirstRow' = HoldsFirstRow
        /\ Writing' = Writing /\ Parsing' = Parsing
    BY <2>1 DEF Bound, FirstBound, HoldsFirstRow, Writing, Parsing
  <2>3. QED  BY <2>1, <2>2 DEF PlacesInv
<1>2. QED
  BY <1>1, OtherPlaces, FirstRowPlaces, WaitForParsePlaces, WaitForWritePlaces,
     ParsePlaces, FinishPlaces
  DEF Next, Main, Done

(* At the end everything that the loop found has been written.              *)
LEMMA PlacesInvInFile == FileInv /\ TypeInv /\ PlacesInv => SeparatorsInFile
<1> SUFFICES ASSUME FileInv, TypeInv, PlacesInv, pc = "done",
                    NEW p \in ToSet(Separators)
             PROVE  p <= Len(out)
  BY DEF SeparatorsInFile
<1> DEFINE size == Len(out)
           all  == first_row \o scan.destination
<1>1. size \in Nat /\ total_read = size
  <2>1. ~Writing
    BY DEF PlacesInv
  <2>2. QED  BY <2>1, BoundType DEF TypeInv, MainFine, Given
<1>2. first_row \in Seq(0 .. size) /\ scan.destination \in Seq(0 .. size)
  <2>1. /\ first_row \in Seq(0 .. FirstBound) /\ scan.destination \in Seq(0 .. Bound)
        /\ write.state = "none" => sz = 0
    BY DEF PlacesInv, HoldsFirstRow
  <2>2. Bound = size /\ FirstBound <= size /\ FirstBound \in Nat
    BY <1>1, <2>1 DEF Bound, FirstBound
  <2>3. QED  BY <1>1, <2>1, <2>2, SeqWithin
<1>3. all \in Seq(0 .. size)
  <2>1. \A S : \A s, t \in Seq(S) : s \o t \in Seq(S)
    OBVIOUS
  <2>2. QED  BY <1>2, <2>1
<1> HIDE DEF all, size
<1>4. Separators \in Seq(0 .. size)
  <2>1. Separators = IF columns = 0 THEN <<>>
                     ELSE SubSeq(all, 1, Len(all) - (Len(all) % (columns + 1)))
    BY DEF Separators, all
  <2>2. \A S : <<>> \in Seq(S)
    OBVIOUS
  <2>3. Len(all) \in Nat
    <3>1. \A S : \A s \in Seq(S) : Len(s) \in Nat
      OBVIOUS
    <3>2. QED  BY <1>3, <3>1
  <2>4. Len(all) % (columns + 1) \in Nat
    <3>1. \A d \in Nat \ {0} : \A n \in Nat : n % d \in Nat
      OBVIOUS
    <3>2. columns + 1 \in Nat \ {0}
      BY MaxSizeAssumption DEF TypeInv, MainFine
    <3>3. QED  BY <2>3, <3>1, <3>2
  <2>5. \A m \in Int : m <= Len(all) => SubSeq(all, 1, m) \in Seq(0 .. size)
    <3>1. \A S : \A s \in Seq(S) : \A m \in Int : m <= Len(s) => SubSeq(s, 1, m) \in Seq(S)
      OBVIOUS
    <3>2. QED  BY <1>3, <3>1
  <2>6. QED
    <3> DEFINE rest == Len(all) % (columns + 1)
    <3>1. rest \in Nat
      BY <2>4
    <3> HIDE DEF rest
    <3>2. Len(all) - rest \in Int /\ Len(all) - rest <= Len(all)
      BY <2>3, <3>1
    <3>3. SubSeq(all, 1, Len(all) - rest) \in Seq(0 .. size)
      BY <2>5, <3>2
    <3>4. QED  BY <2>1, <2>2, <3>3 DEF rest
<1>5. PICK k \in 1 .. Len(Separators) : p = Separators[k]
  BY <1>4 DEF ToSet
<1>6. p \in 0 .. size
  <2>1. \A S : \A s \in Seq(S) : \A j \in 1 .. Len(s) : s[j] \in S
    OBVIOUS
  <2>2. QED  BY <1>4, <1>5, <2>1
<1>7. QED  BY <1>1, <1>6 DEF size

(* No separator that the index keeps is past the end of the temporary file, *)
(* whatever the sizes of the buffers, the options, n_max and the schedule:  *)
(* when n_max stops the loop, the buffer whose rows it has counted has been *)
(* given to the writing task.                                              *)
THEOREM SeparatorsAlwaysInFile == Spec => []SeparatorsInFile
<1> DEFINE Inv == FileInv /\ TasksBehind /\ TypeInv /\ PlacesInv
<1>1. Init => Inv
  BY InitFileInv, InitTasksBehind, InitTypeInv, InitPlacesInv
<1>2. Inv /\ [Next]_vars => Inv'
  BY NextFileInv, NextTasksBehind, NextTypeInv, NextPlacesInv
<1>3. Inv => SeparatorsInFile
  BY PlacesInvInFile
<1>4. QED  BY <1>1, <1>2, <1>3, PTL DEF Spec

----------------------------------------------------------------------------
(* The first row.                                                          *)

(* The first buffer holds more than one character, and does not end between *)
(* the characters of a Windows newline.                                     *)
FirstBufferWhole(in) ==
  /\ in.chunk_size > 2
  /\ in.chunk_size <= Len(in.content) =>
       ~(/\ in.content[in.chunk_size - 1] = "cr"
         /\ in.content[in.chunk_size] = "lf")

FirstOfAll == FindNewline(AsFile, FindFirstLine(AsFile, input.skip))

(* The file that is meant has a newline at its end.                         *)
LEMMA AsFileIsFile ==
  ASSUME input \in Inputs
  PROVE  /\ AsFile \in File /\ Len(AsFile) >= Len(input.content)
         /\ \A k \in 1 .. Len(input.content) : AsFile[k] = input.content[k]
<1> DEFINE content == input.content
<1>1. content \in Seq(Char)
  BY InputsAssumption
<1>2. AsFile = IF content # <<>> /\ content[Len(content)] \in {"lf", "cr"} THEN content
               ELSE Append(content, "lf")
  BY DEF AsFile
<1> HIDE DEF content
<1>3. CASE content # <<>> /\ content[Len(content)] \in {"lf", "cr"}
  BY <1>1, <1>2, <1>3 DEF File, content
<1>4. CASE ~(content # <<>> /\ content[Len(content)] \in {"lf", "cr"})
  <2>1. AsFile = Append(content, "lf") /\ "lf" \in Char
    BY <1>2, <1>4 DEF Char
  <2>2. /\ Append(content, "lf") \in Seq(Char)
        /\ Len(Append(content, "lf")) = Len(content) + 1
        /\ Append(content, "lf")[Len(content) + 1] = "lf"
        /\ \A k \in 1 .. Len(content) : Append(content, "lf")[k] = content[k]
    BY <1>1, <2>1
  <2>3. Len(content) \in Nat
    BY <1>1
  <2> DEFINE whole == Append(content, "lf")
  <2> HIDE DEF whole
  <2>4. /\ whole \in Seq(Char) /\ Len(whole) = Len(content) + 1
        /\ whole[Len(whole)] \in {"lf", "cr"}
        /\ \A k \in 1 .. Len(content) : whole[k] = content[k]
    BY <2>2, <2>3 DEF whole
  <2>5. AsFile = whole
    BY <2>1 DEF whole
  <2>6. QED  BY <2>3, <2>4, <2>5 DEF File, content
<1>5. QED  BY <1>3, <1>4

(* The first buffer has the beginning of it, unless it has all of it.       *)
LEMMA FirstBuffer ==
  ASSUME FileInv, TasksBehind, pc = "open", FirstBufferWhole(input),
         Len(ReadConnection) < Len(input.content)
  PROVE  /\ Begins(Append(ReadConnection, "nul"), AsFile)
         /\ Len(Append(ReadConnection, "nul")) = Len(ReadConnection) + 1
         /\ Len(ReadConnection) \in Nat /\ Len(ReadConnection) > 1
<1> DEFINE got     == ReadConnection
           content == input.content
           size    == Len(ReadConnection)
           chunk   == Append(ReadConnection, "nul")
<1>1. /\ input \in Inputs /\ taken = 0 /\ content \in Seq(Char)
      /\ input.chunk_size \in Nat \ {0, 1}
  BY InputFields DEF FileInv, BuffersFine, FileFine
<1>2. /\ got \in Seq(Char) /\ size \in Nat
      /\ \A k \in 1 .. size : got[k] = content[k]
  BY <1>1, ReadFacts DEF FileInv
<1>3. size = input.chunk_size - 1
  <2>1. /\ Len(content) \in Nat /\ input.chunk_size - 1 \in Nat
    BY <1>1
  <2>2. Min({input.chunk_size - 1, Len(content)}) \in {input.chunk_size - 1, Len(content)}
        /\ Min({input.chunk_size - 1, Len(content)}) <= Len(content)
    BY <2>1, LeastOfTwo
  <2>3. got = SubSeq(content, 1, Min({input.chunk_size - 1, Len(content)}))
    <3>1. taken + 1 = 1 /\ taken + input.chunk_size - 1 = input.chunk_size - 1
      BY <1>1
    <3>2. QED  BY <3>1 DEF ReadConnection
  <2> DEFINE m == Min({input.chunk_size - 1, Len(content)})
  <2> HIDE DEF m, content
  <2>4. m \in Nat /\ m <= Len(content)
    BY <2>1, <2>2 DEF m
  <2>5. Len(SubSeq(content, 1, m)) = m
    BY <1>1, <2>4
  <2>6. size = m /\ m # Len(content)
    <3>1. size = Len(SubSeq(content, 1, m)) /\ size < Len(content)
      BY <2>3 DEF m, content
    <3>2. QED  BY <2>4, <2>5, <3>1
  <2>7. QED  BY <2>2, <2>6 DEF m
<1>4. /\ Len(chunk) = size + 1 /\ chunk[size + 1] = "nul"
      /\ \A k \in 1 .. size : chunk[k] = got[k]
  BY <1>2, NulFacts
<1>5. /\ AsFile \in File /\ Len(AsFile) >= Len(content)
      /\ \A k \in 1 .. Len(content) : AsFile[k] = content[k]
  BY <1>1, AsFileIsFile
<1> DEFINE src == AsFile
<1>6. Len(src) \in Nat /\ Len(content) \in Nat /\ size < Len(content)
  BY <1>1, <1>5 DEF File
<1> HIDE DEF got, content, size, chunk, src
<1>7. ASSUME NEW q \in Nat, q < size PROVE At(chunk, q) = At(src, q)
  <2>1. q + 1 \in 1 .. size /\ q + 1 \in 1 .. Len(content) /\ q < Len(chunk) /\ q < Len(src)
    BY <1>2, <1>4, <1>5, <1>6, <1>7 DEF src
  <2>2. chunk[q + 1] = src[q + 1]
    BY <1>2, <1>4, <1>5, <2>1 DEF src
  <2>3. QED  BY <2>1, <2>2 DEF At
<1>8. At(chunk, size) = "nul"
  BY <1>2, <1>4 DEF At
<1>9. size > 1
  BY <1>1, <1>3 DEF FirstBufferWhole
<1>10. ~(At(src, size - 1) = "cr" /\ At(src, size) = "lf")
  <2>1. /\ size \in 1 .. Len(content) /\ size + 1 \in 1 .. Len(content)
        /\ size - 1 < Len(src) /\ size < Len(src) /\ (size - 1) + 1 = size
    BY <1>2, <1>5, <1>6, <1>9 DEF src
  <2>2. At(src, size - 1) = content[size] /\ At(src, size) = content[size + 1]
    BY <1>5, <2>1 DEF At, src
  <2>3. input.chunk_size - 1 = size /\ input.chunk_size = size + 1
        /\ input.chunk_size <= Len(content)
    BY <1>1, <1>2, <1>3, <1>6
  <2>4. ~(content[input.chunk_size - 1] = "cr" /\ content[input.chunk_size] = "lf")
    BY <2>3 DEF FirstBufferWhole, content
  <2>5. QED  BY <2>2, <2>3, <2>4
<1>11. Begins(chunk, src)
  <2>1. Len(chunk) \in Nat \ {0} /\ Len(chunk) <= Len(src)
        /\ Len(chunk) - 1 = size /\ Len(chunk) - 2 = size - 1
    BY <1>2, <1>4, <1>5, <1>6 DEF src
  <2>2. QED  BY <1>6, <1>7, <1>8, <1>10, <2>1 DEF Begins
<1>12. QED  BY <1>2, <1>4, <1>9, <1>11 DEF chunk, src, size, got

(* FirstRowFits, of the one position that it is about.                      *)
Fits ==
  /\ pc = "first_row" /\ taken < Len(input.content) => nl = FirstOfAll
  /\ pc = "too_small" => FirstOfAll[1] >= sz

LEMMA FitsUnfolds == FirstRowFits <=> Fits
BY Zenon DEF FirstRowFits, FirstOfAll, Fits

LEMMA OpenFits ==
  ASSUME FileInv, TasksBehind, TypeInv, FirstBufferWhole(input), Open
  PROVE  FirstRowFits'
<1> DEFINE chunk == Append(ReadConnection, "nul")
<1>1. /\ pc = "open" /\ taken' = Len(ReadConnection) /\ sz' = taken'
      /\ buf' = [buf EXCEPT ![i] = chunk] /\ input' = input /\ i \in {0, 1}
  <2>1. i \in {0, 1}
    BY DEF TasksBehind
  <2>2. QED  BY <2>1 DEF Open
<1>2. /\ ReadConnection \in Seq(Char) /\ sz' \in Nat /\ buf'[i] = chunk
      /\ input \in Inputs /\ input.skip \in Nat
  BY <1>1, InputFields, ReadFacts DEF FileInv, BuffersFine
<1>3. FirstOfAll' = FirstOfAll
  BY <1>1 DEF FirstOfAll, AsFile
<1> SUFFICES /\ pc' = "first_row" /\ taken' < Len(input.content) => nl' = FirstOfAll
             /\ pc' = "too_small" => FirstOfAll[1] >= sz'
  <2>1. FirstRowFits' <=> Fits'
    BY FitsUnfolds, PTL
  <2>2. QED  BY <1>1, <1>3, <2>1 DEF Fits
<1>4. CASE sz' = 0
  BY <1>1, <1>4 DEF Open
<1>5. CASE sz' # 0
  <2>1. PICK start \in {Min({FindFirstLine(chunk, input.skip), sz' + 1})} :
          /\ nl' = FirstNewline(chunk, start)
          /\ LET cut == sz' > 1 /\ ~EndsLine(nl'[2], At(chunk, nl'[1]))
             IN  pc' = IF cut /\ taken' < Len(input.content) THEN "too_small"
                       ELSE "first_row"
    BY <1>2, <1>5 DEF Open
  <2>2. CASE ~(taken' < Len(input.content))
    BY <2>1, <2>2
  <2>3. CASE taken' < Len(input.content)
    <3>1. /\ Begins(chunk, AsFile) /\ Len(chunk) = sz' + 1 /\ sz' > 1
          /\ AsFile \in File
      BY <1>1, <1>2, <2>3, FirstBuffer, AsFileIsFile
    <3> DEFINE to == FindNewline(chunk, start)
    <3>2. SameNewline(chunk, 0, to, FirstOfAll)
      <4>1. start = Min({FindFirstLine(chunk, input.skip), Len(chunk)})
        BY <2>1, <3>1
      <4> HIDE DEF chunk
      <4>2. QED  BY <1>2, <3>1, <4>1, FirstRowBegins DEF FirstOfAll
    <3>3. nl' = <<Min({to[1], sz'}), to[2]>>
      <4>1. Len(chunk) - 1 = sz'
        BY <1>2, <3>1
      <4>2. QED  BY <2>1, <4>1 DEF FirstNewline
    <3>4. to \in Nat \X {"lf", "cr"}
      <4>1. FindFirstLine(chunk, input.skip) \in Nat /\ Len(chunk) \in Nat \ {0}
        <5>1. Len(chunk) \in Nat \ {0}
          BY <3>1 DEF Begins
        <5> HIDE DEF chunk
        <5>2. QED  BY <5>1, FindFirstLineForward
      <4>2. start \in Nat
        BY <1>2, <2>1, <3>1, <4>1, LeastOfTwo
      <4>3. QED  BY <4>1, <4>2, FindNewlineForward
    <3>5. At(chunk, sz') = "nul"
      BY <1>2, <3>1 DEF Begins
    <3>6. Len(chunk) - 1 = sz'
      BY <1>2, <3>1
    <3> HIDE DEF chunk, to
    <3>7. CASE /\ to = FirstOfAll /\ to[1] < sz'
               /\ At(chunk, to[1]) = "lf" \/ (At(chunk, to[1]) = "cr" /\ to[2] = "cr")
      <4>1. Min({to[1], sz'}) = to[1]
        <5>1. to[1] \in Nat /\ Min({to[1], sz'}) \in {to[1], sz'}
              /\ Min({to[1], sz'}) <= to[1]
          BY <1>2, <3>4, LeastOfTwo
        <5>2. QED  BY <1>2, <3>7, <5>1
      <4>2. nl' = to
        BY <3>3, <3>4, <4>1
      <4>3. EndsLine(nl'[2], At(chunk, nl'[1]))
        BY <3>7, <4>2 DEF EndsLine
      <4>4. pc' = "first_row"
        BY <2>1, <4>3
      <4>5. QED  BY <3>7, <4>2, <4>4
    <3>8. CASE to[1] >= sz' /\ FirstOfAll[1] >= sz'
      <4>1. Min({to[1], sz'}) = sz'
        <5>1. to[1] \in Nat /\ Min({to[1], sz'}) \in {to[1], sz'}
              /\ Min({to[1], sz'}) <= sz'
          BY <1>2, <3>4, LeastOfTwo
        <5>2. QED  BY <1>2, <3>8, <5>1
      <4>2. nl'[1] = sz'
        BY <3>3, <4>1
      <4>3. ~EndsLine(nl'[2], At(chunk, nl'[1]))
        BY <3>5, <4>2 DEF EndsLine
      <4>4. pc' = "too_small"
        BY <2>1, <2>3, <3>1, <4>3
      <4>5. QED  BY <3>8, <4>4
    <3>9. QED  BY <3>2, <3>6, <3>7, <3>8 DEF SameNewline
  <2>4. QED  BY <2>2, <2>3
<1>6. QED  BY <1>4, <1>5

LEMMA NextFits ==
  ASSUME FileInv, TasksBehind, TypeInv, FirstBufferWhole(input), FirstRowFits, [Next]_vars
  PROVE  FirstRowFits'
<1>1. CASE Open
  BY <1>1, OpenFits
<1>2. CASE pc' \notin {"first_row", "too_small"}
  BY <1>2 DEF FirstRowFits
<1>3. CASE UNCHANGED <<pc, taken, nl, sz, input>>
  <2>1. FirstOfAll' = FirstOfAll
    BY <1>3 DEF FirstOfAll, AsFile
  <2>2. FirstRowFits' <=> Fits'
    BY FitsUnfolds, PTL
  <2>3. Fits' <=> Fits
    BY <1>3, <2>1 DEF Fits
  <2>4. QED  BY <2>2, <2>3, FitsUnfolds
<1>4. QED
  BY <1>1, <1>2, <1>3
  DEF Next, Main, IndexFirstRow, WaitForParse, WaitForWrite, Read, Finish, Parse, Write,
      Done, vars, main

(* A first row is refused exactly when its newline is not in the first       *)
(* buffer, for every content, skip and option and every size of the buffer, *)
(* as long as the first buffer does not cut a Windows newline.              *)
THEOREM FirstRowAlwaysFits ==
  ASSUME \A in \in Inputs : FirstBufferWhole(in)
  PROVE  Spec => []FirstRowFits
<1> DEFINE Inv == FileInv /\ TasksBehind /\ TypeInv /\ FirstRowFits
<1>1. Init => Inv
  <2>1. Init => FirstRowFits
    BY DEF Init, FirstRowFits
  <2>2. QED  BY <2>1, InitFileInv, InitTasksBehind, InitTypeInv
<1>2. Inv /\ [Next]_vars => Inv'
  <2> SUFFICES ASSUME Inv, [Next]_vars PROVE Inv'
    OBVIOUS
  <2>1. FirstBufferWhole(input)
    BY DEF FileInv, BuffersFine
  <2>2. FirstRowFits'
    BY <2>1, NextFits
  <2>3. QED  BY <2>2, NextFileInv, NextTasksBehind, NextTypeInv
<1>3. QED  BY <1>1, <1>2, PTL DEF Spec

=============================================================================
