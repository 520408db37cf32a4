------------------------ MODULE DelimitedIndex_proofs ------------------------
(***************************************************************************)
(* Theorems about DelimitedIndex, for every set of files, number of        *)
(* threads and options: its types, that the batches of the threads cut the *)
(* file without gaps and overlaps, that it never starts over while a       *)
(* thread runs, that each thread leaves whole rows, that newlines in       *)
(* fields are left to one thread, that one thread, by choice or in the     *)
(* end, builds the index of the reference, that several threads build the  *)
(* same index, and that n_max lets the first rows of it through.           *)
(***************************************************************************)
EXTENDS DelimitedIndex, IndexRegion_proofs

(* The files that are read are the files that IndexRegion_proofs is about.  *)
LEMMA FilesType == Files \subseteq File
BY IndexAssumption DEF File

(* A division by the number of threads leaves no more than there was.       *)
LEMMA Quotient ==
  ASSUME NEW n \in Nat, NEW d \in Nat \ {0}
  PROVE  n \div d \in Nat /\ d * (n \div d) <= n
OBVIOUS

(* n_max: a number of rows, or all of them.                                 *)
Limit == Nat \union {Unlimited}

(* n_max and what is left of it are numbers of lines, or no limit.          *)
LEMMA NMaxType ==
  ASSUME NEW limit \in Nat \union {Unlimited}, NEW lines \in Nat
  PROVE  /\ NMaxWithHeader(limit) \in Nat \union {Unlimited}
         /\ NMaxAfter(limit, lines) \in Nat \union {Unlimited}
BY HeaderAssumption DEF NMaxWithHeader, NMaxAfter, Unlimited

(* A call starts with well-typed locals and nothing reported.               *)
LEMMA EnterType ==
  ASSUME NEW p \in CallType, NEW state \in CsvState, NEW cols \in Nat
  PROVE  /\ Enter(p, state, cols, <<>>) \in LocalsType
         /\ Enter(p, state, cols, <<>>).last_tick = p.start
BY DEF Enter, LocalsType, CallType

(* So do the calls that have not been made.                                 *)
LEMMA IdleType == NoRegion \in CallType /\ Idle \in LocalsType /\ Idle.out = "idle"
<1>1. NoRegion \in CallType
  BY DEF NoRegion, Region, CallType, Unlimited
<1>2. Enter(NoRegion, "RECORD_START", 0, <<>>) \in LocalsType
  BY <1>1, EnterType DEF CsvState
<1>3. QED  BY <1>1, <1>2 DEF Idle, LocalsType

(* The call for the first row ends after it starts, and in the file.        *)
LEMMA FirstRegionType ==
  ASSUME NEW src \in File, NEW from \in Nat, NEW nlt \in {"lf", "cr"}, NEW to \in Nat,
         from <= to, to < Len(src), NEW limit \in Nat \union {Unlimited},
         NEW threads \in Nat \ {0}
  PROVE  LET p == FirstRegion(from, <<to, nlt>>, limit, threads, Len(src))
         IN  p \in CallType /\ p.start <= p.end /\ p.end <= Len(src) /\ p.end = to + 1
<1>1. to + 1 \in Nat /\ Len(src) \in Nat /\ NMaxWithHeader(limit) \in Nat \union {Unlimited}
  BY NMaxType DEF File
<1>2. QED  BY <1>1 DEF FirstRegion, Region, CallType

----------------------------------------------------------------------------
(* Where the batches of parallel_for are cut: the last one takes what the   *)
(* division leaves.                                                         *)
CutAt(src, to, threads, id) ==
  to + IF id = threads THEN Len(src) - to ELSE id * ((Len(src) - to) \div threads)

Cut(src, to, threads, id) == FindNextNewline(src, CutAt(src, to, threads, id))[1] + 1

(* Batches are not of negative length.                                      *)
LEMMA CutsAscend ==
  ASSUME NEW src \in File, NEW to \in 0 .. (Len(src) - 1), NEW threads \in Nat \ {0},
         NEW id \in 0 .. (threads - 1)
  PROVE  /\ CutAt(src, to, threads, id) \in Nat
         /\ CutAt(src, to, threads, id + 1) \in Nat
         /\ CutAt(src, to, threads, id) <= CutAt(src, to, threads, id + 1)
<1> DEFINE elements == Len(src) - to
           batch    == elements \div threads
<1>1. elements \in Nat /\ Len(src) \in Nat
  BY DEF File
<1>2. batch \in Nat /\ threads * batch <= elements
  BY <1>1, Quotient
<1> HIDE DEF batch
<1>3. id * batch \in Nat /\ (id + 1) * batch = id * batch + batch
  BY <1>2
<1>4. id = threads - 1 => id * batch <= elements
  BY <1>1, <1>2, <1>3
<1>5. QED  BY <1>1, <1>2, <1>3, <1>4 DEF CutAt, batch

(* A call for the part of the file between two cuts.                        *)
BetweenCuts(p, src, at, threads, id) ==
  /\ p \in CallType /\ p.start <= p.end /\ p.end <= Len(src)
  /\ p.start = Cut(src, at, threads, id) /\ p.end = Cut(src, at, threads, id + 1)

(* The call of a batch is for the part of the file between two cuts.        *)
LEMMA BatchRegionCut ==
  ASSUME NEW src \in File, NEW to \in Nat \X {"lf", "cr"}, to[1] < Len(src),
         NEW limit \in Limit, NEW threads \in Nat \ {0},
         NEW id \in 0 .. (threads - 1), NEW cols \in Nat
  PROVE  BetweenCuts(BatchRegion(src, to, limit, cols, threads, id), src, to[1], threads, id)
<1> DEFINE from  == CutAt(src, to[1], threads, id)
           until == CutAt(src, to[1], threads, id + 1)
           p     == BatchRegion(src, to, limit, cols, threads, id)
<1>1. from \in Nat /\ until \in Nat /\ from <= until
  <2>1. to[1] \in 0 .. (Len(src) - 1)
    BY DEF File
  <2>2. QED  BY <2>1, CutsAscend
<1>2. /\ from = to[1] + id * ((Len(src) - to[1]) \div threads)
      /\ until = to[1] + IF id = threads - 1 THEN Len(src) - to[1]
                      ELSE (id + 1) * ((Len(src) - to[1]) \div threads)
  BY DEF CutAt
<1> HIDE DEF from, until
<1>3. p = Region(FindNextNewline(src, from)[1] + 1, FindNextNewline(src, until)[1] + 1,
                 FindNextNewline(src, from)[2], NMaxWithHeader(limit), cols, threads,
                 Len(src) \div 100)
  BY <1>2 DEF BatchRegion
<1>4. /\ FindNextNewline(src, from)[1] \in Nat /\ FindNextNewline(src, until)[1] \in Nat
      /\ FindNextNewline(src, from)[2] \in {"lf", "cr"}
      /\ FindNextNewline(src, until)[1] < Len(src)
      /\ FindNextNewline(src, from)[1] <= FindNextNewline(src, until)[1]
  BY <1>1, FindNextNewlineInFile, FindNextNewlineMonotonic
<1>5. Len(src) \in Nat /\ Len(src) \div 100 \in Nat
      /\ NMaxWithHeader(limit) \in Nat \union {Unlimited}
  BY NMaxType DEF File, Limit
<1> HIDE DEF p
<1>6. p \in CallType
  <2>1. /\ FindNextNewline(src, from)[1] + 1 \in Nat
        /\ FindNextNewline(src, until)[1] + 1 \in Nat
    BY <1>4
  <2>2. QED  BY <1>3, <1>4, <1>5, <2>1 DEF Region, CallType
<1>7. QED  BY <1>3, <1>4, <1>5, <1>6 DEF BetweenCuts, Region, Cut, from, until, p

(* The call that n_max reads on with takes the rest of the file.            *)
LEMMA RestRegionType ==
  ASSUME NEW size \in Nat, NEW to \in Nat \X {"lf", "cr"}, to[1] < size,
         NEW limit \in Limit, NEW lines \in Nat, NEW cols \in Nat
  PROVE  LET p == RestRegion(to, limit, lines, cols, size)
         IN  p \in CallType /\ p.start <= p.end /\ p.end = size /\ p.start = to[1] + 1
<1>1. /\ to[1] + 1 \in Nat /\ to[1] + 1 <= size /\ size \div 100 \in Nat
      /\ NMaxAfter(limit, lines) \in Nat \union {Unlimited}
  BY NMaxType DEF Limit
<1>2. QED  BY <1>1 DEF RestRegion, Region, CallType

(* The number of separators is a number: the destinations are finite.       *)
LEMMA IdxSizeType ==
  ASSUME num_threads \in Nat, scan \in [0 .. num_threads -> LocalsType]
  PROVE  IdxSize \in Nat
<1> DEFINE of(k) == {k} \X (1 .. Len(scan[k].destination))
<1>1. \A k \in 0 .. num_threads : IsFiniteSet(of(k))
  <2> TAKE k \in 0 .. num_threads
  <2>1. Len(scan[k].destination) \in Nat
    BY LocalsFields
  <2>2. IsFiniteSet(1 .. Len(scan[k].destination))
    <3>1. \A n \in Nat : IsFiniteSet(1 .. n)
      BY FS_Interval
    <3>2. QED  BY <2>1, <3>1
  <2>3. IsFiniteSet({k})
    BY FS_Singleton
  <2>4. QED  BY <2>2, <2>3, FS_Product
<1>2. IsFiniteSet({of(k) : k \in 0 .. num_threads})
  <2>1. IsFiniteSet(0 .. num_threads)
    BY FS_Interval
  <2>2. QED  BY <2>1, FS_Image
<1>3. IsFiniteSet(Separators)
  BY <1>1, <1>2, FS_UNION DEF Separators
<1>4. QED  BY <1>3, FS_CardinalityType DEF IdxSize

(* rows_ is not negative: the header is only taken off if there is a row.   *)
LEMMA RowsOfType ==
  ASSUME NEW size \in Nat, NEW cols \in Nat
  PROVE  RowsOf(size, cols) \in Nat
<1>1. cols > 0 => size \div (cols + 1) \in Nat
  BY Quotient
<1>2. QED  BY <1>1, HeaderAssumption DEF RowsOf

(* So many rows are counted in whole rows, and no fewer in more.            *)
LEMMA RowsOfWhole ==
  ASSUME NEW m \in Nat \ {0}, NEW cols \in Nat \ {0}, NEW d \in Nat \ {0}, d = cols + 1
  PROVE  /\ RowsOf(m * d, cols) = m - HasHeader
         /\ \A size \in Nat : size >= m * d => RowsOf(size, cols) >= m - HasHeader
<1>1. \A a, b \in Nat : a < b => (a + 1) * d <= b * d
  <2> SUFFICES ASSUME NEW a \in Nat, NEW b \in Nat, a < b PROVE (a + 1) * d <= b * d
    OBVIOUS
  <2>1. PICK k \in Nat : b = (a + 1) + k
    <3>1. b - (a + 1) \in Nat /\ b = (a + 1) + (b - (a + 1))
      OBVIOUS
    <3>2. QED  BY <3>1
  <2>2. ((a + 1) + k) * d = (a + 1) * d + k * d /\ k * d \in Nat /\ (a + 1) * d \in Nat
    OBVIOUS
  <2>3. QED  BY <2>1, <2>2
<1>2. \A a \in Nat : a \div d \in Nat /\ (a \div d) * d <= a /\ a < ((a \div d) + 1) * d
  OBVIOUS
<1>3. m * d \in Nat
  OBVIOUS
<1>4. ASSUME NEW size \in Nat, size >= m * d PROVE size \div d >= m
  <2>1. PICK q \in Nat : q = size \div d /\ size < (q + 1) * d
    BY <1>2
  <2>2. q < m => (q + 1) * d <= m * d
    BY <1>1
  <2>3. (q + 1) * d \in Nat
    OBVIOUS
  <2>4. QED  BY <1>3, <1>4, <2>1, <2>2, <2>3
<1>5. (m * d) \div d = m
  <2>1. PICK q \in Nat : q = (m * d) \div d /\ q * d <= m * d
    BY <1>2, <1>3
  <2>2. q >= m
    BY <1>3, <1>4, <2>1
  <2>3. m < q => (m + 1) * d <= q * d
    BY <1>1
  <2>4. (m + 1) * d = m * d + d /\ q * d \in Nat
    OBVIOUS
  <2>5. QED  BY <1>3, <2>1, <2>2, <2>3, <2>4
<1>6. RowsOf(m * d, cols) = m - HasHeader
  BY <1>5 DEF RowsOf
<1>7. ASSUME NEW size \in Nat, size >= m * d PROVE RowsOf(size, cols) >= m - HasHeader
  <2>1. PICK q \in Nat : q = size \div d /\ q >= m
    BY <1>2, <1>4, <1>7
  <2>2. RowsOf(size, cols) = q - HasHeader
    BY <2>1 DEF RowsOf
  <2>3. QED  BY <2>1, <2>2, HeaderAssumption
<1>8. QED  BY <1>6, <1>7

----------------------------------------------------------------------------
(* The inductive invariant.  It adds to the types: the first row has been   *)
(* found when there are calls of index_region; no thread is started before  *)
(* the first row is indexed, and all are before the main thread waits; each *)
(* call stays in the file and reports progress up to its end; the calls of  *)
(* the threads are for the parts between two cuts.                          *)

(* The first row has been found. *)
Opened == pc \notin {"open", "done"} \/ launched > 0

FirstRowFound ==
  Opened => /\ start < FileSize - 1
            /\ nl = FindNewline(file, start)
            /\ n_max # Unlimited => num_threads = 1
            /\ region[0].end = nl[1] + 1

LaunchOrder ==
  /\ pc \in {"open", "first_row"} => launched = 0
  /\ pc \in {"display", "join"} => launched = num_threads

CallsInFile ==
  \A k \in 0 .. num_threads :
    region[k].end <= FileSize /\ (Running(k) => scan[k].last_tick <= region[k].end)

CallsBetweenCuts ==
  \A k \in 1 .. launched :
    IF n_max # Unlimited THEN region[k].start = nl[1] + 1 /\ region[k].end = FileSize
    ELSE /\ region[k].start = Cut(file, nl[1], num_threads, k - 1)
         /\ region[k].end = Cut(file, nl[1], num_threads, k)

IInv ==
  /\ TypeOK
  /\ FirstRowFound
  /\ LaunchOrder
  /\ CallsInFile
  /\ CallsBetweenCuts

(* One iteration of a call keeps the types, and stays within the call.      *)
LEMMA IterateKeeps ==
  ASSUME TypeOK, CallsInFile, NEW k \in 0 .. num_threads, Iterate(k),
         UNCHANGED <<file, n_max, num_threads, region>>
  PROVE  /\ scan' \in [0 .. num_threads -> LocalsType]
         /\ errors' \in Seq([position : Nat, column : Nat])
         /\ progress' \in Nat /\ blocked' \in BOOLEAN
         /\ CallsInFile'
<1> DEFINE r == scan[k]
           s == IndexStep(file, region[k], r)
<1>1. /\ file \in File /\ region[k] \in CallType /\ r \in LocalsType
      /\ region[k].end <= Len(file) /\ r.last_tick <= region[k].end
  BY FilesType DEF TypeOK, CallsInFile, Iterate, Running, FileSize
<1>2. s \in After(region[k], r)
  BY <1>1, IndexStepType
<1>3. /\ s \in LocalsType /\ r.last_tick <= s.last_tick /\ s.last_tick <= region[k].end
      /\ r.last_tick \in Nat /\ s.last_tick \in Nat
  BY <1>1, <1>2, LocalsFields DEF After
<1>4. /\ scan' = [scan EXCEPT ![k] = s]
      /\ errors' = errors \o ParseErrors(file, region[k], r)
      /\ Report(r, s)
  BY DEF Iterate
<1> HIDE DEF s
<1>5. scan' \in [0 .. num_threads -> LocalsType]
  BY <1>3, <1>4 DEF TypeOK
<1>6. errors' \in Seq([position : Nat, column : Nat])
  <2>1. ParseErrors(file, region[k], r) \in Seq([position : Nat, column : Nat])
    BY <1>1, ParseErrorsType
  <2>2. errors \in Seq([position : Nat, column : Nat])
    BY DEF TypeOK
  <2>3. QED  BY <1>4, <2>1, <2>2
<1>7. progress' \in Nat /\ blocked' \in BOOLEAN
  <2>1. progress \in Nat /\ blocked \in BOOLEAN /\ FileSize \in Nat
    BY <1>1 DEF TypeOK, FileSize, File
  <2>2. s.last_tick - r.last_tick \in Nat
    BY <1>3
  <2>3. CASE FinishProgress
    BY <2>1, <2>3 DEF FinishProgress
  <2>4. CASE Tick(s.last_tick - r.last_tick)
    <3>1. progress + (s.last_tick - r.last_tick) \in Nat
      BY <2>1, <2>2
    <3>2. QED  BY <2>1, <2>4, <3>1, Zenon DEF Tick
  <2>5. CASE UNCHANGED <<progress, blocked>>
    BY <2>1, <2>5
  <2>6. QED  BY <1>4, <2>3, <2>4, <2>5 DEF Report
<1>8. CallsInFile'
  <2> SUFFICES ASSUME NEW j \in 0 .. num_threads
               PROVE  /\ region[j].end <= FileSize
                      /\ Running(j)' => scan'[j].last_tick <= region[j].end
    BY DEF CallsInFile, FileSize, Running
  <2>1. scan'[j] = IF j = k THEN s ELSE scan[j]
    BY <1>4 DEF TypeOK
  <2>2. QED  BY <1>3, <2>1 DEF CallsInFile, Running
<1>9. QED  BY <1>5, <1>6, <1>7, <1>8

(* start_indexing, when the first row is in the file.                       *)
LEMMA StartIndexingKeeps ==
  ASSUME TypeOK, NEW threads \in 1 .. NumThreads, NEW to \in Nat \X {"lf", "cr"},
         start <= to[1], to[1] < FileSize,
         StartIndexing(threads, to), UNCHANGED <<file, n_max>>
  PROVE  /\ num_threads' \in 1 .. NumThreads
         /\ region' \in [0 .. num_threads' -> CallType]
         /\ scan' \in [0 .. num_threads' -> LocalsType]
         /\ launched' = 0 /\ joined' = 0 /\ pc' = "first_row"
         /\ region'[0].end = to[1] + 1
         /\ CallsInFile'
<1> DEFINE p == FirstRegion(start, to, n_max, threads, FileSize)
<1>1. /\ file \in File /\ start \in Nat /\ threads \in Nat \ {0}
      /\ n_max \in Nat \union {Unlimited}
  BY FilesType, IndexAssumption DEF TypeOK
<1>2. p \in CallType /\ p.start <= p.end /\ p.end <= FileSize /\ p.end = to[1] + 1
  <2>1. to = <<to[1], to[2]>> /\ to[1] \in Nat /\ to[2] \in {"lf", "cr"}
    OBVIOUS
  <2> DEFINE q == FirstRegion(start, <<to[1], to[2]>>, n_max, threads, Len(file))
  <2>2. p = q
    BY <2>1 DEF FileSize
  <2>3. to[1] < Len(file)
    BY DEF FileSize
  <2>4. q \in CallType /\ q.start <= q.end /\ q.end <= Len(file) /\ q.end = to[1] + 1
    BY <1>1, <2>1, <2>3, FirstRegionType
  <2> HIDE DEF p, q
  <2>5. QED  BY <2>2, <2>4 DEF FileSize
<1> HIDE DEF p
<1>3. Enter(p, "RECORD_START", 0, <<>>) \in LocalsType
      /\ Enter(p, "RECORD_START", 0, <<>>).last_tick = p.start
  BY <1>2, EnterType DEF CsvState
<1>4. /\ num_threads' = threads /\ launched' = 0 /\ joined' = 0 /\ pc' = "first_row"
      /\ region' = [k \in 0 .. threads |-> IF k = 0 THEN p ELSE NoRegion]
      /\ scan' = [k \in 0 .. threads |->
                    IF k = 0 THEN Enter(p, "RECORD_START", 0, <<>>) ELSE Idle]
  BY DEF StartIndexing, p
<1>5. region' \in [0 .. threads -> CallType] /\ scan' \in [0 .. threads -> LocalsType]
  BY <1>2, <1>3, <1>4, IdleType
<1>6. CallsInFile'
  <2> SUFFICES ASSUME NEW j \in 0 .. threads
               PROVE  /\ region'[j].end <= FileSize
                      /\ Running(j)' => scan'[j].last_tick <= region'[j].end
    BY <1>4 DEF CallsInFile, FileSize, Running
  <2>1. CASE j = 0
    BY <1>2, <1>3, <1>4, <2>1
  <2>2. CASE j # 0
    <3>1. region'[j] = NoRegion /\ scan'[j] = Idle
      BY <1>4, <2>2
    <3>2. NoRegion.end = 0 /\ FileSize \in Nat
      BY <1>1 DEF NoRegion, Region, FileSize, File
    <3>3. QED  BY <3>1, <3>2, IdleType DEF Running
  <2>3. QED  BY <2>1, <2>2
<1>7. region'[0].end = to[1] + 1
  BY <1>1, <1>2, <1>4
<1>8. QED  BY <1>4, <1>5, <1>6, <1>7

(* The constructor starts in the invariant,                                 *)
LEMMA InitIInv == Init => IInv
<1> SUFFICES ASSUME Init PROVE IInv
  OBVIOUS
<1>1. NumThreads \in Nat \ {0} /\ file \in File /\ Skip \in Nat /\ file \in Files
  BY IndexAssumption, FilesType DEF Init
<1>2. TypeOK
  BY <1>1, IdleType DEF Init, TypeOK
<1>3. CallsInFile
  <2>1. NoRegion.end = 0 /\ FileSize \in Nat
    BY <1>1 DEF NoRegion, Region, FileSize, File
  <2>2. QED  BY <2>1, IdleType DEF Init, CallsInFile, Running
<1>4. FirstRowFound /\ LaunchOrder /\ CallsBetweenCuts
  BY DEF Init, FirstRowFound, Opened, LaunchOrder, CallsBetweenCuts
<1>5. QED  BY <1>2, <1>3, <1>4 DEF IInv

(* and no step of the main thread or of another thread leaves it.           *)
LEMMA NextIInv == IInv /\ [Next]_vars => IInv'
<1> SUFFICES ASSUME IInv, [Next]_vars PROVE IInv'
  OBVIOUS
<1>1. /\ TypeOK /\ FirstRowFound /\ LaunchOrder /\ CallsInFile /\ CallsBetweenCuts
      /\ file \in File /\ FileSize \in Nat /\ FileSize > 0
      /\ n_max \in Nat \union {Unlimited}
  BY FilesType, IndexAssumption DEF IInv, TypeOK, FileSize, File
<1>2. CASE SkipLine
  <2>1. start' \in Nat /\ skip' \in Nat
    BY <1>1, <1>2, NextLineForward DEF SkipLine, TypeOK
  <2>2. TypeOK'
    BY <1>1, <1>2, <2>1 DEF SkipLine, TypeOK
  <2>3. (FirstRowFound /\ LaunchOrder /\ CallsInFile /\ CallsBetweenCuts)'
    BY <1>1, <1>2 DEF SkipLine, FirstRowFound, Opened, LaunchOrder, CallsInFile,
                      CallsBetweenCuts, FileSize, Running
  <2>4. QED  BY <2>2, <2>3 DEF IInv
<1>3. CASE Open
  <2>1. PICK threads \in 1 .. NumThreads :
          /\ StartIndexing(threads, nl')
          /\ n_max # Unlimited => threads = 1
    <3> DEFINE line == FindNewline(file, nl'[1] + 1)[1] - nl'[1]
               few  == FileSize \div num_threads < line * LinesPerBatch
    <3>1. StartIndexing(IF n_max # Unlimited \/ few THEN 1 ELSE num_threads, nl')
      BY <1>3 DEF Open
    <3>2. 1 \in 1 .. NumThreads /\ num_threads \in 1 .. NumThreads
      BY <1>1, IndexAssumption DEF TypeOK
    <3> HIDE DEF few
    <3>3. CASE n_max # Unlimited \/ few
      BY <3>1, <3>2, <3>3
    <3>4. CASE ~(n_max # Unlimited \/ few)
      BY <3>1, <3>2, <3>4
    <3>5. QED  BY <3>3, <3>4
  <2>2. /\ start < FileSize - 1 /\ nl' = FindNewline(file, start)
        /\ UNCHANGED <<file, n_max, start, skip, errors, columns, rows>> /\ Tick(start)
    BY <1>3 DEF Open
  <2>3. nl' \in Nat \X {"lf", "cr"} /\ start <= nl'[1] /\ nl'[1] < FileSize
    <3>1. start \in Nat /\ start < Len(file)
      BY <1>1, <2>2 DEF TypeOK, FileSize
    <3>2. QED  BY <1>1, <2>2, <3>1, FindNewlineInFile DEF FileSize
  <2>4. /\ num_threads' \in 1 .. NumThreads
        /\ region' \in [0 .. num_threads' -> CallType]
        /\ scan' \in [0 .. num_threads' -> LocalsType]
        /\ launched' = 0 /\ joined' = 0 /\ pc' = "first_row"
        /\ region'[0].end = nl'[1] + 1
        /\ CallsInFile'
    BY <1>1, <2>1, <2>2, <2>3, StartIndexingKeeps
  <2>5. num_threads' = threads
    BY <2>1 DEF StartIndexing
  <2>6. progress' \in Nat /\ blocked' \in BOOLEAN
    <3>1. progress + start \in Nat /\ progress \in Nat /\ blocked \in BOOLEAN
      BY <1>1 DEF TypeOK
    <3>2. QED  BY <2>2, <3>1, Zenon DEF Tick
  <2>7. TypeOK'
    BY <1>1, <2>2, <2>3, <2>4, <2>6 DEF TypeOK
  <2>8. (FirstRowFound /\ LaunchOrder /\ CallsBetweenCuts)'
    BY <2>1, <2>2, <2>4, <2>5 DEF FirstRowFound, LaunchOrder, CallsBetweenCuts, FileSize
  <2>9. QED  BY <2>4, <2>7, <2>8 DEF IInv
<1>4. CASE OpenEmpty
  <2>1. TypeOK'
    BY <1>1, <1>4 DEF OpenEmpty, TypeOK
  <2>2. (FirstRowFound /\ LaunchOrder /\ CallsInFile /\ CallsBetweenCuts)'
    BY <1>1, <1>4 DEF OpenEmpty, FirstRowFound, Opened, LaunchOrder, CallsInFile,
                      CallsBetweenCuts, FileSize, Running
  <2>3. QED  BY <2>1, <2>2 DEF IInv
<1>5. ASSUME NEW k \in 0 .. num_threads, Iterate(k),
             UNCHANGED <<file, n_max, start, skip, nl, pc, num_threads, region, launched,
                         joined, columns, rows>>
      PROVE  IInv'
  <2>1. /\ scan' \in [0 .. num_threads -> LocalsType]
        /\ errors' \in Seq([position : Nat, column : Nat])
        /\ progress' \in Nat /\ blocked' \in BOOLEAN
        /\ CallsInFile'
    BY <1>1, <1>5, IterateKeeps
  <2>2. TypeOK'
    BY <1>1, <1>5, <2>1 DEF TypeOK
  <2>3. (FirstRowFound /\ LaunchOrder /\ CallsBetweenCuts)'
    BY <1>1, <1>5 DEF FirstRowFound, Opened, LaunchOrder, CallsBetweenCuts, FileSize
  <2>4. QED  BY <2>1, <2>2, <2>3 DEF IInv
<1>6. CASE IndexFirstRow
  <2>1. 0 \in 0 .. num_threads
    BY <1>1 DEF TypeOK
  <2>2. Iterate(0) /\ UNCHANGED <<file, n_max, start, skip, nl, pc, num_threads, region,
                                 launched, joined, columns, rows>>
    BY <1>6 DEF IndexFirstRow
  <2>3. QED  BY <1>5, <2>1, <2>2
<1>7. CASE \E k \in Threads : IndexBatch(k)
  BY <1>1, <1>5, <1>7 DEF IndexBatch, Threads, TypeOK
<1>8. CASE CountColumns
  <2>1. columns' \in Nat
    <3>1. scan[0].destination \in Seq(Nat)
      BY <1>1, LocalsFields DEF TypeOK
    <3>2. scan[0].destination # <<>> => Len(scan[0].destination) - 1 \in Nat
      BY <3>1
    <3>3. QED  BY <1>1, <1>8, <3>2 DEF CountColumns, TypeOK
  <2>2. TypeOK'
    BY <1>1, <1>8, <2>1 DEF CountColumns, TypeOK
  <2>3. (FirstRowFound /\ LaunchOrder /\ CallsInFile /\ CallsBetweenCuts)'
    BY <1>1, <1>8 DEF CountColumns, FirstRowFound, Opened, LaunchOrder, CallsInFile,
                      CallsBetweenCuts, FileSize, Running
  <2>4. QED  BY <2>2, <2>3 DEF IInv
<1>9. CASE Launch
  <2> DEFINE p == IF n_max # Unlimited
                  THEN RestRegion(nl, n_max, scan[0].lines_read, columns, FileSize)
                  ELSE BatchRegion(file, nl, n_max, columns, num_threads, launched)
             r == IF n_max # Unlimited THEN Enter(p, scan[0].state, scan[0].cols, <<>>)
                  ELSE Enter(p, "RECORD_START", 0, <<>>)
  <2>1. /\ pc = "launch" /\ launched < num_threads
        /\ region' = [region EXCEPT ![launched + 1] = p]
        /\ scan' = [scan EXCEPT ![launched + 1] = r]
        /\ launched' = launched + 1
        /\ UNCHANGED <<file, n_max, start, skip, nl, pc, num_threads, joined, errors, progress,
                       blocked, columns, rows>>
    BY <1>9 DEF Launch
  <2>2. /\ nl \in Nat \X {"lf", "cr"} /\ nl[1] \in 0 .. (FileSize - 1)
        /\ nl[1] < FileSize /\ columns \in Nat
        /\ num_threads \in Nat \ {0} /\ launched \in 0 .. (num_threads - 1)
        /\ scan[0] \in LocalsType
    <3>1. start \in Nat /\ start < Len(file) /\ nl = FindNewline(file, start)
      BY <1>1, <2>1 DEF TypeOK, FirstRowFound, Opened, FileSize
    <3>2. nl[1] < FileSize
      BY <1>1, <3>1, FindNewlineInFile DEF FileSize
    <3>3. QED  BY <1>1, <2>1, <3>2, IndexAssumption DEF TypeOK
  <2>3. /\ p \in CallType /\ p.start <= p.end /\ p.end <= FileSize
        /\ IF n_max # Unlimited THEN p.start = nl[1] + 1 /\ p.end = FileSize
           ELSE /\ p.start = Cut(file, nl[1], num_threads, launched)
                /\ p.end = Cut(file, nl[1], num_threads, launched + 1)
    <3>1. CASE n_max # Unlimited
      <4>1. scan[0].lines_read \in Nat
        BY <2>2, LocalsFields
      <4>2. LET q == RestRegion(nl, n_max, scan[0].lines_read, columns, FileSize)
            IN  q \in CallType /\ q.start <= q.end /\ q.end = FileSize /\ q.start = nl[1] + 1
        <5>1. /\ FileSize \in Nat /\ nl \in Nat \X {"lf", "cr"} /\ nl[1] < FileSize
              /\ n_max \in Limit /\ columns \in Nat
          BY <1>1, <2>2 DEF FileSize, File, Limit, TypeOK
        <5>2. QED  BY <4>1, <5>1, RestRegionType
      <4>3. QED  BY <1>1, <3>1, <4>2
    <3>2. CASE n_max = Unlimited
      <4>1. BetweenCuts(BatchRegion(file, nl, n_max, columns, num_threads, launched),
                        file, nl[1], num_threads, launched)
        <5>1. file \in File /\ nl \in Nat \X {"lf", "cr"} /\ nl[1] < Len(file)
          BY <1>1, <2>2 DEF FileSize
        <5>2. /\ num_threads \in Nat \ {0} /\ launched \in 0 .. (num_threads - 1)
              /\ columns \in Nat /\ n_max \in Limit
          BY <1>1, <2>2 DEF Limit, TypeOK
        <5>3. QED  BY <5>1, <5>2, BatchRegionCut
      <4>2. QED  BY <3>2, <4>1 DEF BetweenCuts, FileSize
    <3>3. QED  BY <3>1, <3>2
  <2> HIDE DEF p
  <2>4. r \in LocalsType /\ r.last_tick = p.start
    BY <2>2, <2>3, EnterType, LocalsFields DEF CsvState
  <2> HIDE DEF r
  <2>5. TypeOK'
    BY <1>1, <2>1, <2>2, <2>3, <2>4 DEF TypeOK
  <2>6. /\ \A k \in 0 .. num_threads :
             region'[k] = IF k = launched + 1 THEN p ELSE region[k]
        /\ \A k \in 0 .. num_threads :
             scan'[k] = IF k = launched + 1 THEN r ELSE scan[k]
    BY <1>1, <2>1 DEF TypeOK
  <2>7. CallsInFile'
    BY <1>1, <2>1, <2>3, <2>4, <2>6 DEF CallsInFile, Running, FileSize
  <2>8. CallsBetweenCuts'
    <3> SUFFICES ASSUME NEW k \in 1 .. (launched + 1)
                 PROVE  IF n_max # Unlimited
                        THEN region'[k].start = nl[1] + 1 /\ region'[k].end = FileSize
                        ELSE /\ region'[k].start = Cut(file, nl[1], num_threads, k - 1)
                             /\ region'[k].end = Cut(file, nl[1], num_threads, k)
      BY <2>1 DEF CallsBetweenCuts, FileSize
    <3>1. CASE k = launched + 1
      <4>1. region'[k] = p /\ k - 1 = launched
        BY <2>2, <2>6, <3>1
      <4>2. QED  BY <2>3, <3>1, <4>1
    <3>2. CASE k # launched + 1
      <4>1. region'[k] = region[k] /\ k \in 1 .. launched
        BY <2>2, <2>6, <3>2
      <4>2. QED  BY <1>1, <4>1 DEF CallsBetweenCuts
    <3>3. QED  BY <3>1, <3>2
  <2>9. (FirstRowFound /\ LaunchOrder)'
    BY <1>1, <2>1, <2>2, <2>6 DEF FirstRowFound, Opened, LaunchOrder, FileSize
  <2>10. QED  BY <2>5, <2>7, <2>8, <2>9 DEF IInv
<1>10. CASE Launched
  <2>1. TypeOK'
    BY <1>1, <1>10 DEF Launched, TypeOK
  <2>2. (FirstRowFound /\ LaunchOrder /\ CallsInFile /\ CallsBetweenCuts)'
    BY <1>1, <1>10 DEF Launched, FirstRowFound, Opened, LaunchOrder, CallsInFile,
                       CallsBetweenCuts, FileSize, Running
  <2>3. QED  BY <2>1, <2>2 DEF IInv
<1>11. CASE Display \/ WakeUp
  <2>1. TypeOK'
    BY <1>1, <1>11 DEF Display, WakeUp, TypeOK
  <2>2. (FirstRowFound /\ LaunchOrder /\ CallsInFile /\ CallsBetweenCuts)'
    BY <1>1, <1>11 DEF Display, WakeUp, FirstRowFound, Opened, LaunchOrder, CallsInFile,
                       CallsBetweenCuts, FileSize, Running
  <2>3. QED  BY <2>1, <2>2 DEF IInv
<1>12. CASE Join
  <2>1. TypeOK'
    BY <1>1, <1>12 DEF Join, LaunchOrder, TypeOK
  <2>2. (FirstRowFound /\ LaunchOrder /\ CallsInFile /\ CallsBetweenCuts)'
    BY <1>1, <1>12 DEF Join, FirstRowFound, Opened, LaunchOrder, CallsInFile,
                       CallsBetweenCuts, FileSize, Running
  <2>3. QED  BY <2>1, <2>2 DEF IInv
<1>13. CASE Throw
  <2>1. TypeOK'
    BY <1>1, <1>13 DEF Throw, TypeOK
  <2>2. (FirstRowFound /\ LaunchOrder /\ CallsInFile /\ CallsBetweenCuts)'
    BY <1>1, <1>13 DEF Throw, FirstRowFound, Opened, LaunchOrder, CallsInFile,
                       CallsBetweenCuts, FileSize, Running
  <2>3. QED  BY <2>1, <2>2 DEF IInv
<1>14. CASE Restart
  <2>1. /\ pc = "unwind" /\ errors' = <<>> /\ StartIndexing(1, nl)
        /\ UNCHANGED <<file, n_max, start, skip, nl, progress, blocked, columns, rows>>
    BY <1>14 DEF Restart
  <2>2. start \in Nat /\ start < Len(file) /\ start < FileSize - 1
        /\ nl = FindNewline(file, start)
    BY <1>1, <2>1 DEF TypeOK, FirstRowFound, Opened, FileSize
  <2>3. nl \in Nat \X {"lf", "cr"} /\ start <= nl[1] /\ nl[1] < FileSize
    BY <1>1, <2>2, FindNewlineInFile DEF FileSize
  <2>4. 1 \in 1 .. NumThreads
    BY IndexAssumption
  <2>5. /\ num_threads' \in 1 .. NumThreads
        /\ region' \in [0 .. num_threads' -> CallType]
        /\ scan' \in [0 .. num_threads' -> LocalsType]
        /\ launched' = 0 /\ joined' = 0 /\ pc' = "first_row"
        /\ region'[0].end = nl[1] + 1
        /\ CallsInFile'
    BY <1>1, <2>1, <2>3, <2>4, StartIndexingKeeps
  <2>6. num_threads' = 1
    BY <2>1 DEF StartIndexing
  <2>7. TypeOK'
    BY <1>1, <2>1, <2>5 DEF TypeOK
  <2>8. (FirstRowFound /\ LaunchOrder /\ CallsBetweenCuts)'
    BY <2>1, <2>2, <2>5, <2>6 DEF FirstRowFound, LaunchOrder, CallsBetweenCuts, FileSize
  <2>9. QED  BY <2>5, <2>7, <2>8 DEF IInv
<1>15. CASE CountRows
  <2>1. rows' \in Nat
    <3>1. IdxSize \in Nat
      BY <1>1, IdxSizeType, IndexAssumption DEF TypeOK
    <3>2. columns \in Nat /\ rows' = RowsOf(IdxSize, columns)
      BY <1>1, <1>15 DEF CountRows, TypeOK
    <3>3. QED  BY <3>1, <3>2, RowsOfType
  <2>2. TypeOK'
    BY <1>1, <1>15, <2>1 DEF CountRows, TypeOK
  <2>3. (FirstRowFound /\ LaunchOrder /\ CallsInFile /\ CallsBetweenCuts)'
    BY <1>1, <1>15 DEF CountRows, FirstRowFound, Opened, LaunchOrder, CallsInFile,
                       CallsBetweenCuts, FileSize, Running
  <2>4. QED  BY <2>2, <2>3 DEF IInv
<1>16. CASE Done \/ UNCHANGED vars
  <2>1. TypeOK'
    BY <1>1, <1>16 DEF Done, vars, TypeOK
  <2>2. (FirstRowFound /\ LaunchOrder /\ CallsInFile /\ CallsBetweenCuts)'
    BY <1>1, <1>16 DEF Done, vars, FirstRowFound, Opened, LaunchOrder, CallsInFile,
                       CallsBetweenCuts, FileSize, Running
  <2>3. QED  BY <2>1, <2>2 DEF IInv
<1>17. QED
  BY <1>2, <1>3, <1>4, <1>6, <1>7, <1>8, <1>9, <1>10, <1>11, <1>12, <1>13, <1>14, <1>15,
     <1>16 DEF Next, Main

(* The variables keep their types, whatever the files, the options and the  *)
(* number of threads: positions never leave the file, progress is never     *)
(* negative, and no thread is waited for that was not started.              *)
THEOREM TypeCorrect == Spec => []TypeOK
<1>1. IInv => TypeOK
  BY DEF IInv
<1>2. QED  BY <1>1, InitIInv, NextIInv, PTL DEF Spec

(* Batches neither overlap nor leave a gap: every character after the first *)
(* row is in the region of exactly one thread, for any number of threads    *)
(* and any file, but for the one line feed that BatchesMeet names.          *)
LEMMA IInvBatchesMeet == IInv => BatchesMeet
<1> SUFFICES ASSUME IInv, launched = num_threads
             PROVE  /\ \/ region[1].start = region[0].end
                       \/ region[1].start = FileSize /\ region[0].end = FileSize - 1
                    /\ \A k \in 2 .. num_threads : region[k].start = region[k - 1].end
                    /\ region[num_threads].end = FileSize
  BY DEF BatchesMeet
<1>1. /\ file \in File /\ Len(file) \in Nat /\ Len(file) > 0
      /\ num_threads \in Nat \ {0} /\ start \in Nat
  BY FilesType, IndexAssumption DEF IInv, TypeOK, File
<1>2. /\ nl = FindNewline(file, start) /\ region[0].end = nl[1] + 1
      /\ n_max # Unlimited => num_threads = 1
  BY <1>1 DEF IInv, FirstRowFound, Opened
<1>3. nl[1] \in Nat /\ nl[1] < Len(file)
  BY <1>1, <1>2, FindNewlineInFile
<1>4. CASE n_max # Unlimited
  BY <1>1, <1>2, <1>4 DEF IInv, CallsBetweenCuts
<1>5. CASE n_max = Unlimited
  <2>1. \A k \in 1 .. num_threads :
          /\ region[k].start = Cut(file, nl[1], num_threads, k - 1)
          /\ region[k].end = Cut(file, nl[1], num_threads, k)
    BY <1>5 DEF IInv, CallsBetweenCuts
  <2>2. region[1].start = Cut(file, nl[1], num_threads, 0)
    BY <1>1, <2>1
  <2>3. Cut(file, nl[1], num_threads, 0) = FindNextNewline(file, nl[1])[1] + 1
    <3>1. 0 * ((Len(file) - nl[1]) \div num_threads) = 0
      <4>1. (Len(file) - nl[1]) \div num_threads \in Nat
        BY <1>1, <1>3, Quotient
      <4>2. QED  BY <4>1
    <3>2. CutAt(file, nl[1], num_threads, 0) = nl[1]
      BY <1>1, <1>3, <3>1 DEF CutAt
    <3>3. QED  BY <3>2 DEF Cut
  <2>4. \/ FindNextNewline(file, nl[1])[1] = nl[1]
        \/ /\ FindNextNewline(file, nl[1])[1] = Len(file) - 1
           /\ nl[1] + 1 = Len(file) - 1
    BY <1>1, <1>2, SearchAgain
  <2>5. Cut(file, nl[1], num_threads, num_threads) = Len(file)
    BY <1>1, <1>3 DEF Cut, CutAt, FindNextNewline
  <2>6. \A k \in 2 .. num_threads : region[k].start = region[k - 1].end
    BY <1>1, <2>1
  <2>7. QED  BY <1>1, <1>2, <1>3, <2>1, <2>2, <2>3, <2>4, <2>5, <2>6 DEF FileSize
<1>6. QED  BY <1>4, <1>5

(* BatchesMeet holds of every execution of the constructor.                 *)
THEOREM BatchesAlwaysMeet == Spec => []BatchesMeet
BY InitIInv, NextIInv, IInvBatchesMeet, PTL DEF Spec

(* The constructor does not start over, and reset idx_ and errors_, while a *)
(* thread that may write to them runs.                                      *)
THEOREM RestartsAloneHolds == Spec => RestartsAlone
<1>1. [Next]_vars =>
        [pc = "unwind" /\ pc' # pc => \A k \in 1 .. launched : ~Running(k)]_vars
  BY DEF Next, Main, vars, SkipLine, Open, OpenEmpty, IndexFirstRow, CountColumns, Launch,
         Launched, Display, WakeUp, Join, Throw, Restart, CountRows, IndexBatch, Done
<1>2. QED  BY <1>1, PTL DEF Spec, RestartsAlone

----------------------------------------------------------------------------
(* Whole rows.  With several threads each destination has whole rows, when  *)
(* empty rows are skipped, backslashes do not escape and no carriage return *)
(* is alone: otherwise it need not (README.md).                             *)

(* Lines end as on Unix or Windows. *)
UnixOrWindows(src) ==
  \A pos \in 0 .. (Len(src) - 1) : At(src, pos) = "cr" => At(src, pos + 1) = "lf"

(* In such a file every newline that is found is a line feed.               *)
LEMMA FindsLineFeed ==
  ASSUME NEW src \in File, UnixOrWindows(src), NEW pos \in Nat
  PROVE  At(src, FindNextNewline(src, pos)[1]) = "lf" /\ FindNextNewline(src, pos)[2] = "lf"
<1>1. Len(src) \in Nat /\ Len(src) > 0 /\ src \in Seq(Char)
  BY DEF File
<1>2. \A q \in 0 .. (Len(src) - 1) : At(src, q) = "cr" => q + 1 < Len(src)
  <2> SUFFICES ASSUME NEW q \in 0 .. (Len(src) - 1), At(src, q) = "cr" PROVE q + 1 < Len(src)
    OBVIOUS
  <2>1. At(src, q + 1) = "lf"
    BY DEF UnixOrWindows
  <2>2. QED  BY <1>1, <2>1 DEF At
<1>3. CASE pos >= Len(src)
  <2>1. FindNextNewline(src, pos) = <<Len(src) - 1, "lf">>
    BY <1>3 DEF FindNextNewline
  <2>2. At(src, Len(src) - 1) \in {"lf", "cr"}
    BY <1>1 DEF At, File
  <2>3. At(src, Len(src) - 1) # "cr"
    BY <1>1, <1>2
  <2>4. QED  BY <2>1, <2>2, <2>3
<1>4. CASE pos < Len(src)
  <2>1. PICK q \in pos .. (Len(src) - 1) :
          /\ At(src, q) \in {"lf", "cr"}
          /\ FindNextNewline(src, pos) = NewlineAt(src, q, Len(src))
    <3> DEFINE q == FirstOf(src, pos, {"lf", "cr"})
    <3>1. /\ q \in pos .. Len(src)
          /\ q = Len(src) \/ At(src, q) \in {"lf", "cr"}
          /\ \A k \in pos .. (q - 1) : At(src, k) \notin {"lf", "cr"}
      BY <1>1, <1>4, FirstOfStops
    <3>2. At(src, Len(src) - 1) \in {"lf", "cr"}
      BY <1>1 DEF At, File
    <3> HIDE DEF q
    <3>3. q # Len(src)
      <4>1. Len(src) - 1 \notin pos .. (q - 1)
        BY <3>1, <3>2
      <4>2. QED  BY <1>1, <1>4, <4>1
    <3>4. FindNextNewline(src, pos) = NewlineAt(src, q, Len(src))
      <4>1. ~(pos >= Len(src))
        BY <1>1, <1>4
      <4>2. QED  BY <4>1 DEF FindNextNewline, q
    <3>5. QED  BY <1>1, <3>1, <3>3, <3>4
  <2>2. q \in 0 .. (Len(src) - 1)
    BY <1>1
  <2>3. CASE At(src, q) = "lf"
    BY <2>1, <2>3 DEF NewlineAt
  <2>4. CASE At(src, q) = "cr"
    <3>1. q + 1 < Len(src) /\ At(src, q + 1) = "lf"
      BY <1>2, <2>2, <2>4 DEF UnixOrWindows
    <3>2. QED  BY <2>1, <2>4, <3>1 DEF NewlineAt
  <2>5. QED  BY <2>1, <2>3, <2>4
<1>5. QED  BY <1>1, <1>3, <1>4

(* The calls of several threads are those for which StepKeepsRows holds.    *)
LEMMA BatchOfLineFeeds ==
  ASSUME NEW src \in File, UnixOrWindows(src), NEW to \in Nat \X {"lf", "cr"},
         to[1] < Len(src), NEW threads \in Nat, threads > 1,
         NEW id \in 0 .. (threads - 1), NEW cols \in Nat
  PROVE  LineFeedCall(src, BatchRegion(src, to, Unlimited, cols, threads, id))
<1> DEFINE p     == BatchRegion(src, to, Unlimited, cols, threads, id)
           from  == to[1] + id * ((Len(src) - to[1]) \div threads)
           until == CutAt(src, to[1], threads, id + 1)
<1>1. /\ p \in CallType /\ p.end <= Len(src) /\ p.end = Cut(src, to[1], threads, id + 1)
  <2>1. threads \in Nat \ {0} /\ Unlimited \in Limit
    BY DEF Limit
  <2>2. BetweenCuts(p, src, to[1], threads, id)
    BY <2>1, BatchRegionCut
  <2>3. QED  BY <2>2 DEF BetweenCuts
<1>2. from \in Nat /\ until \in Nat
  <2>1. to[1] \in 0 .. (Len(src) - 1) /\ threads \in Nat \ {0}
    BY DEF File
  <2>2. id # threads
    OBVIOUS
  <2>3. QED  BY <2>1, <2>2, CutsAscend DEF CutAt
<1>3. /\ p.n_max = Unlimited /\ p.num_cols = cols /\ p.num_threads = threads
      /\ p.nl = FindNextNewline(src, from)[2]
  BY DEF BatchRegion, Region, NMaxWithHeader
<1>4. p.nl = "lf"
  BY <1>2, <1>3, FindsLineFeed
<1> HIDE DEF p
<1>5. 0 < p.end /\ At(src, p.end - 1) = "lf"
  <2>1. p.end = FindNextNewline(src, until)[1] + 1
    BY <1>1 DEF Cut
  <2>2. PICK pos \in Nat : pos = FindNextNewline(src, until)[1]
    BY <1>2, FindNextNewlineInFile
  <2>3. At(src, pos) = "lf"
    BY <1>2, <2>2, FindsLineFeed
  <2>4. 0 < p.end /\ p.end - 1 = pos
    BY <2>1, <2>2
  <2>5. QED  BY <2>3, <2>4
<1>6. QED  BY <1>1, <1>3, <1>4, <1>5 DEF LineFeedCall, p

(* A call gives up, or has whole rows so far, and at its end.               *)
RowsKept(k) ==
  \/ scan[k].out = "newline_error"
  \/ scan[k].out = "running" /\ RowsSoFar(region[k], scan[k])
  \/ /\ scan[k].out = "end" /\ scan[k].state = "RECORD_START"
     /\ RowsSoFar(region[k], scan[k])

(* What RowsAreWhole needs to be inductive: the calls are those of the      *)
(* batches, calls not made have not started, calls waited for have ended,   *)
(* and each call keeps its rows whole.                                      *)
RowsInv ==
  /\ n_max = Unlimited =>
       \A k \in 1 .. launched :
         region[k] = BatchRegion(file, nl, n_max, columns, num_threads, k - 1)
  /\ \A k \in (launched + 1) .. num_threads : scan[k] = Idle
  /\ \A k \in 1 .. joined : scan[k].out \in {"end", "n_max"}
  /\ pc = "done" => joined = num_threads \/ launched = 0
  /\ num_threads > 1 => \A k \in 1 .. launched : RowsKept(k)

(* Each thread's rows are whole when the constructor returns.               *)
LEMMA RowsInvWhole == IInv /\ RowsInv => RowsAreWhole
<1> SUFFICES ASSUME IInv, RowsInv, pc = "done", num_threads > 1,
                    NEW k \in 1 .. num_threads
             PROVE  Len(scan[k].destination) % (columns + 1) = 0
  BY DEF RowsAreWhole
<1>1. /\ num_threads \in Nat /\ launched \in Nat /\ joined \in 0 .. launched
      /\ launched <= num_threads /\ columns \in Nat /\ scan[k] \in LocalsType
      /\ region[k] \in CallType
  BY DEF IInv, TypeOK
<1>2. CASE launched = 0
  <2>1. scan[k] = Idle
    BY <1>1, <1>2 DEF RowsInv
  <2>2. scan[k].destination = <<>>
    BY <2>1 DEF Idle, Enter
  <2>3. 0 % (columns + 1) = 0
    <3>1. \A d \in Nat \ {0} : 0 % d = 0
      OBVIOUS
    <3>2. QED  BY <1>1, <3>1
  <2>4. QED  BY <2>2, <2>3
<1>3. CASE launched # 0 /\ columns = 0
  <2>1. Len(scan[k].destination) \in Nat
    BY <1>1, LocalsFields
  <2>2. \A n \in Nat : n % 1 = 0
    OBVIOUS
  <2>3. columns + 1 = 1
    BY <1>3
  <2>4. QED  BY <2>1, <2>2, <2>3
<1>4. CASE launched # 0 /\ columns # 0
  <2>1. joined = num_threads /\ launched = num_threads
    BY <1>1, <1>4 DEF RowsInv
  <2>2. scan[k].out \in {"end", "n_max"} /\ RowsKept(k)
    BY <1>1, <1>4, <2>1 DEF RowsInv
  <2>3. WholeRows(region[k], Len(scan[k].destination))
    BY <2>2 DEF RowsKept, RowsSoFar
  <2>4. region[k].num_cols = columns
    <3>1. n_max = Unlimited
      BY <1>1, <1>4 DEF IInv, FirstRowFound, Opened
    <3>2. region[k] = BatchRegion(file, nl, n_max, columns, num_threads, k - 1)
      BY <2>1, <3>1 DEF RowsInv
    <3>3. QED  BY <3>2 DEF BatchRegion, Region
  <2>5. QED  BY <2>3, <2>4 DEF WholeRows
<1>5. QED  BY <1>2, <1>3, <1>4

(* The calls of several threads are calls for lines that end with line      *)
(* feeds, when the file's do.                                               *)
LEMMA ThreadsReadLineFeeds ==
  ASSUME IInv, RowsInv, UnixOrWindows(file), num_threads > 1,
         NEW k \in 1 .. launched
  PROVE  LineFeedCall(file, region[k]) /\ region[k].file_offset = 0 /\ region[k].num_cols = columns
<1>1. /\ file \in File /\ nl \in Nat \X {"lf", "cr"} /\ num_threads \in Nat
      /\ launched \in 0 .. num_threads /\ columns \in Nat
  BY FilesType DEF IInv, TypeOK
<1>2. n_max = Unlimited /\ nl[1] < Len(file)
  <2>1. start \in Nat /\ start < Len(file) /\ Opened
    BY <1>1 DEF IInv, FirstRowFound, Opened, TypeOK, FileSize
  <2>2. nl = FindNewline(file, start)
    BY <2>1 DEF IInv, FirstRowFound
  <2>3. QED  BY <1>1, <2>1, <2>2, FindNewlineInFile DEF IInv, FirstRowFound
<1>3. region[k] = BatchRegion(file, nl, Unlimited, columns, num_threads, k - 1)
  BY <1>1, <1>2 DEF RowsInv
<1>4. LineFeedCall(file, region[k])
  <2>1. k - 1 \in 0 .. (num_threads - 1)
    BY <1>1
  <2>2. QED  BY <1>1, <1>2, <1>3, <2>1, BatchOfLineFeeds
<1>5. region[k].file_offset = 0 /\ region[k].num_cols = columns
  BY <1>3 DEF BatchRegion, Region
<1>6. QED  BY <1>4, <1>5

(* An iteration of a thread keeps its rows whole.                           *)
LEMMA IndexBatchKeepsRows ==
  ASSUME IInv, RowsInv, SkipEmptyRows, ~EscapeBackslash, UnixOrWindows(file),
         NEW k \in Threads, IndexBatch(k)
  PROVE  RowsInv'
<1>1. /\ k \in 1 .. launched /\ Running(k)
      /\ scan' = [scan EXCEPT ![k] = IndexStep(file, region[k], scan[k])]
      /\ UNCHANGED <<file, n_max, nl, pc, num_threads, region, launched, joined, columns>>
  <2>1. k <= launched /\ launched \in Nat /\ k \in Nat /\ k > 0
    BY DEF IndexBatch, Threads, IInv, TypeOK
  <2>2. QED  BY <2>1 DEF IndexBatch, Iterate
<1>2. /\ file \in File /\ nl \in Nat \X {"lf", "cr"} /\ num_threads \in Nat
      /\ launched \in 0 .. num_threads /\ joined \in 0 .. launched /\ columns \in Nat
      /\ scan \in [0 .. num_threads -> LocalsType] /\ scan[k] \in LocalsType
  <2>1. /\ file \in File /\ nl \in Nat \X {"lf", "cr"} /\ num_threads \in Nat
        /\ launched \in 0 .. num_threads /\ joined \in 0 .. launched /\ columns \in Nat
        /\ scan \in [0 .. num_threads -> LocalsType]
    BY FilesType DEF IInv, TypeOK
  <2>2. k \in 0 .. num_threads
    BY <2>1 DEF Threads
  <2>3. QED  BY <2>1, <2>2
<1>3. \A j \in 0 .. num_threads : j # k => scan'[j] = scan[j]
  BY <1>1, <1>2
<1>4. k \notin 1 .. joined
  BY <1>1 DEF RowsInv, Running
<1>5. ASSUME num_threads > 1, NEW j \in 1 .. launched
      PROVE  RowsKept(j)'
  <2>1. RowsKept(j)
    BY <1>5 DEF RowsInv
  <2>2. CASE j # k
    <3>1. scan'[j] = scan[j] /\ region'[j] = region[j]
      BY <1>1, <1>2, <1>3, <2>2
    <3>2. QED  BY <2>1, <3>1 DEF RowsKept
  <2>3. CASE j = k
    <3>1. LineFeedCall(file, region[k])
      BY <1>1, <1>5, ThreadsReadLineFeeds
    <3>2. scan[k].out = "running" /\ RowsSoFar(region[k], scan[k])
      BY <1>1, <2>1, <2>3 DEF RowsKept, Running
    <3>3. scan'[k] = IndexStep(file, region[k], scan[k])
      BY <1>1, <1>2
    <3>4. QED  BY <1>1, <1>2, <2>3, <3>1, <3>2, <3>3, StepKeepsRows DEF RowsKept
  <2>4. QED  BY <2>2, <2>3
<1>6. \A j \in (launched + 1) .. num_threads : scan'[j] = Idle
  BY <1>1, <1>2, <1>3 DEF RowsInv
<1>7. \A j \in 1 .. joined : scan'[j].out \in {"end", "n_max"}
  BY <1>2, <1>3, <1>4 DEF RowsInv
<1>8. QED  BY <1>1, <1>5, <1>6, <1>7 DEF RowsInv

(* The start of a thread. *)
LEMMA LaunchKeepsRows ==
  ASSUME IInv, RowsInv, Launch
  PROVE  RowsInv'
<1> DEFINE p == IF n_max # Unlimited
                THEN RestRegion(nl, n_max, scan[0].lines_read, columns, FileSize)
                ELSE BatchRegion(file, nl, n_max, columns, num_threads, launched)
           r == IF n_max # Unlimited THEN Enter(p, scan[0].state, scan[0].cols, <<>>)
                ELSE Enter(p, "RECORD_START", 0, <<>>)
<1>1. /\ pc = "launch" /\ launched < num_threads
      /\ region' = [region EXCEPT ![launched + 1] = p]
      /\ scan' = [scan EXCEPT ![launched + 1] = r]
      /\ launched' = launched + 1
      /\ UNCHANGED <<file, n_max, nl, pc, num_threads, joined, columns>>
  BY DEF Launch
<1>2. /\ num_threads \in Nat /\ launched \in Nat /\ joined \in 0 .. launched
      /\ scan \in [0 .. num_threads -> LocalsType]
      /\ region \in [0 .. num_threads -> CallType]
  BY DEF IInv, TypeOK
<1>3. launched + 1 \in 1 .. num_threads
  BY <1>1, <1>2
<1>4. /\ \A k \in 0 .. num_threads : scan'[k] = IF k = launched + 1 THEN r ELSE scan[k]
      /\ \A k \in 0 .. num_threads : region'[k] = IF k = launched + 1 THEN p ELSE region[k]
  BY <1>1, <1>2
<1>5. ASSUME n_max = Unlimited, NEW k \in 1 .. (launched + 1)
      PROVE  region'[k] = BatchRegion(file, nl, n_max, columns, num_threads, k - 1)
  <2>1. CASE k = launched + 1
    <3>1. region'[k] = p /\ k - 1 = launched
      BY <1>2, <1>3, <1>4, <2>1
    <3>2. QED  BY <1>5, <3>1
  <2>2. CASE k # launched + 1
    <3>1. k \in 1 .. launched /\ k \in 0 .. num_threads
      BY <1>2, <1>3, <2>2
    <3>2. QED  BY <1>4, <1>5, <2>2, <3>1 DEF RowsInv
  <2>3. QED  BY <2>1, <2>2
<1>6. ASSUME num_threads > 1, NEW k \in 1 .. (launched + 1)
      PROVE  RowsKept(k)'
  <2>1. n_max = Unlimited
    BY <1>1, <1>6 DEF IInv, FirstRowFound, Opened
  <2>2. CASE k = launched + 1
    <3>1. p = BatchRegion(file, nl, n_max, columns, num_threads, launched)
          /\ r = Enter(p, "RECORD_START", 0, <<>>)
      BY <2>1
    <3>2. /\ r.out = "running" /\ r.state = "RECORD_START" /\ r.cols = 0 /\ r.pos = p.start
          /\ r.destination = <<>>
      BY <3>1 DEF Enter
    <3>3. region'[k] = p /\ scan'[k] = r
      BY <1>3, <1>4, <2>2
    <3>4. p \in CallType /\ p.start <= p.end
      <4>1. start \in Nat /\ start < Len(file) /\ nl = FindNewline(file, start) /\ file \in File
        BY <1>1, FilesType DEF IInv, FirstRowFound, Opened, TypeOK, FileSize
      <4>2. nl \in Nat \X {"lf", "cr"} /\ nl[1] < Len(file)
        BY <4>1, FindNewlineInFile
      <4>3. num_threads \in Nat \ {0} /\ launched \in 0 .. (num_threads - 1) /\ columns \in Nat
            /\ Unlimited \in Limit
        BY <1>1, <1>2, <1>6 DEF IInv, TypeOK, Limit
      <4>4. BetweenCuts(BatchRegion(file, nl, Unlimited, columns, num_threads, launched),
                        file, nl[1], num_threads, launched)
        BY <4>1, <4>2, <4>3, BatchRegionCut
      <4>5. QED  BY <2>1, <3>1, <4>4 DEF BetweenCuts
    <3> HIDE DEF p, r
    <3>5. WholeRows(p, Len(r.destination))
      <4>1. p.num_cols + 1 \in Nat \ {0}
        BY <3>4, CallFields
      <4>2. \A d \in Nat \ {0} : 0 % d = 0
        OBVIOUS
      <4>3. QED  BY <3>2, <4>1, <4>2 DEF WholeRows
    <3>6. p.start <= p.start
      BY <3>4, CallFields
    <3>7. RowsSoFar(p, r)
      BY <3>2, <3>4, <3>5, <3>6 DEF RowsSoFar
    <3>8. QED  BY <3>2, <3>3, <3>7 DEF RowsKept
  <2>3. CASE k # launched + 1
    <3>1. k \in 1 .. launched /\ k \in 0 .. num_threads
      BY <1>2, <1>3, <2>3
    <3>2. RowsKept(k) /\ scan'[k] = scan[k] /\ region'[k] = region[k]
      BY <1>4, <1>6, <2>3, <3>1 DEF RowsInv
    <3>3. QED  BY <3>2 DEF RowsKept
  <2>4. QED  BY <2>2, <2>3
<1>7. \A k \in (launched + 2) .. num_threads : scan'[k] = Idle
  BY <1>2, <1>4 DEF RowsInv
<1>8. \A k \in 1 .. joined : scan'[k].out \in {"end", "n_max"}
  BY <1>2, <1>3, <1>4 DEF RowsInv
<1>9. launched' + 1 = launched + 2
  BY <1>1, <1>2
<1> HIDE DEF p, r
<1>10. QED  BY <1>1, <1>5, <1>6, <1>7, <1>8, <1>9 DEF RowsInv

(* No thread has been started at first.                                     *)
LEMMA InitRowsInv == Init => RowsInv
BY DEF Init, RowsInv

(* No other action touches the calls of the threads, but for the ones that  *)
(* drop all of them.                                                        *)
LEMMA NextRowsInv ==
  ASSUME SkipEmptyRows, ~EscapeBackslash, \A f \in Files : UnixOrWindows(f)
  PROVE  IInv /\ RowsInv /\ [Next]_vars => RowsInv'
<1> SUFFICES ASSUME IInv, RowsInv, [Next]_vars PROVE RowsInv'
  OBVIOUS
<1>1. /\ UnixOrWindows(file) /\ num_threads \in Nat /\ launched \in 0 .. num_threads
      /\ joined \in 0 .. launched
  BY DEF IInv, TypeOK
<1>2. ASSUME NEW threads \in 1 .. NumThreads, NEW to, StartIndexing(threads, to)
      PROVE  RowsInv'
  <2>1. /\ num_threads' = threads /\ launched' = 0 /\ joined' = 0 /\ pc' = "first_row"
        /\ \A k \in 1 .. threads : scan'[k] = Idle
    BY <1>2 DEF StartIndexing
  <2>2. \A k \in (launched' + 1) .. num_threads' : scan'[k] = Idle
    BY <2>1
  <2>3. QED  BY <2>1, <2>2 DEF RowsInv
<1>3. CASE Open
  <2> DEFINE line == FindNewline(file, nl'[1] + 1)[1] - nl'[1]
             few  == FileSize \div num_threads < line * LinesPerBatch
  <2>1. StartIndexing(IF n_max # Unlimited \/ few THEN 1 ELSE num_threads, nl')
    BY <1>3 DEF Open
  <2>2. 1 \in 1 .. NumThreads /\ num_threads \in 1 .. NumThreads
    BY IndexAssumption DEF IInv, TypeOK
  <2> HIDE DEF few
  <2>3. CASE n_max # Unlimited \/ few
    BY <1>2, <2>1, <2>2, <2>3
  <2>4. CASE ~(n_max # Unlimited \/ few)
    BY <1>2, <2>1, <2>2, <2>4
  <2>5. QED  BY <2>3, <2>4
<1>4. CASE Restart
  <2>1. 1 \in 1 .. NumThreads
    BY IndexAssumption
  <2>2. QED  BY <1>2, <1>4, <2>1 DEF Restart
<1>5. CASE IndexFirstRow
  <2>1. /\ UNCHANGED <<file, n_max, nl, pc, num_threads, region, launched, joined, columns>>
        /\ scan' = [scan EXCEPT ![0] = IndexStep(file, region[0], scan[0])]
    BY <1>5 DEF IndexFirstRow, Iterate
  <2>2. \A k \in 1 .. num_threads : scan'[k] = scan[k]
    BY <2>1 DEF IInv, TypeOK
  <2>3. \A k \in 1 .. launched : RowsKept(k)' = RowsKept(k)
    BY <1>1, <2>1, <2>2 DEF RowsKept
  <2>4. QED  BY <1>1, <2>1, <2>2, <2>3 DEF RowsInv
<1>6. CASE CountColumns
  <2>1. /\ UNCHANGED <<file, n_max, nl, num_threads, region, scan, launched, joined>>
        /\ pc = "first_row" /\ pc' = "launch"
    BY <1>6 DEF CountColumns
  <2>2. launched = 0 /\ joined = 0
    BY <1>1, <2>1 DEF IInv, LaunchOrder
  <2>3. QED  BY <2>1, <2>2 DEF RowsInv
<1>7. CASE Launch
  BY <1>7, LaunchKeepsRows
<1>8. CASE \E k \in Threads : IndexBatch(k)
  BY <1>1, <1>8, IndexBatchKeepsRows
<1>9. CASE Join
  <2>1. /\ UNCHANGED <<file, n_max, nl, pc, num_threads, region, scan, launched, columns>>
        /\ joined' = joined + 1 /\ pc = "join" /\ scan[joined + 1].out \in {"end", "n_max"}
    BY <1>9 DEF Join
  <2>2. \A k \in 1 .. joined' : scan[k].out \in {"end", "n_max"}
    BY <1>1, <2>1 DEF RowsInv
  <2>3. \A k \in 1 .. launched : RowsKept(k)' = RowsKept(k)
    BY <2>1 DEF RowsKept
  <2>4. QED  BY <2>1, <2>2, <2>3 DEF RowsInv
<1>10. ASSUME UNCHANGED <<file, n_max, nl, num_threads, region, scan, launched, joined,
                          columns>>,
              pc' = "done" => pc = "done" \/ joined = num_threads \/ pc = "open"
       PROVE  RowsInv'
  <2>1. pc = "open" => launched = 0
    BY DEF IInv, LaunchOrder
  <2>2. \A k \in 1 .. launched : RowsKept(k)' = RowsKept(k)
    BY <1>10 DEF RowsKept
  <2>3. QED  BY <1>10, <2>1, <2>2 DEF RowsInv
<1>11. CASE SkipLine
  BY <1>10, <1>11 DEF SkipLine
<1>12. CASE OpenEmpty
  BY <1>10, <1>12 DEF OpenEmpty
<1>13. CASE Launched \/ Display \/ WakeUp
  <2>1. pc' # "done"
    BY <1>13 DEF Launched, Display, WakeUp
  <2>2. QED  BY <1>10, <1>13, <2>1 DEF Launched, Display, WakeUp
<1>14. CASE Throw \/ CountRows
  BY <1>10, <1>14 DEF Throw, CountRows
<1>15. CASE Done \/ UNCHANGED vars
  BY <1>10, <1>15 DEF Done, vars
<1>16. QED
  BY <1>3, <1>4, <1>5, <1>6, <1>7, <1>8, <1>9, <1>11, <1>12, <1>13, <1>14, <1>15
  DEF Next, Main

(* When empty rows are skipped, no backslash escapes and lines end as on    *)
(* Unix or Windows, every thread's part of idx_ consists of whole rows, for *)
(* every file, ragged ones and ones with comments included, and however     *)
(* many threads there are.  What the main thread adds up is then a number   *)
(* of rows.                                                                 *)
THEOREM RowsAlwaysWhole ==
  ASSUME SkipEmptyRows, ~EscapeBackslash, \A f \in Files : UnixOrWindows(f)
  PROVE  Spec => []RowsAreWhole
<1>1. Init => IInv /\ RowsInv
  BY InitIInv, InitRowsInv
<1>2. IInv /\ RowsInv /\ [Next]_vars => (IInv /\ RowsInv)'
  BY NextIInv, NextRowsInv
<1>3. IInv /\ RowsInv => RowsAreWhole
  BY RowsInvWhole
<1>4. QED  BY <1>1, <1>2, <1>3, PTL DEF Spec

----------------------------------------------------------------------------
(* Newlines within fields.  Under the same conditions a thread passes none: *)
(* the constructor starts over with one thread.  Only the first row, which  *)
(* is indexed before there are threads, may have some, where the search for *)
(* its end and index_region do not agree on what is quoted (README.md).     *)

FieldsKept(k) ==
  scan[k].out = "newline_error" \/ FieldsSoFar(file, region[k], scan[k])

(* The first call pushes positions of the first row. *)
FirstRowKept ==
  IF Opened
  THEN /\ region[0].file_offset = 0 /\ start <= scan[0].pos
       /\ scan[0].destination \in Seq(start .. nl[1])
  ELSE scan[0].destination = <<>>

FieldsInv ==
  /\ num_threads > 1 /\ columns > 0 => \A k \in 1 .. launched : FieldsKept(k)
  /\ FirstRowKept

(* What the search for the end of the first row finds is the first line     *)
(* feed after its start.                                                    *)
FirstRowIsOneLine == \A q \in start .. (nl[1] - 1) : At(file, q) # "lf"

(* A thread's fields have no line feed, nor have those of the first row if  *)
(* it is a line.                                                            *)
LEMMA FieldsInvHolds ==
  ASSUME IInv, RowsInv, FieldsInv, UnixOrWindows(file), FirstRowIsOneLine
  PROVE  FieldNewlinesForceOneThread
<1> SUFFICES ASSUME pc = "done", num_threads > 1,
                    NEW k \in 0 .. num_threads,
                    NEW i \in 1 .. (Len(scan[k].destination) - 1),
                    i % (columns + 1) # 0,
                    NEW q \in (scan[k].destination[i] + 1) .. (scan[k].destination[i + 1] - 1)
             PROVE  \/ At(file, q) \notin {"lf", "cr"}
                    \/ At(file, q) = "cr" /\ At(file, q + 1) = "lf"
  BY DEF FieldNewlinesForceOneThread
<1>1. /\ file \in File /\ num_threads \in Nat /\ launched \in Nat /\ joined \in 0 .. launched
      /\ launched <= num_threads /\ columns \in Nat /\ start \in Nat
      /\ scan[k] \in LocalsType /\ nl \in Nat \X {"lf", "cr"}
  BY FilesType DEF IInv, TypeOK
<1>2. /\ Len(scan[k].destination) \in Nat /\ i \in 1 .. Len(scan[k].destination)
      /\ i + 1 \in 1 .. Len(scan[k].destination) /\ i \in Nat
      /\ scan[k].destination[i] \in Nat /\ scan[k].destination[i + 1] \in Nat
  <2> DEFINE d == scan[k].destination
  <2>1. d \in Seq(Nat)
    BY <1>1, LocalsFields
  <2> HIDE DEF d
  <2>2. Len(d) \in Nat /\ i \in 1 .. (Len(d) - 1)
    BY <2>1 DEF d
  <2>3. i \in 1 .. Len(d) /\ i + 1 \in 1 .. Len(d) /\ i \in Nat
    BY <2>2
  <2>4. d[i] \in Nat /\ d[i + 1] \in Nat
    BY <2>1, <2>3
  <2>5. QED  BY <2>2, <2>3, <2>4 DEF d
<1>3. At(file, q) # "lf"
  <2>1. CASE k = 0
    <3>1. CASE Opened
      <4>1. scan[0].destination \in Seq(start .. nl[1])
        BY <3>1 DEF FieldsInv, FirstRowKept
      <4>2. /\ scan[0].destination[i] \in start .. nl[1]
            /\ scan[0].destination[i + 1] \in start .. nl[1]
        <5>1. \A S : \A s \in Seq(S) : \A j \in 1 .. Len(s) : s[j] \in S
          OBVIOUS
        <5>2. QED  BY <1>2, <2>1, <4>1, <5>1
      <4>3. q \in start .. (nl[1] - 1)
        <5>1. PICK a, b \in start .. nl[1] :
                /\ a = scan[k].destination[i] /\ b = scan[k].destination[i + 1]
          BY <2>1, <4>2
        <5>2. q \in (a + 1) .. (b - 1) /\ start \in Nat /\ nl[1] \in Nat
          BY <1>1, <5>1
        <5>3. QED  BY <5>2
      <4>4. QED  BY <4>3 DEF FirstRowIsOneLine
    <3>2. CASE ~Opened
      <4>1. Len(scan[0].destination) = 0
        BY <3>2 DEF FieldsInv, FirstRowKept
      <4>2. QED  BY <1>2, <2>1, <4>1
    <3>3. QED  BY <3>1, <3>2
  <2>2. CASE k # 0
    <3>1. k \in 1 .. num_threads
      BY <1>1, <2>2
    <3>2. columns > 0
      <4>1. \A n \in Nat : n % 1 = 0
        OBVIOUS
      <4>2. columns = 0 => i % (columns + 1) = i % 1
        OBVIOUS
      <4>3. QED  BY <1>1, <1>2, <4>1, <4>2
    <3>3. launched = num_threads /\ joined = num_threads
      <4>1. launched = 0 => scan[k] = Idle
        BY <1>1, <3>1 DEF RowsInv
      <4>2. Idle.destination = <<>>
        BY DEF Idle, Enter
      <4>3. launched # 0
        BY <1>2, <4>1, <4>2
      <4>4. QED  BY <1>1, <4>3 DEF RowsInv
    <3>4. scan[k].out # "newline_error" /\ FieldsSoFar(file, region[k], scan[k])
      <4>1. scan[k].out \in {"end", "n_max"}
        BY <3>1, <3>3 DEF RowsInv
      <4>2. FieldsKept(k)
        BY <3>1, <3>2, <3>3 DEF FieldsInv
      <4>3. QED  BY <4>1, <4>2 DEF FieldsKept
    <3>5. region[k].num_cols = columns
      <4>1. n_max = Unlimited
        BY <1>1, <3>3 DEF IInv, FirstRowFound, Opened
      <4>2. region[k] = BatchRegion(file, nl, n_max, columns, num_threads, k - 1)
        BY <3>1, <3>3, <4>1 DEF RowsInv
      <4>3. QED  BY <4>2 DEF BatchRegion, Region
    <3>6. NoLineFeed(file, scan[k].destination[i] + 1, scan[k].destination[i + 1] - 1)
      BY <3>4, <3>5 DEF FieldsSoFar, Fields
    <3>7. QED  BY <3>6 DEF NoLineFeed
  <2>3. QED  BY <2>1, <2>2
<1>4. At(file, q) = "cr" => At(file, q + 1) = "lf"
  <2>1. q \in Nat /\ Len(file) \in Nat
    <3>1. Len(file) \in Nat
      BY <1>1 DEF File
    <3>2. PICK a, b \in Nat : a = scan[k].destination[i] /\ b = scan[k].destination[i + 1]
      BY <1>2
    <3>3. q \in (a + 1) .. (b - 1)
      BY <3>2
    <3>4. q \in Nat
      BY <3>3
    <3>5. QED  BY <3>1, <3>4
  <2>2. At(file, q) = "cr" => q \in 0 .. (Len(file) - 1)
    BY <2>1 DEF At
  <2>3. QED  BY <2>2 DEF UnixOrWindows
<1>5. QED  BY <1>3, <1>4

(* An iteration of a thread passes no newline in a field. *)
LEMMA IndexBatchKeepsFields ==
  ASSUME IInv, RowsInv, FieldsInv, SkipEmptyRows, ~EscapeBackslash, UnixOrWindows(file),
         NEW k \in Threads, IndexBatch(k)
  PROVE  FieldsInv'
<1>1. /\ k \in 1 .. launched /\ Running(k)
      /\ scan' = [scan EXCEPT ![k] = IndexStep(file, region[k], scan[k])]
      /\ UNCHANGED <<file, n_max, start, nl, pc, num_threads, region, launched, joined,
                     columns>>
  <2>1. k <= launched /\ launched \in Nat /\ k \in Nat /\ k > 0
    BY DEF IndexBatch, Threads, IInv, TypeOK
  <2>2. QED  BY <2>1 DEF IndexBatch, Iterate
<1>2. /\ file \in File /\ num_threads \in Nat /\ launched \in 0 .. num_threads
      /\ columns \in Nat /\ scan \in [0 .. num_threads -> LocalsType]
      /\ k \in 0 .. num_threads
  BY FilesType DEF IInv, TypeOK, Threads
<1>3. \A j \in 0 .. num_threads :
        scan'[j] = IF j = k THEN IndexStep(file, region[k], scan[k]) ELSE scan[j]
  BY <1>1, <1>2
<1>4. ASSUME num_threads > 1, columns > 0, NEW j \in 1 .. launched
      PROVE  FieldsKept(j)'
  <2>1. FieldsKept(j) /\ RowsKept(j)
    BY <1>4 DEF FieldsInv, RowsInv
  <2>2. CASE j # k
    <3>1. scan'[j] = scan[j] /\ region'[j] = region[j] /\ file' = file
      BY <1>1, <1>2, <1>3, <2>2
    <3>2. QED  BY <2>1, <3>1 DEF FieldsKept
  <2>3. CASE j = k
    <3>1. /\ LineFeedCall(file, region[k]) /\ region[k].file_offset = 0
          /\ region[k].num_cols > 0
      BY <1>1, <1>4, ThreadsReadLineFeeds
    <3>2. /\ scan[k].out = "running" /\ RowsSoFar(region[k], scan[k])
          /\ FieldsSoFar(file, region[k], scan[k]) /\ scan[k] \in LocalsType
      BY <1>1, <1>2, <2>1, <2>3 DEF RowsKept, FieldsKept, Running
    <3>3. scan'[k] = IndexStep(file, region[k], scan[k]) /\ file' = file /\ region' = region
      BY <1>1, <1>2, <1>3
    <3>4. QED  BY <1>2, <2>3, <3>1, <3>2, <3>3, StepPassesNoLineFeed DEF FieldsKept
  <2>4. QED  BY <2>2, <2>3
<1>5. scan'[0] = scan[0] /\ Opened' = Opened
  BY <1>1, <1>2, <1>3 DEF Opened
<1>6. FirstRowKept'
  BY <1>1, <1>5 DEF FieldsInv, FirstRowKept
<1>7. QED  BY <1>1, <1>4, <1>6 DEF FieldsInv

(* The start of a thread. *)
LEMMA LaunchKeepsFields ==
  ASSUME IInv, FieldsInv, Launch
  PROVE  FieldsInv'
<1> DEFINE p == BatchRegion(file, nl, n_max, columns, num_threads, launched)
<1>1. /\ pc = "launch" /\ launched < num_threads
      /\ launched' = launched + 1
      /\ UNCHANGED <<file, n_max, start, nl, pc, num_threads, joined, columns>>
  BY DEF Launch
<1>2. /\ num_threads \in Nat /\ launched \in Nat
      /\ scan \in [0 .. num_threads -> LocalsType]
      /\ region \in [0 .. num_threads -> CallType]
  BY DEF IInv, TypeOK
<1>3. \A k \in 0 .. num_threads :
        k # launched + 1 => scan'[k] = scan[k] /\ region'[k] = region[k]
  BY <1>2 DEF Launch
<1>4. ASSUME num_threads > 1, columns > 0, NEW k \in 1 .. (launched + 1)
      PROVE  FieldsKept(k)'
  <2>1. n_max = Unlimited
    BY <1>1, <1>4 DEF IInv, FirstRowFound, Opened
  <2>2. CASE k = launched + 1
    <3>1. scan'[k] = Enter(p, "RECORD_START", 0, <<>>)
      BY <1>1, <1>2, <2>1, <2>2 DEF Launch
    <3>2. scan'[k].state = "RECORD_START" /\ scan'[k].destination = <<>>
      BY <3>1 DEF Enter
    <3>3. FieldsSoFar(file', region'[k], scan'[k])
      BY <3>2 DEF FieldsSoFar, Fields
    <3>4. QED  BY <3>3 DEF FieldsKept
  <2>3. CASE k # launched + 1
    <3>1. k \in 1 .. launched /\ k \in 0 .. num_threads
      BY <1>1, <1>2, <2>3
    <3>2. FieldsKept(k) /\ scan'[k] = scan[k] /\ region'[k] = region[k] /\ file' = file
      BY <1>1, <1>3, <1>4, <2>3, <3>1 DEF FieldsInv
    <3>3. QED  BY <3>2 DEF FieldsKept
  <2>4. QED  BY <2>2, <2>3
<1>5. scan'[0] = scan[0] /\ region'[0] = region[0] /\ Opened /\ Opened'
  BY <1>1, <1>2, <1>3 DEF Opened
<1>6. FirstRowKept'
  BY <1>1, <1>5 DEF FieldsInv, FirstRowKept
<1>7. QED  BY <1>1, <1>4, <1>6 DEF FieldsInv

(* An iteration for the first row. *)
LEMMA IndexFirstRowKeepsFields ==
  ASSUME IInv, FieldsInv, ~EscapeBackslash, IndexFirstRow
  PROVE  FieldsInv'
<1> DEFINE p == region[0]
           r == scan[0]
           s == IndexStep(file, p, r)
<1>1. /\ UNCHANGED <<file, n_max, start, nl, pc, num_threads, region, launched, columns>>
      /\ scan' = [scan EXCEPT ![0] = s] /\ pc = "first_row"
  BY DEF IndexFirstRow, Iterate
<1>2. /\ file \in File /\ num_threads \in Nat /\ launched \in Nat /\ start \in Nat
      /\ nl \in Nat \X {"lf", "cr"} /\ p \in CallType /\ r \in LocalsType
      /\ scan \in [0 .. num_threads -> LocalsType]
  BY FilesType DEF IInv, TypeOK
<1>3. launched = 0 /\ Opened /\ Opened'
  BY <1>1 DEF IInv, LaunchOrder, Opened
<1>4. /\ p.end = nl[1] + 1 /\ p.end <= Len(file) /\ p.file_offset = 0 /\ start <= r.pos
      /\ r.destination \in Seq(start .. nl[1])
  BY <1>2, <1>3 DEF IInv, FirstRowFound, CallsInFile, FileSize, FieldsInv, FirstRowKept
<1>5. r.pos \in Nat /\ (r.pos < p.end => r.pos + p.file_offset \in start .. nl[1])
  <2>1. r.pos \in Nat
    BY <1>2, LocalsFields
  <2>2. QED  BY <1>2, <1>4, <2>1
<1>6. s.destination \in Seq(start .. nl[1])
  BY <1>2, <1>4, <1>5, StepPushes
<1>7. r.pos <= s.pos /\ s.pos \in Nat
  <2>1. Len(file) \in Nat
    BY <1>2 DEF File
  <2>2. r.last_tick <= p.end
    BY <1>2 DEF IInv, CallsInFile, IndexFirstRow, Iterate
  <2>3. s \in LocalsType
    BY <1>2, <1>4, <2>1, <2>2, IndexStepType DEF After
  <2>4. QED  BY <1>2, <1>4, <2>1, <2>3, StepGoesForward, LocalsFields
<1> HIDE DEF s
<1>8. start <= s.pos
  BY <1>2, <1>4, <1>5, <1>7
<1>9. scan'[0] = s
  BY <1>1, <1>2
<1>10. FirstRowKept'
  BY <1>1, <1>3, <1>4, <1>6, <1>8, <1>9 DEF FirstRowKept
<1>11. QED  BY <1>1, <1>3, <1>10 DEF FieldsInv

(* There is nothing at first. *)
LEMMA InitFieldsInv == Init => FieldsInv
<1> SUFFICES ASSUME Init PROVE FieldsInv
  OBVIOUS
<1>1. launched = 0 /\ pc = "open" /\ scan[0] = Idle
  BY IndexAssumption DEF Init
<1>2. Idle.destination = <<>>
  BY DEF Idle, Enter
<1>3. QED  BY <1>1, <1>2 DEF FieldsInv, FirstRowKept, Opened

(* The other actions start all over or leave the calls alone. *)
LEMMA NextFieldsInv ==
  ASSUME SkipEmptyRows, ~EscapeBackslash, \A f \in Files : UnixOrWindows(f)
  PROVE  IInv /\ RowsInv /\ FieldsInv /\ [Next]_vars => FieldsInv'
<1> SUFFICES ASSUME IInv, RowsInv, FieldsInv, [Next]_vars PROVE FieldsInv'
  OBVIOUS
<1>1. /\ UnixOrWindows(file) /\ num_threads \in Nat /\ launched \in 0 .. num_threads
      /\ start \in Nat /\ nl \in Nat \X {"lf", "cr"}
  BY DEF IInv, TypeOK
<1>2. ASSUME NEW threads \in 1 .. NumThreads, NEW to, StartIndexing(threads, to),
             start' = start
      PROVE  FieldsInv'
  <2>1. /\ launched' = 0 /\ pc' = "first_row"
        /\ region'[0] = FirstRegion(start, to, n_max, threads, FileSize)
        /\ scan'[0] = Enter(region'[0], "RECORD_START", 0, <<>>)
    BY <1>2 DEF StartIndexing
  <2>2. /\ region'[0].file_offset = 0 /\ region'[0].start = start
    BY <2>1 DEF FirstRegion, Region
  <2>3. scan'[0].pos = start /\ scan'[0].destination = <<>>
    BY <2>1, <2>2 DEF Enter
  <2>4. start <= start /\ <<>> \in Seq(start .. nl'[1])
    BY <1>1
  <2>5. FirstRowKept'
    BY <1>2, <2>1, <2>2, <2>3, <2>4 DEF FirstRowKept, Opened
  <2>6. QED  BY <2>1, <2>5 DEF FieldsInv
<1>3. CASE Open
  <2> DEFINE line == FindNewline(file, nl'[1] + 1)[1] - nl'[1]
             few  == FileSize \div num_threads < line * LinesPerBatch
  <2>1. /\ StartIndexing(IF n_max # Unlimited \/ few THEN 1 ELSE num_threads, nl')
        /\ start' = start
    BY <1>3 DEF Open
  <2>2. 1 \in 1 .. NumThreads /\ num_threads \in 1 .. NumThreads
    BY IndexAssumption DEF IInv, TypeOK
  <2> HIDE DEF few
  <2>3. CASE n_max # Unlimited \/ few
    BY <1>2, <2>1, <2>2, <2>3
  <2>4. CASE ~(n_max # Unlimited \/ few)
    BY <1>2, <2>1, <2>2, <2>4
  <2>5. QED  BY <2>3, <2>4
<1>4. CASE Restart
  <2>1. 1 \in 1 .. NumThreads
    BY IndexAssumption
  <2>2. QED  BY <1>2, <1>4, <2>1 DEF Restart
<1>5. CASE CountColumns
  <2>1. /\ UNCHANGED <<file, start, nl, num_threads, region, scan, launched>>
        /\ pc = "first_row" /\ pc' = "launch"
    BY <1>5 DEF CountColumns
  <2>2. launched = 0 /\ Opened /\ Opened'
    BY <2>1 DEF IInv, LaunchOrder, Opened
  <2>3. QED  BY <2>1, <2>2 DEF FieldsInv, FirstRowKept
<1>6. CASE \E k \in Threads : IndexBatch(k)
  BY <1>1, <1>6, IndexBatchKeepsFields
<1>7. ASSUME UNCHANGED <<file, num_threads, region, scan, launched, columns>>,
             Opened' = Opened, Opened => UNCHANGED <<start, nl>>
      PROVE  FieldsInv'
  <2>1. \A k \in 1 .. launched : FieldsKept(k)' = FieldsKept(k)
    BY <1>7 DEF FieldsKept
  <2>2. FirstRowKept'
    BY <1>7 DEF FieldsInv, FirstRowKept
  <2>3. QED  BY <1>7, <2>1, <2>2 DEF FieldsInv
<1>8. CASE SkipLine \/ OpenEmpty
  <2>1. pc = "open" /\ pc' \in {"open", "done"} /\ launched = 0
    BY <1>8 DEF SkipLine, OpenEmpty, IInv, LaunchOrder
  <2>2. QED  BY <1>7, <1>8, <2>1 DEF SkipLine, OpenEmpty, Opened
<1>9. CASE Launched \/ Display \/ WakeUp \/ Join \/ Throw
  <2>1. /\ pc \notin {"open", "done"} /\ pc' \notin {"open", "done"}
        /\ UNCHANGED <<file, start, nl, num_threads, region, scan, launched, columns>>
    BY <1>9 DEF Launched, Display, WakeUp, Join, Throw
  <2>2. QED  BY <1>7, <2>1 DEF Opened
<1>10. CASE CountRows
  <2>1. pc = "join" /\ launched > 0
    <3>1. num_threads > 0
      BY DEF IInv, TypeOK
    <3>2. QED  BY <1>1, <1>10, <3>1 DEF CountRows, IInv, LaunchOrder
  <2>2. QED  BY <1>7, <1>10, <2>1 DEF CountRows, Opened
<1>11. CASE Done \/ UNCHANGED vars
  BY <1>7, <1>11 DEF Done, vars, Opened
<1>12. QED
  BY <1>3, <1>4, <1>5, <1>6, <1>8, <1>9, <1>10, <1>11, IndexFirstRowKeepsFields,
     LaunchKeepsFields
  DEF Next, Main

(* When empty rows are skipped, no backslash escapes and lines end as on    *)
(* Unix or Windows, what the threads take for fields has no newline: for    *)
(* every file and every interleaving of the threads, one with a newline in  *)
(* a quoted field is indexed by one thread in the end, or the newline       *)
(* belongs to a first row of several lines.                                 *)
THEOREM FieldNewlinesAlwaysForceOneThread ==
  ASSUME SkipEmptyRows, ~EscapeBackslash, \A f \in Files : UnixOrWindows(f)
  PROVE  Spec => [](FirstRowIsOneLine => FieldNewlinesForceOneThread)
<1>1. Init => IInv /\ RowsInv /\ FieldsInv
  BY InitIInv, InitRowsInv, InitFieldsInv
<1>2. IInv /\ RowsInv /\ FieldsInv /\ [Next]_vars => (IInv /\ RowsInv /\ FieldsInv)'
  BY NextIInv, NextRowsInv, NextFieldsInv
<1>3. IInv /\ RowsInv /\ FieldsInv => (FirstRowIsOneLine => FieldNewlinesForceOneThread)
  <2>1. IInv => UnixOrWindows(file)
    BY DEF IInv, TypeOK
  <2>2. QED  BY <2>1, FieldsInvHolds
<1>4. QED  BY <1>1, <1>2, <1>3, PTL DEF Spec

----------------------------------------------------------------------------
(* One thread.  Its calls are those of the reference, turn by turn, and so  *)
(* is what it returns.                                                      *)

(* The reference's calls for the first row and for the rest, and what they  *)
(* come to.                                                                 *)
HeadCall == FirstRegion(start, nl, n_max, 1, FileSize)

HeadEntry == Enter(HeadCall, "RECORD_START", 0, <<>>)

HeadEnd == RunRegion(file, HeadCall, HeadEntry)

Columns == ColumnsOf(HeadEnd.locals)

RestCall ==
  IF n_max # Unlimited THEN RestRegion(nl, n_max, HeadEnd.locals.lines_read, Columns, FileSize)
  ELSE BatchRegion(file, nl, n_max, Columns, 1, 0)

RestEntry ==
  IF n_max # Unlimited THEN Enter(RestCall, HeadEnd.locals.state, HeadEnd.locals.cols, <<>>)
  ELSE Enter(RestCall, "RECORD_START", 0, <<>>)

RestEnd == RunRegion(file, RestCall, RestEntry)

(* The first row has been indexed, and the attempt has not failed. *)
Past == pc \in {"launch", "display", "join"} \/ (pc = "done" /\ launched > 0)

(* Looking for the first line, the constructor is at one of the lines that  *)
(* find_first_line comes to; it then has the last one.                      *)
LinesSkipped ==
  IF pc = "open"
  THEN \E line \in Lines(file, Skip), n \in 0 .. FileSize :
         /\ FindFirstLine(file, Skip) = line[FileSize]
         /\ start = line[n] /\ n <= start
         /\ skip = IF n < Skip THEN Skip - n ELSE 0
  ELSE start = FindFirstLine(file, Skip)

(* Nothing has been found before that, nor is it if there is no first line. *)
NothingFound ==
  /\ pc = "open" \/ (pc = "done" /\ launched = 0) =>
       /\ errors = <<>> /\ columns = 0 /\ rows = 0
       /\ \A k \in 0 .. num_threads : scan[k].destination = <<>>
  /\ pc = "done" /\ launched = 0 => start >= FileSize - 1

(* However many threads there are to be, the call for the first row is the  *)
(* reference's until it gives up.                                           *)
HeadKept ==
  /\ pc = "first_row" =>
       /\ region[0] = FirstRegion(start, nl, n_max, num_threads, FileSize)
       /\ \/ scan[0].out = "newline_error"
          \/ Passes(file, HeadCall, HeadEntry, [locals |-> scan[0], errors |-> errors])
  /\ pc \in {"first_row", "unwind"} => columns \in {0, Columns}
  /\ Past => scan[0] = HeadEnd.locals /\ columns = Columns

(* A call comes by these locals, and adds its errors to what there were. *)
Reports(src, p, entry, before, locals, after) ==
  \E own \in Seq([position : Nat, column : Nat]) :
    /\ after = before \o own
    /\ Passes(src, p, entry, [locals |-> locals, errors |-> own])

(* One thread's call for the rest is the reference's, too. *)
RestKept ==
  Past /\ num_threads = 1 =>
    /\ launched = 0 => errors = HeadEnd.errors
    /\ launched = 1 =>
         /\ region[1] = RestCall
         /\ Reports(file, RestCall, RestEntry, HeadEnd.errors, scan[1], errors)

(* The constructor returns when the calls have ended. *)
EndedWell ==
  /\ \A k \in 1 .. joined : scan[k].out \in {"end", "n_max"}
  /\ pc = "done" /\ launched > 0 =>
       joined = num_threads /\ launched = num_threads /\ rows = RowsOf(IdxSize, columns)

OneThreadInv == LinesSkipped /\ NothingFound /\ HeadKept /\ RestKept /\ EndedWell

(* What IInv says of the first row. *)
LEMMA FirstRowFacts ==
  ASSUME IInv, Opened
  PROVE  /\ file \in File /\ FileSize \in Nat /\ start \in Nat /\ start < FileSize
         /\ n_max \in Limit /\ nl \in Nat \X {"lf", "cr"}
         /\ start <= nl[1] /\ nl[1] < FileSize
<1>1. /\ file \in File /\ FileSize \in Nat /\ start \in Nat /\ start < FileSize
      /\ n_max \in Limit /\ nl \in Nat \X {"lf", "cr"} /\ nl = FindNewline(file, start)
  BY FilesType, IndexAssumption
  DEF IInv, TypeOK, FirstRowFound, FileSize, File, Limit
<1>2. start <= nl[1] /\ nl[1] < FileSize
  BY <1>1, FindNewlineInFile DEF FileSize
<1>3. QED  BY <1>1, <1>2

(* The call for the first row is well-typed, and so is what it comes to.    *)
LEMMA HeadType ==
  ASSUME IInv, Opened
  PROVE  /\ HeadCall \in CallType /\ HeadCall.start <= HeadCall.end
         /\ HeadCall.end <= Len(file)
         /\ HeadEntry \in LocalsType /\ HeadEntry.pos = HeadCall.start
         /\ HeadEntry.last_tick <= HeadCall.end
         /\ HeadEnd \in CallsOf(HeadCall) /\ HeadEnd.locals.out # "running"
<1>1. /\ file \in File /\ FileSize \in Nat /\ start \in Nat
      /\ n_max \in Nat \union {Unlimited} /\ nl \in Nat \X {"lf", "cr"}
      /\ start <= nl[1] /\ nl[1] < Len(file)
  BY FirstRowFacts DEF Limit, FileSize
<1>2. nl = <<nl[1], nl[2]>> /\ nl[1] \in Nat /\ nl[2] \in {"lf", "cr"}
  BY <1>1
<1>3. /\ HeadCall \in CallType /\ HeadCall.start <= HeadCall.end
      /\ HeadCall.end <= Len(file)
  <2> DEFINE q == FirstRegion(start, <<nl[1], nl[2]>>, n_max, 1, Len(file))
  <2>1. HeadCall = q
    BY <1>2 DEF HeadCall, FileSize
  <2>2. q \in CallType /\ q.start <= q.end /\ q.end <= Len(file)
    BY <1>1, <1>2, FirstRegionType
  <2> HIDE DEF q
  <2>3. QED  BY <2>1, <2>2
<1>4. /\ HeadEntry \in LocalsType /\ HeadEntry.pos = HeadCall.start
      /\ HeadEntry.last_tick = HeadCall.start
  BY <1>3, EnterType DEF HeadEntry, CsvState, Enter
<1>5. HeadEntry.last_tick <= HeadCall.end
  BY <1>3, <1>4
<1>6. Len(file) \in Nat
  BY <1>1 DEF File
<1>7. HeadEnd \in CallsOf(HeadCall) /\ HeadEnd.locals.out # "running"
  BY <1>3, <1>4, <1>5, <1>6, RunRegionStops DEF HeadEnd
<1>8. QED  BY <1>3, <1>4, <1>5, <1>7

(* So are the call for the rest and what that comes to.                     *)
LEMMA RestType ==
  ASSUME IInv, Opened
  PROVE  /\ RestCall \in CallType /\ RestCall.start <= RestCall.end
         /\ RestCall.end <= Len(file)
         /\ RestEntry \in LocalsType /\ RestEntry.pos = RestCall.start
         /\ RestEntry.last_tick <= RestCall.end
         /\ RestEnd \in CallsOf(RestCall) /\ RestEnd.locals.out # "running"
<1>1. /\ file \in File /\ FileSize \in Nat /\ n_max \in Limit
      /\ nl \in Nat \X {"lf", "cr"} /\ nl[1] < FileSize /\ FileSize = Len(file)
  BY FirstRowFacts DEF FileSize
<1>2. HeadEnd.locals \in LocalsType
  BY HeadType DEF CallsOf
<1>3. HeadEnd.locals.lines_read \in Nat /\ Columns \in Nat
  <2>1. HeadEnd.locals.lines_read \in Nat /\ HeadEnd.locals.destination \in Seq(Nat)
    BY <1>2, LocalsFields
  <2>2. QED  BY <2>1 DEF Columns, ColumnsOf
<1>4. /\ RestCall \in CallType /\ RestCall.start <= RestCall.end
      /\ RestCall.end <= Len(file)
  <2>1. CASE n_max # Unlimited
    <3>1. RestCall = RestRegion(nl, n_max, HeadEnd.locals.lines_read, Columns, FileSize)
      BY <2>1 DEF RestCall
    <3>2. FileSize <= FileSize
      BY <1>1
    <3>3. QED  BY <1>1, <1>3, <3>1, <3>2, RestRegionType
  <2>2. CASE n_max = Unlimited
    <3>1. RestCall = BatchRegion(file, nl, n_max, Columns, 1, 0)
      BY <2>2 DEF RestCall
    <3>2. 0 \in 0 .. (1 - 1) /\ 1 \in Nat \ {0}
      OBVIOUS
    <3>3. BetweenCuts(BatchRegion(file, nl, n_max, Columns, 1, 0), file, nl[1], 1, 0)
      BY <1>1, <1>3, <3>2, BatchRegionCut
    <3>4. QED  BY <3>1, <3>3 DEF BetweenCuts
  <2>3. QED  BY <2>1, <2>2
<1>5. /\ RestEntry \in LocalsType /\ RestEntry.pos = RestCall.start
      /\ RestEntry.last_tick = RestCall.start
  <2>1. HeadEnd.locals.state \in CsvState /\ HeadEnd.locals.cols \in Nat
    BY <1>2, LocalsFields
  <2>2. PICK state \in CsvState, cols \in Nat : RestEntry = Enter(RestCall, state, cols, <<>>)
    BY <2>1 DEF RestEntry, CsvState
  <2>3. QED  BY <1>4, <2>2, EnterType DEF Enter
<1>6. RestEntry.last_tick <= RestCall.end
  BY <1>4, <1>5
<1>7. Len(file) \in Nat
  BY <1>1
<1>8. RestEnd \in CallsOf(RestCall) /\ RestEnd.locals.out # "running"
  BY <1>4, <1>5, <1>6, <1>7, RunRegionStops DEF RestEnd
<1>9. QED  BY <1>4, <1>5, <1>6, <1>8

(* What the reference does depends on the file and on its first row only.   *)
LEMMA SameReference ==
  ASSUME UNCHANGED <<file, n_max, start, nl>>
  PROVE  /\ HeadCall' = HeadCall /\ HeadEntry' = HeadEntry /\ HeadEnd' = HeadEnd
         /\ Columns' = Columns /\ RestCall' = RestCall /\ RestEntry' = RestEntry
         /\ FileSize' = FileSize
BY DEF HeadCall, HeadEntry, HeadEnd, Columns, RestCall, RestEntry, FileSize

(* The constructor begins at the first line of the file. *)
LEMMA InitOneThread == Init => OneThreadInv
<1> SUFFICES ASSUME Init PROVE OneThreadInv
  OBVIOUS
<1>1. file \in File /\ Len(file) \in Nat \ {0} /\ Skip \in Nat /\ NumThreads \in Nat
  BY FilesType, IndexAssumption DEF Init, File
<1>2. LinesSkipped
  <2>1. PICK line \in Lines(file, Skip) : FindFirstLine(file, Skip) = line[Len(file)]
    BY <1>1, FindFirstLineLines
  <2>2. line[0] = 0 /\ 0 \in 0 .. Len(file)
    BY <1>1, <2>1 DEF Lines
  <2>3. skip = IF 0 < Skip THEN Skip - 0 ELSE 0
    BY <1>1 DEF Init
  <2>4. start = line[0] /\ 0 <= start
    BY <2>2 DEF Init
  <2>5. pc = "open"
    BY DEF Init
  <2>6. QED  BY <2>1, <2>2, <2>3, <2>4, <2>5 DEF LinesSkipped, FileSize
<1>3. NothingFound
  <2>1. Idle.destination = <<>>
    BY DEF Idle, Enter
  <2>2. QED  BY <2>1 DEF Init, NothingFound
<1>4. HeadKept /\ RestKept /\ EndedWell
  BY DEF Init, HeadKept, RestKept, EndedWell, Past
<1>5. QED  BY <1>2, <1>3, <1>4 DEF OneThreadInv

(* A line is skipped: the next one is the next of find_first_line's.        *)
LEMMA SkipLineKeeps == IInv /\ OneThreadInv /\ SkipLine => OneThreadInv'
<1> SUFFICES ASSUME IInv, OneThreadInv, SkipLine PROVE OneThreadInv'
  OBVIOUS
<1>1. /\ pc = "open" /\ SkipsLine(file, start, skip) /\ start' = NextLine(file, start)
      /\ skip' = IF skip > 0 THEN skip - 1 ELSE skip
      /\ UNCHANGED <<file, n_max, nl, pc, num_threads, region, scan, launched, joined, errors,
                     progress, blocked, columns, rows>>
  BY DEF SkipLine
<1>2. /\ file \in File /\ FileSize \in Nat /\ start \in Nat /\ skip \in Nat /\ Skip \in Nat
      /\ FileSize' = FileSize /\ FileSize = Len(file)
  BY <1>1, FilesType, IndexAssumption DEF IInv, TypeOK, FileSize, File
<1>3. PICK line \in Lines(file, Skip), n \in 0 .. FileSize :
        /\ FindFirstLine(file, Skip) = line[FileSize]
        /\ start = line[n] /\ n <= start
        /\ skip = IF n < Skip THEN Skip - n ELSE 0
  BY <1>1 DEF OneThreadInv, LinesSkipped
<1>4. start < FileSize - 1 /\ (skip > 0 <=> Skip - n > 0)
  BY <1>1, <1>2, <1>3 DEF SkipsLine
<1>5. SkipsLine(file, line[n], Skip - n)
  BY <1>1, <1>3, <1>4 DEF SkipsLine
<1>6. n \in Nat /\ n + 1 \in 1 .. FileSize /\ n + 1 \in 0 .. FileSize /\ (n + 1) - 1 = n
  BY <1>2, <1>3, <1>4
<1>7. line[n + 1] = NextLine(file, line[n])
  <2>1. \A m \in 1 .. Len(file) :
          line[m] = IF SkipsLine(file, line[m - 1], Skip - (m - 1))
                    THEN NextLine(file, line[m - 1]) ELSE line[m - 1]
    BY DEF Lines
  <2>2. line[n + 1] = IF SkipsLine(file, line[n], Skip - n)
                      THEN NextLine(file, line[n]) ELSE line[n]
    BY <1>2, <1>6, <2>1
  <2>3. QED  BY <1>5, <2>2
<1>8. start' = line[n + 1] /\ n + 1 <= start'
  <2>1. start' \in Nat /\ start < start'
    BY <1>1, <1>2, <1>4, NextLineForward
  <2>2. QED  BY <1>1, <1>2, <1>3, <1>6, <1>7, <2>1
<1>9. skip' = IF n + 1 < Skip THEN Skip - (n + 1) ELSE 0
  BY <1>1, <1>2, <1>3, <1>6
<1>10. LinesSkipped'
  <2>1. FindFirstLine(file, Skip)' = line[FileSize]
    BY <1>1, <1>3
  <2>2. QED  BY <1>1, <1>2, <1>6, <1>8, <1>9, <2>1 DEF LinesSkipped
<1>11. NothingFound'
  BY <1>1 DEF OneThreadInv, NothingFound
<1>12. joined = 0 /\ launched = 0
  BY <1>1 DEF IInv, TypeOK, LaunchOrder
<1>13. HeadKept' /\ RestKept' /\ EndedWell'
  BY <1>1, <1>12 DEF HeadKept, RestKept, EndedWell, Past
<1>14. QED  BY <1>10, <1>11, <1>13 DEF OneThreadInv

(* The line that is not skipped is the one that find_first_line returns.    *)
LEMMA FirstLineIsFound ==
  ASSUME IInv, LinesSkipped, pc = "open", ~SkipsLine(file, start, skip)
  PROVE  start = FindFirstLine(file, Skip)
<1>1. /\ Len(file) \in Nat /\ FileSize = Len(file) /\ Skip \in Nat /\ start \in Nat
  BY FilesType, IndexAssumption DEF IInv, TypeOK, FileSize, File
<1>2. PICK line \in Lines(file, Skip), n \in 0 .. FileSize :
        /\ FindFirstLine(file, Skip) = line[FileSize]
        /\ start = line[n]
        /\ skip = IF n < Skip THEN Skip - n ELSE 0
  BY DEF LinesSkipped
<1>3. skip > 0 <=> Skip - n > 0
  BY <1>1, <1>2
<1>4. ~SkipsLine(file, line[n], Skip - n)
  BY <1>2, <1>3 DEF SkipsLine
<1>5. QED  BY <1>1, <1>2, <1>4, FirstLineFound

(* start_indexing enters the reference's call for the first row.            *)
LEMMA StartIndexingKeepsHead ==
  ASSUME NEW threads \in Nat \ {0}, UNCHANGED <<file, n_max, start>>,
         StartIndexing(threads, nl'), errors' = <<>>, columns' \in {0, Columns'},
         start = FindFirstLine(file, Skip)
  PROVE  OneThreadInv'
<1>1. /\ num_threads' = threads /\ launched' = 0 /\ joined' = 0 /\ pc' = "first_row"
      /\ region'[0] = FirstRegion(start, nl', n_max, threads, FileSize)
      /\ scan'[0] = Enter(FirstRegion(start, nl', n_max, threads, FileSize),
                          "RECORD_START", 0, <<>>)
  BY DEF StartIndexing
<1>2. scan'[0] = HeadEntry'
  BY <1>1 DEF HeadEntry, HeadCall, Enter, FirstRegion, Region, FileSize
<1>3. Entered(HeadEntry') = [locals |-> scan'[0], errors |-> errors']
  BY <1>2 DEF Entered
<1>4. Passes(file', HeadCall', HeadEntry', [locals |-> scan'[0], errors |-> errors'])
  BY <1>3, PassesFirst
<1>5. HeadKept'
  BY <1>1, <1>4 DEF HeadKept, Past, FileSize
<1>6. LinesSkipped' /\ NothingFound' /\ RestKept' /\ EndedWell'
  BY <1>1 DEF LinesSkipped, NothingFound, RestKept, EndedWell, Past
<1>7. QED  BY <1>5, <1>6 DEF OneThreadInv

(* So it does when the first line has been found,                           *)
LEMMA OpenKeeps == IInv /\ OneThreadInv /\ Open => OneThreadInv'
<1> SUFFICES ASSUME IInv, OneThreadInv, Open PROVE OneThreadInv'
  OBVIOUS
<1>1. PICK threads \in Nat \ {0} : StartIndexing(threads, nl')
  <2> DEFINE line == FindNewline(file, nl'[1] + 1)[1] - nl'[1]
             few  == FileSize \div num_threads < line * LinesPerBatch
  <2>1. StartIndexing(IF n_max # Unlimited \/ few THEN 1 ELSE num_threads, nl')
    BY DEF Open
  <2>2. 1 \in Nat \ {0} /\ num_threads \in Nat \ {0}
    BY IndexAssumption DEF IInv, TypeOK
  <2> HIDE DEF few
  <2>3. CASE n_max # Unlimited \/ few
    BY <2>1, <2>2, <2>3
  <2>4. CASE ~(n_max # Unlimited \/ few)
    BY <2>1, <2>2, <2>4
  <2>5. QED  BY <2>3, <2>4
<1>2. /\ pc = "open" /\ ~SkipsLine(file, start, skip)
      /\ UNCHANGED <<file, n_max, start, errors, columns>>
  BY DEF Open
<1>3. errors = <<>> /\ columns = 0
  BY <1>2 DEF OneThreadInv, NothingFound
<1>4. start = FindFirstLine(file, Skip)
  BY <1>2, FirstLineIsFound DEF OneThreadInv
<1>5. QED  BY <1>1, <1>2, <1>3, <1>4, StartIndexingKeepsHead

(* and when the constructor starts over.                                    *)
LEMMA RestartKeeps == IInv /\ OneThreadInv /\ Restart => OneThreadInv'
<1> SUFFICES ASSUME IInv, OneThreadInv, Restart PROVE OneThreadInv'
  OBVIOUS
<1>1. /\ pc = "unwind" /\ errors' = <<>> /\ StartIndexing(1, nl)
      /\ UNCHANGED <<file, n_max, start, nl, columns>>
  BY DEF Restart
<1>2. start = FindFirstLine(file, Skip)
  BY <1>1 DEF OneThreadInv, LinesSkipped
<1>3. columns' \in {0, Columns'}
  BY <1>1, SameReference DEF OneThreadInv, HeadKept
<1>4. QED  BY <1>1, <1>2, <1>3, StartIndexingKeepsHead

(* A file with nothing in it has an empty index. *)
LEMMA OpenEmptyKeeps == IInv /\ OneThreadInv /\ OpenEmpty => OneThreadInv'
<1> SUFFICES ASSUME IInv, OneThreadInv, OpenEmpty PROVE OneThreadInv'
  OBVIOUS
<1>1. /\ pc = "open" /\ ~SkipsLine(file, start, skip) /\ start >= FileSize - 1 /\ pc' = "done"
      /\ UNCHANGED <<file, n_max, start, skip, nl, num_threads, region, scan, launched,
                     joined, errors, progress, blocked, columns, rows>>
  BY DEF OpenEmpty
<1>2. launched = 0 /\ joined = 0
  BY <1>1 DEF IInv, TypeOK, LaunchOrder
<1>3. start = FindFirstLine(file, Skip)
  BY <1>1, FirstLineIsFound DEF OneThreadInv
<1>4. LinesSkipped' /\ NothingFound'
  BY <1>1, <1>3 DEF OneThreadInv, LinesSkipped, NothingFound, FileSize
<1>5. HeadKept' /\ RestKept' /\ EndedWell'
  BY <1>1, <1>2 DEF HeadKept, RestKept, EndedWell, Past
<1>6. QED  BY <1>4, <1>5 DEF OneThreadInv

(* The call for the first row goes on as the reference's does.              *)
LEMMA IndexFirstRowKeeps == IInv /\ OneThreadInv /\ IndexFirstRow => OneThreadInv'
<1> SUFFICES ASSUME IInv, OneThreadInv, IndexFirstRow PROVE OneThreadInv'
  OBVIOUS
<1>1. /\ pc = "first_row" /\ scan[0].out = "running"
      /\ scan' = [scan EXCEPT ![0] = IndexStep(file, region[0], scan[0])]
      /\ errors' = errors \o ParseErrors(file, region[0], scan[0])
      /\ UNCHANGED <<file, n_max, start, skip, nl, pc, num_threads, region, launched, joined,
                     columns, rows>>
  BY DEF IndexFirstRow, Iterate, Running
<1>2. launched = 0 /\ joined = 0 /\ Opened
  BY <1>1 DEF IInv, TypeOK, LaunchOrder, Opened
<1>3. /\ HeadCall' = HeadCall /\ HeadEntry' = HeadEntry /\ Columns' = Columns
      /\ FileSize' = FileSize
  BY <1>1, SameReference
<1>4. /\ scan[0] \in LocalsType
      /\ scan'[0] = IndexStep(file, region[0], scan[0])
  BY <1>1 DEF IInv, TypeOK
<1>5. /\ region[0] = FirstRegion(start, nl, n_max, num_threads, FileSize)
      /\ Passes(file, HeadCall, HeadEntry, [locals |-> scan[0], errors |-> errors])
      /\ columns \in {0, Columns}
  BY <1>1 DEF OneThreadInv, HeadKept
<1>6. /\ ParseErrors(file, region[0], scan[0]) = ParseErrors(file, HeadCall, scan[0])
      /\ \/ IndexStep(file, region[0], scan[0]) = IndexStep(file, HeadCall, scan[0])
         \/ IndexStep(file, region[0], scan[0]).out = "newline_error"
  <2>1. /\ region[0].start = HeadCall.start /\ region[0].end = HeadCall.end
        /\ region[0].nl = HeadCall.nl /\ region[0].n_max = HeadCall.n_max
        /\ region[0].num_cols = HeadCall.num_cols
        /\ region[0].update_size = HeadCall.update_size
        /\ region[0].file_offset = HeadCall.file_offset /\ HeadCall.num_threads = 1
    BY <1>5 DEF HeadCall, FirstRegion, Region
  <2>2. QED  BY <1>4, <2>1, ThreadsDoNotMatter
<1>7. \/ scan'[0].out = "newline_error"
      \/ Passes(file, HeadCall, HeadEntry, [locals |-> scan'[0], errors |-> errors'])
  <2> SUFFICES ASSUME scan'[0].out # "newline_error"
               PROVE  Passes(file, HeadCall, HeadEntry,
                             [locals |-> scan'[0], errors |-> errors'])
    OBVIOUS
  <2> DEFINE call == [locals |-> scan[0], errors |-> errors]
  <2>1. scan'[0] = IndexStep(file, HeadCall, scan[0])
    BY <1>4, <1>6
  <2>2. errors' = errors \o ParseErrors(file, HeadCall, scan[0])
    BY <1>1, <1>6
  <2>3. Turn(file, HeadCall, call) = [locals |-> scan'[0], errors |-> errors']
    BY <2>1, <2>2 DEF Turn
  <2>4. call.locals.out = "running"
    BY <1>1
  <2> HIDE DEF call
  <2>5. Passes(file, HeadCall, HeadEntry, Turn(file, HeadCall, call))
    BY <1>5, <2>4, PassesNext DEF call
  <2>6. QED  BY <2>3, <2>5
<1>8. HeadKept'
  BY <1>1, <1>2, <1>3, <1>5, <1>7 DEF HeadKept, Past
<1>9. LinesSkipped' /\ NothingFound' /\ RestKept' /\ EndedWell'
  BY <1>1, <1>2, <1>3
  DEF OneThreadInv, LinesSkipped, NothingFound, RestKept, EndedWell, Past
<1>10. QED  BY <1>8, <1>9 DEF OneThreadInv

(* When it ends it is the reference's, which tells the same columns.        *)
LEMMA CountColumnsKeeps == IInv /\ OneThreadInv /\ CountColumns => OneThreadInv'
<1> SUFFICES ASSUME IInv, OneThreadInv, CountColumns PROVE OneThreadInv'
  OBVIOUS
<1>1. /\ pc = "first_row" /\ scan[0].out \in {"end", "n_max"} /\ pc' = "launch"
      /\ columns' = IF scan[0].destination = <<>> THEN columns
                    ELSE Len(scan[0].destination) - 1
      /\ UNCHANGED <<file, n_max, start, skip, nl, num_threads, region, scan, launched,
                     joined, errors, progress, blocked, rows>>
  BY DEF CountColumns
<1>2. launched = 0 /\ joined = 0 /\ Opened
  BY <1>1 DEF IInv, TypeOK, LaunchOrder, Opened
<1>3. /\ HeadEnd' = HeadEnd /\ Columns' = Columns /\ FileSize' = FileSize
  BY <1>1, SameReference
<1>4. HeadEnd = [locals |-> scan[0], errors |-> errors]
  <2> DEFINE call == [locals |-> scan[0], errors |-> errors]
  <2>1. Passes(file, HeadCall, HeadEntry, call)
    BY <1>1 DEF OneThreadInv, HeadKept
  <2>2. call.locals.out # "running"
    BY <1>1
  <2>3. Len(file) \in Nat
    BY FilesType DEF IInv, TypeOK, File
  <2> HIDE DEF call
  <2>4. QED  BY <1>2, <2>1, <2>2, <2>3, HeadType, PassesLast DEF HeadEnd, call
<1>5. columns' = Columns
  <2>1. columns \in {0, Columns}
    BY <1>1 DEF OneThreadInv, HeadKept
  <2>2. QED  BY <1>1, <1>4, <2>1 DEF Columns, ColumnsOf
<1>6. HeadKept'
  BY <1>1, <1>3, <1>4, <1>5 DEF HeadKept
<1>7. RestKept'
  BY <1>1, <1>2, <1>3, <1>4 DEF RestKept
<1>8. LinesSkipped' /\ NothingFound' /\ EndedWell'
  BY <1>1, <1>2, <1>3 DEF OneThreadInv, LinesSkipped, NothingFound, EndedWell
<1>9. QED  BY <1>6, <1>7, <1>8 DEF OneThreadInv

(* The one thread enters the reference's call for the rest.                 *)
LEMMA LaunchKeeps == IInv /\ OneThreadInv /\ Launch => OneThreadInv'
<1> SUFFICES ASSUME IInv, OneThreadInv, Launch PROVE OneThreadInv'
  OBVIOUS
<1> DEFINE id == launched
           p  == IF n_max # Unlimited
                 THEN RestRegion(nl, n_max, scan[0].lines_read, columns, FileSize)
                 ELSE BatchRegion(file, nl, n_max, columns, num_threads, id)
           r  == IF n_max # Unlimited THEN Enter(p, scan[0].state, scan[0].cols, <<>>)
                 ELSE Enter(p, "RECORD_START", 0, <<>>)
<1>1. /\ pc = "launch" /\ launched < num_threads
      /\ region' = [region EXCEPT ![launched + 1] = p]
      /\ scan' = [scan EXCEPT ![launched + 1] = r]
      /\ launched' = launched + 1
      /\ UNCHANGED <<file, n_max, start, skip, nl, pc, num_threads, joined, errors,
                     progress, blocked, columns, rows>>
  BY DEF Launch
<1>2. /\ launched \in Nat /\ num_threads \in Nat /\ joined \in 0 .. launched
      /\ DOMAIN scan = 0 .. num_threads /\ DOMAIN region = 0 .. num_threads /\ Opened
  BY <1>1 DEF IInv, TypeOK, Opened
<1>3. /\ HeadEnd' = HeadEnd /\ Columns' = Columns /\ RestCall' = RestCall
      /\ RestEntry' = RestEntry /\ FileSize' = FileSize
  BY <1>1, SameReference
<1>4. scan[0] = HeadEnd.locals /\ columns = Columns /\ Past
  BY <1>1 DEF OneThreadInv, HeadKept, Past
<1>5. num_threads = 1 => launched = 0 /\ p = RestCall /\ r = RestEntry
  <2> SUFFICES ASSUME num_threads = 1 PROVE launched = 0 /\ p = RestCall /\ r = RestEntry
    OBVIOUS
  <2>1. launched = 0
    BY <1>1, <1>2
  <2>2. p = RestCall
    BY <1>4, <2>1 DEF RestCall
  <2>3. QED  BY <1>4, <2>1, <2>2 DEF RestEntry
<1> HIDE DEF p, r
<1>6. /\ scan'[0] = scan[0]
      /\ \A k \in 1 .. joined : scan'[k] = scan[k]
      /\ scan'[launched + 1] = r /\ region'[launched + 1] = p
  BY <1>1, <1>2
<1>7. ASSUME num_threads = 1
      PROVE  /\ launched' = 1
             /\ region'[1] = RestCall'
             /\ Reports(file', RestCall', RestEntry', HeadEnd'.errors, scan'[1], errors')
  <2>1. launched = 0 /\ region'[1] = RestCall /\ scan'[1] = RestEntry
    BY <1>5, <1>6, <1>7
  <2>2. errors = HeadEnd.errors
    BY <1>4, <1>7, <2>1 DEF OneThreadInv, RestKept
  <2>3. errors = HeadEnd.errors \o <<>>
    <3>1. errors \in Seq([position : Nat, column : Nat])
      BY DEF IInv, TypeOK
    <3>2. \A S : \A e \in Seq(S) : e \o <<>> = e
      OBVIOUS
    <3>3. QED  BY <2>2, <3>1, <3>2
  <2>4. Passes(file, RestCall, RestEntry, [locals |-> scan'[1], errors |-> <<>>])
    BY <2>1, PassesFirst DEF Entered
  <2>5. <<>> \in Seq([position : Nat, column : Nat])
    OBVIOUS
  <2>6. launched' = 1
    BY <1>1, <2>1
  <2>7. Reports(file, RestCall, RestEntry, HeadEnd.errors, scan'[1], errors)
    BY <2>3, <2>4, <2>5 DEF Reports
  <2>8. QED  BY <1>1, <1>3, <2>1, <2>6, <2>7
<1>8. RestKept'
  BY <1>1, <1>7 DEF RestKept
<1>9. HeadKept'
  BY <1>1, <1>3, <1>4, <1>6 DEF HeadKept
<1>10. LinesSkipped' /\ NothingFound' /\ EndedWell'
  BY <1>1, <1>3, <1>6 DEF OneThreadInv, LinesSkipped, NothingFound, EndedWell
<1>11. QED  BY <1>8, <1>9, <1>10 DEF OneThreadInv

(* An iteration of the one thread is one of the reference's, and reports    *)
(* the same error after those of the first row.                             *)
LEMMA IndexBatchKeeps ==
  ASSUME IInv, OneThreadInv, NEW k \in Threads, IndexBatch(k)
  PROVE  OneThreadInv'
<1>1. /\ k <= launched /\ scan[k].out = "running"
      /\ scan' = [scan EXCEPT ![k] = IndexStep(file, region[k], scan[k])]
      /\ errors' = errors \o ParseErrors(file, region[k], scan[k])
      /\ UNCHANGED <<file, n_max, start, skip, nl, pc, num_threads, region, launched, joined,
                     columns, rows>>
  BY DEF IndexBatch, Iterate, Running
<1>2. /\ k \in 1 .. num_threads /\ num_threads \in Nat /\ launched \in 0 .. num_threads
      /\ joined \in 0 .. launched /\ launched > 0 /\ DOMAIN scan = 0 .. num_threads
      /\ region[k] \in CallType /\ scan[k] \in LocalsType
  BY <1>1 DEF Threads, IInv, TypeOK
<1>3. pc \notin {"open", "first_row"}
  BY <1>2 DEF IInv, LaunchOrder
<1>4. /\ HeadEnd' = HeadEnd /\ Columns' = Columns /\ RestCall' = RestCall
      /\ RestEntry' = RestEntry /\ FileSize' = FileSize
  BY <1>1, SameReference
<1>5. \A j \in 1 .. joined : j # k
  BY <1>1 DEF OneThreadInv, EndedWell
<1>6. pc # "done"
  BY <1>1, <1>2, <1>5 DEF OneThreadInv, EndedWell
<1>7. /\ scan'[0] = scan[0] /\ scan'[k] = IndexStep(file, region[k], scan[k])
      /\ \A j \in 1 .. joined : scan'[j] = scan[j]
  BY <1>1, <1>2, <1>5
<1>8. ASSUME Past, num_threads = 1
      PROVE  /\ launched' = 1
             /\ region'[1] = RestCall'
             /\ Reports(file', RestCall', RestEntry', HeadEnd'.errors, scan'[1], errors')
  <2>1. k = 1 /\ launched = 1
    BY <1>2, <1>8
  <2>2. PICK own \in Seq([position : Nat, column : Nat]) :
          /\ errors = HeadEnd.errors \o own
          /\ Passes(file, RestCall, RestEntry, [locals |-> scan[1], errors |-> own])
    BY <1>8, <2>1 DEF OneThreadInv, RestKept, Reports
  <2>3. region[1] = RestCall
    BY <1>8, <2>1 DEF OneThreadInv, RestKept
  <2> DEFINE call == [locals |-> scan[1], errors |-> own]
             more == ParseErrors(file, RestCall, scan[1])
  <2>4. more \in Seq([position : Nat, column : Nat])
    BY <1>2, <2>1, <2>3, ParseErrorsType
  <2>5. Turn(file, RestCall, call) = [locals |-> scan'[1], errors |-> own \o more]
    BY <1>7, <2>1, <2>3 DEF Turn
  <2>6. Passes(file, RestCall, RestEntry, Turn(file, RestCall, call))
    <3>1. call.locals.out = "running"
      BY <1>1, <2>1
    <3> HIDE DEF call
    <3>2. QED  BY <2>2, <3>1, PassesNext DEF call
  <2>7. errors' = HeadEnd.errors \o (own \o more)
    <3>1. HeadEnd.errors \in Seq([position : Nat, column : Nat])
      <4>1. Opened
        BY <1>3, <1>6 DEF Opened
      <4>2. QED  BY <4>1, HeadType DEF CallsOf
    <3>2. errors' = (HeadEnd.errors \o own) \o more
      BY <1>1, <2>1, <2>2, <2>3
    <3>3. (HeadEnd.errors \o own) \o more = HeadEnd.errors \o (own \o more)
      <4> DEFINE E == [position : Nat, column : Nat]
                 head == HeadEnd.errors
      <4>1. head \in Seq(E)
        BY <3>1
      <4>2. own \in Seq(E)
        BY <2>2
      <4>3. more \in Seq(E)
        BY <2>4
      <4> HIDE DEF E, more, head
      <4>4. (head \o own) \o more = head \o (own \o more)
        BY <4>1, <4>2, <4>3, ConcatAssociative
      <4>5. QED  BY <4>4 DEF head
    <3>4. QED  BY <3>2, <3>3
  <2>8. own \o more \in Seq([position : Nat, column : Nat])
    <3> HIDE DEF more
    <3>1. \A S : \A e, f \in Seq(S) : e \o f \in Seq(S)
      OBVIOUS
    <3>2. QED  BY <2>4, <3>1
  <2> HIDE DEF call, more
  <2>9. Reports(file, RestCall, RestEntry, HeadEnd.errors, scan'[1], errors')
    BY <2>5, <2>6, <2>7, <2>8 DEF Reports
  <2>10. QED  BY <1>1, <1>4, <2>1, <2>3, <2>9
<1>9. RestKept'
  BY <1>1, <1>8 DEF RestKept, Past
<1>10. HeadKept'
  BY <1>1, <1>3, <1>4, <1>7 DEF OneThreadInv, HeadKept, Past
<1>11. EndedWell'
  BY <1>1, <1>6, <1>7 DEF OneThreadInv, EndedWell
<1>12. LinesSkipped' /\ NothingFound'
  BY <1>1, <1>3, <1>4, <1>6 DEF OneThreadInv, LinesSkipped, NothingFound
<1>13. QED  BY <1>9, <1>10, <1>11, <1>12 DEF OneThreadInv

(* The main thread waits, and counts the rows when all calls have ended.    *)
LEMMA CountRowsKeeps == IInv /\ OneThreadInv /\ CountRows => OneThreadInv'
<1> SUFFICES ASSUME IInv, OneThreadInv, CountRows PROVE OneThreadInv'
  OBVIOUS
<1>1. /\ pc = "join" /\ joined = num_threads /\ rows' = RowsOf(IdxSize, columns) /\ pc' = "done"
      /\ UNCHANGED <<file, n_max, start, skip, nl, num_threads, region, scan, launched,
                     joined, errors, progress, blocked, columns>>
  BY DEF CountRows
<1>2. launched = num_threads /\ launched > 0
  BY <1>1 DEF IInv, TypeOK, LaunchOrder
<1>3. /\ HeadEnd' = HeadEnd /\ Columns' = Columns /\ RestCall' = RestCall
      /\ RestEntry' = RestEntry /\ FileSize' = FileSize
  BY <1>1, SameReference
<1>4. IdxSize' = IdxSize
  BY <1>1 DEF IdxSize, Separators
<1>5. EndedWell'
  BY <1>1, <1>2, <1>4 DEF OneThreadInv, EndedWell
<1>6. HeadKept' /\ RestKept'
  BY <1>1, <1>2, <1>3 DEF OneThreadInv, HeadKept, RestKept, Past
<1>7. LinesSkipped' /\ NothingFound'
  BY <1>1, <1>2, <1>3 DEF OneThreadInv, LinesSkipped, NothingFound
<1>8. QED  BY <1>5, <1>6, <1>7 DEF OneThreadInv

(* No other action touches the calls, the errors or the columns.            *)
LEMMA NextOneThread == IInv /\ OneThreadInv /\ [Next]_vars => OneThreadInv'
<1> SUFFICES ASSUME IInv, OneThreadInv, [Next]_vars PROVE OneThreadInv'
  OBVIOUS
<1>1. ASSUME UNCHANGED <<file, n_max, start, skip, nl, num_threads, region, scan, launched,
                         errors, columns, rows>>,
             \A j \in (joined + 1) .. joined' : scan[j].out \in {"end", "n_max"},
             joined' \in {joined, joined + 1}, pc = "done" => joined' = joined,
             \/ pc' # "open" /\ pc' # "first_row" /\ (pc' = "done" => pc = "done")
             \/ pc' = pc,
             pc # "open" \/ pc' = pc,
             pc' \in {"launch", "display", "join"} => Past \/ pc' = pc,
             pc' = "unwind" => pc \in {"first_row", "unwind"} \/ Past
      PROVE  OneThreadInv'
  <2>1. /\ HeadCall' = HeadCall /\ HeadEntry' = HeadEntry
        /\ HeadEnd' = HeadEnd /\ Columns' = Columns /\ RestCall' = RestCall
        /\ RestEntry' = RestEntry /\ FileSize' = FileSize
    BY <1>1, SameReference
  <2>2. joined \in Nat
    BY DEF IInv, TypeOK
  <2>3. EndedWell'
    <3>1. IdxSize' = IdxSize
      BY <1>1 DEF IdxSize, Separators
    <3>2. \A j \in 1 .. joined' : j \in 1 .. joined \/ j \in (joined + 1) .. joined'
      BY <1>1, <2>2
    <3>3. \A j \in 1 .. joined' : scan[j].out \in {"end", "n_max"}
      BY <1>1, <3>2 DEF OneThreadInv, EndedWell
    <3>4. QED  BY <1>1, <3>1, <3>3 DEF OneThreadInv, EndedWell
  <2>4. LinesSkipped' /\ NothingFound'
    BY <1>1, <2>1 DEF OneThreadInv, LinesSkipped, NothingFound
  <2>5. Past' => Past
    BY <1>1 DEF Past
  <2>6. RestKept'
    BY <1>1, <2>1, <2>5 DEF OneThreadInv, RestKept
  <2>7. HeadKept'
    BY <1>1, <2>1, <2>5 DEF OneThreadInv, HeadKept
  <2>8. QED  BY <2>3, <2>4, <2>6, <2>7 DEF OneThreadInv
<1>2. joined \in Nat
  BY DEF IInv, TypeOK
<1>3. (joined + 1) .. joined = {}
  BY <1>2
<1>4. CASE Launched \/ Display \/ WakeUp
  BY <1>1, <1>3, <1>4 DEF Launched, Display, WakeUp, Past
<1>5. CASE Join
  <2>1. \A j \in (joined + 1) .. joined' : j = joined + 1
    BY <1>2, <1>5 DEF Join
  <2>2. QED  BY <1>1, <1>5, <2>1 DEF Join, Past
<1>6. CASE Throw
  BY <1>1, <1>3, <1>6 DEF Throw, Past
<1>7. CASE Done \/ UNCHANGED vars
  BY <1>1, <1>3, <1>7 DEF Done, vars, Past
<1>8. QED
  BY <1>4, <1>5, <1>6, <1>7, SkipLineKeeps, OpenKeeps, OpenEmptyKeeps, IndexFirstRowKeeps,
     CountColumnsKeeps, LaunchKeeps, IndexBatchKeeps, RestartKeeps, CountRowsKeeps
  DEF Next, Main

(* The separators of one thread are the first row's and the rest's.         *)
LEMMA IdxSizeOfTwo ==
  ASSUME IInv, num_threads = 1
  PROVE  IdxSize = Len(scan[0].destination \o scan[1].destination)
<1> DEFINE m == Len(scan[0].destination)
           n == Len(scan[1].destination)
           A == {0} \X (1 .. m)
           B == {1} \X (1 .. n)
<1>1. /\ scan[0].destination \in Seq(Nat) /\ scan[1].destination \in Seq(Nat)
      /\ m \in Nat /\ n \in Nat
  BY LocalsFields DEF IInv, TypeOK
<1>2. Separators = A \union B
  <2>1. 0 .. num_threads = {0, 1}
    OBVIOUS
  <2>2. QED  BY <2>1 DEF Separators
<1>3. Len(scan[0].destination \o scan[1].destination) = m + n
  BY <1>1
<1> HIDE DEF m, n
<1>4. /\ IsFiniteSet(1 .. m) /\ Cardinality(1 .. m) = m
      /\ IsFiniteSet(1 .. n) /\ Cardinality(1 .. n) = n
  <2>1. ASSUME NEW k \in Nat PROVE IsFiniteSet(1 .. k) /\ Cardinality(1 .. k) = k
    <3>1. /\ IsFiniteSet(1 .. k)
          /\ Cardinality(1 .. k) = IF 1 > k THEN 0 ELSE k - 1 + 1
      BY FS_Interval
    <3>2. QED  BY <3>1
  <2>2. QED  BY <1>1, <2>1
<1>5. \A x : IsFiniteSet({x}) /\ Cardinality({x}) = 1
  BY FS_Singleton
<1>6. IsFiniteSet(A) /\ Cardinality(A) = m
  <2>1. IsFiniteSet(A) /\ Cardinality(A) = Cardinality({0}) * Cardinality(1 .. m)
    BY <1>4, <1>5, FS_Product
  <2>2. Cardinality(A) = 1 * m
    BY <1>4, <1>5, <2>1
  <2>3. QED  BY <1>1, <2>1, <2>2
<1>7. IsFiniteSet(B) /\ Cardinality(B) = n
  <2>1. IsFiniteSet(B) /\ Cardinality(B) = Cardinality({1}) * Cardinality(1 .. n)
    BY <1>4, <1>5, FS_Product
  <2>2. Cardinality(B) = 1 * n
    BY <1>4, <1>5, <2>1
  <2>3. QED  BY <1>1, <2>1, <2>2
<1>8. A \intersect B = {}
  OBVIOUS
<1> HIDE DEF A, B
<1>9. Cardinality(A \union B) = m + n - Cardinality({})
  BY <1>6, <1>7, <1>8, FS_Union
<1>10. Cardinality({}) = 0
  BY FS_EmptySet
<1>11. QED  BY <1>1, <1>2, <1>3, <1>9, <1>10 DEF IdxSize

(* What the reference's calls come to is the reference.                     *)
LEMMA ReferenceUnfolds ==
  ASSUME start = FindFirstLine(file, Skip), start < FileSize - 1,
         nl = FindNewline(file, start), FileSize \in Nat, start \in Nat
  PROVE  LET seps == HeadEnd.locals.destination \o RestEnd.locals.destination
         IN  SequentialAnswer(file, n_max, Skip) =
               [separators |-> seps, columns |-> Columns,
                rows |-> RowsOf(Len(seps), Columns),
                errors |-> HeadEnd.errors \o RestEnd.errors]
<1>1. ~(start >= Len(file) - 1)
  BY DEF FileSize
<1>2. QED
  BY <1>1
  DEF SequentialAnswer, HeadCall, HeadEntry, HeadEnd, Columns, RestCall, RestEntry, RestEnd,
      FileSize

(* The calls of one thread have ended when it returns, and are the          *)
(* reference's.                                                             *)
LEMMA OneThreadEnds ==
  ASSUME IInv, OneThreadInv, pc = "done", num_threads = 1, launched # 0
  PROVE  /\ Opened /\ launched = 1
         /\ start = FindFirstLine(file, Skip) /\ start < FileSize - 1
         /\ nl = FindNewline(file, start)
         /\ scan[0] = HeadEnd.locals /\ scan[1] = RestEnd.locals
         /\ errors = HeadEnd.errors \o RestEnd.errors
         /\ columns = Columns
         /\ rows = RowsOf(Len(HeadEnd.locals.destination \o RestEnd.locals.destination), Columns)
<1>1. /\ file \in File /\ FileSize = Len(file) /\ Len(file) \in Nat
      /\ launched \in 0 .. num_threads
  BY FilesType, IndexAssumption DEF IInv, TypeOK, File, FileSize
<1>2. start = FindFirstLine(file, Skip)
  BY DEF OneThreadInv, LinesSkipped
<1>3. launched = 1 /\ Past /\ Opened
  BY <1>1 DEF Past, Opened
<1>4. start < FileSize - 1 /\ nl = FindNewline(file, start)
  BY <1>3 DEF IInv, FirstRowFound
<1>5. joined = 1 /\ scan[1].out \in {"end", "n_max"} /\ rows = RowsOf(IdxSize, columns)
  BY <1>3 DEF OneThreadInv, EndedWell
<1>6. scan[0] = HeadEnd.locals /\ columns = Columns
  BY <1>3 DEF OneThreadInv, HeadKept
<1>7. PICK own \in Seq([position : Nat, column : Nat]) :
        /\ errors = HeadEnd.errors \o own
        /\ Passes(file, RestCall, RestEntry, [locals |-> scan[1], errors |-> own])
  BY <1>3 DEF OneThreadInv, RestKept, Reports
<1>8. RestEnd = [locals |-> scan[1], errors |-> own]
  <2>1. /\ RestCall \in CallType /\ RestCall.start <= RestCall.end
        /\ RestCall.end <= Len(file) /\ RestEntry \in LocalsType
        /\ RestEntry.pos = RestCall.start /\ RestEntry.last_tick <= RestCall.end
    BY <1>3, RestType
  <2> DEFINE call == [locals |-> scan[1], errors |-> own]
  <2>2. call.locals.out # "running"
    BY <1>5
  <2>3. Passes(file, RestCall, RestEntry, call) /\ Len(file) \in Nat
    BY <1>1, <1>7
  <2> HIDE DEF call
  <2>4. RunRegion(file, RestCall, RestEntry) = call
    BY <2>1, <2>2, <2>3, PassesLast
  <2>5. QED  BY <2>4 DEF RestEnd, call
<1>9. RestEnd.locals = scan[1] /\ RestEnd.errors = own
  BY <1>8
<1>10. IdxSize = Len(HeadEnd.locals.destination \o RestEnd.locals.destination)
  BY <1>3, <1>6, <1>9, IdxSizeOfTwo
<1>11. QED  BY <1>2, <1>3, <1>4, <1>5, <1>6, <1>7, <1>9, <1>10

(* The constructor with one thread is the reference, and so is one that     *)
(* finds no first line.                                                     *)
LEMMA OneThreadAnswers ==
  ASSUME IInv, OneThreadInv, pc = "done", num_threads = 1 \/ launched = 0
  PROVE  Answer = Sequential!Finished(SequentialAnswer(file, n_max, Skip))
<1>1. Answer = [phase |-> "done",
                separators |-> FlattenSeq([k \in 1 .. (num_threads + 1) |->
                                             scan[k - 1].destination]),
                columns |-> columns, rows |-> rows,
                errors |-> ToSet(errors), error_count |-> Len(errors)]
  BY DEF Answer
<1>2. /\ file \in File /\ FileSize \in Nat /\ FileSize = Len(file) /\ start \in Nat
      /\ num_threads \in Nat \ {0} /\ launched \in 0 .. num_threads
  BY FilesType, IndexAssumption DEF IInv, TypeOK, File, FileSize
<1>3. start = FindFirstLine(file, Skip)
  BY DEF OneThreadInv, LinesSkipped
<1> DEFINE index == SequentialAnswer(file, n_max, Skip)
<1>4. Sequential!Finished(index) =
        [phase |-> "done", separators |-> index.separators, columns |-> index.columns,
         rows |-> index.rows, errors |-> ToSet(index.errors),
         error_count |-> Len(index.errors)]
  <2> HIDE DEF index
  <2>1. \A s : Sequential!ToSet(s) = ToSet(s)
    BY DEF Sequential!ToSet, ToSet
  <2>2. QED  BY <2>1 DEF Sequential!Finished
<1>5. CASE launched = 0
  <2>1. /\ errors = <<>> /\ columns = 0 /\ rows = 0 /\ start >= FileSize - 1
        /\ \A k \in 0 .. num_threads : scan[k].destination = <<>>
    BY <1>5 DEF OneThreadInv, NothingFound
  <2>2. SequentialAnswer(file, n_max, Skip) = EmptyIndex
    BY <1>2, <1>3, <2>1, Zenon DEF SequentialAnswer, FileSize
  <2>3. FlattenSeq([k \in 1 .. (num_threads + 1) |-> scan[k - 1].destination]) = <<>>
    <3>1. num_threads + 1 \in Nat \ {0}
      BY <1>2
    <3>2. [k \in 1 .. (num_threads + 1) |-> scan[k - 1].destination]
            = [k \in 1 .. (num_threads + 1) |-> <<>>]
      BY <1>2, <2>1
    <3>3. QED  BY <3>1, <3>2, FlattenEmpty
  <2>4. /\ index.separators = <<>> /\ index.columns = 0 /\ index.rows = 0
        /\ index.errors = <<>>
    BY <2>2 DEF EmptyIndex
  <2> HIDE DEF index
  <2>5. Answer = Sequential!Finished(index)
    BY <1>1, <1>4, <2>1, <2>3, <2>4
  <2>6. QED  BY <2>5 DEF index
<1>6. CASE launched # 0
  <2>1. launched = 1 /\ num_threads = 1
    BY <1>2, <1>6
  <2>2. /\ Opened /\ start < FileSize - 1 /\ nl = FindNewline(file, start)
        /\ scan[0] = HeadEnd.locals /\ scan[1] = RestEnd.locals
        /\ errors = HeadEnd.errors \o RestEnd.errors /\ columns = Columns
        /\ rows = RowsOf(Len(HeadEnd.locals.destination \o RestEnd.locals.destination),
                        Columns)
    BY <1>6, <2>1, OneThreadEnds
  <2> DEFINE seps == HeadEnd.locals.destination \o RestEnd.locals.destination
  <2>3. FlattenSeq([k \in 1 .. (num_threads + 1) |-> scan[k - 1].destination]) = seps
    <3> DEFINE s == [k \in 1 .. 2 |-> scan[k - 1].destination]
    <3>1. s[1] = scan[0].destination /\ s[2] = scan[1].destination
      OBVIOUS
    <3>2. s = [k \in 1 .. 2 |-> s[k]]
      OBVIOUS
    <3>3. [k \in 1 .. (num_threads + 1) |-> scan[k - 1].destination] = s
      BY <2>1
    <3> HIDE DEF s
    <3>4. FlattenSeq(s) = s[1] \o s[2]
      BY <3>2, FlattenTwo
    <3>5. QED  BY <2>2, <3>1, <3>3, <3>4
  <2>4. SequentialAnswer(file, n_max, Skip) =
           [separators |-> seps, columns |-> Columns, rows |-> RowsOf(Len(seps), Columns),
            errors |-> HeadEnd.errors \o RestEnd.errors]
    BY <1>2, <1>3, <2>2, ReferenceUnfolds
  <2> HIDE DEF seps
  <2>5. rows = RowsOf(Len(seps), Columns)
    BY <2>2 DEF seps
  <2>6. /\ index.separators = seps /\ index.columns = columns /\ index.rows = rows
        /\ index.errors = errors
    <3>1. PICK n, more : /\ index = [separators |-> seps, columns |-> columns, rows |-> n,
                                   errors |-> more]
                         /\ n = rows /\ more = errors
      BY <2>2, <2>4, <2>5
    <3> HIDE DEF index
    <3>2. QED  BY <3>1
  <2> HIDE DEF index
  <2>7. Answer = Sequential!Finished(index)
    BY <1>1, <1>4, <2>3, <2>6
  <2>8. QED  BY <2>7 DEF index
<1>7. QED  BY <1>5, <1>6

(* When the constructor returns and the last attempt was that of one        *)
(* thread, it returns the index of the reference, with the same parse       *)
(* errors.  That is so for any file and num_threads: with n_max, when the   *)
(* lines are too few for threads, and when a newline in a quoted field has  *)
(* made several threads start over; nothing that those have found is left.  *)
THEOREM OneThread ==
  Spec => [](pc = "done" /\ (num_threads = 1 \/ launched = 0) =>
               Answer = Sequential!Finished(SequentialAnswer(file, n_max, Skip)))
<1>1. Init => IInv /\ OneThreadInv
  BY InitIInv, InitOneThread
<1>2. IInv /\ OneThreadInv /\ [Next]_vars => (IInv /\ OneThreadInv)'
  BY NextIInv, NextOneThread
<1>3. IInv /\ OneThreadInv =>
        (pc = "done" /\ (num_threads = 1 \/ launched = 0) =>
           Answer = Sequential!Finished(SequentialAnswer(file, n_max, Skip)))
  BY OneThreadAnswers
<1>4. QED  BY <1>1, <1>2, <1>3, PTL DEF Spec

(* A constructor that has returned has returned for good.                   *)
LEMMA FileStays ==
  [Next]_vars => UNCHANGED <<file, n_max>> /\ (pc = "done" => pc' = "done")
BY DEF Next, Main, vars, SkipLine, Open, OpenEmpty, IndexFirstRow, CountColumns, Launch,
       Launched, Display, WakeUp, Join, Throw, Restart, CountRows, IndexBatch, Done

(* Nothing is seen of the index at first.                                   *)
LEMMA InitImplements == Init => Sequential!Init
<1> SUFFICES ASSUME Init PROVE Sequential!Init
  OBVIOUS
<1>1. Answer = [phase |-> "indexing"]
  BY DEF Init, Answer
<1>2. file \in Seq(Char) /\ n_max \in Nat \union {Unlimited} /\ Skip \in Nat
  BY IndexAssumption DEF Init
<1>3. QED
  BY <1>1, <1>2 DEF Sequential!Init, Sequential!Char, Char, Sequential!Unlimited, Unlimited

(* A step that returns the reference's index, or one that leaves it as it   *)
(* is, is what Indexing allows.                                             *)
LEMMA AnsweredOnce ==
  ASSUME [Next]_vars,
         pc = "done" => Answer = Sequential!Finished(SequentialAnswer(file, n_max, Skip)),
         (pc = "done" => Answer = Sequential!Finished(SequentialAnswer(file, n_max, Skip)))'
  PROVE  [Sequential!Answered]_(Sequential!vars)
<1> DEFINE Returned == Sequential!Finished(SequentialAnswer(file, n_max, Skip))
<1>1. UNCHANGED <<file, n_max>> /\ (pc = "done" => pc' = "done")
  BY FileStays
<1>2. pc' = "done" => Answer' = Returned
  <2>1. Returned' = Returned
    BY <1>1 DEF Sequential!Finished
  <2>2. QED  BY <2>1
<1>3. pc = "done" => Answer = Returned
  OBVIOUS
<1> HIDE DEF Returned
<1>4. /\ pc # "done" => Answer = [phase |-> "indexing"]
      /\ pc' # "done" => Answer' = [phase |-> "indexing"]
  BY DEF Answer
<1>5. CASE pc = "done" \/ pc' # "done"
  <2>1. Answer' = Answer
    BY <1>1, <1>2, <1>3, <1>4, <1>5
  <2>2. QED  BY <1>1, <2>1 DEF Sequential!vars
<1>6. CASE pc # "done" /\ pc' = "done"
  <2>1. Answer.phase = "indexing" /\ Answer' = Returned
    BY <1>2, <1>4, <1>6
  <2>2. QED  BY <1>1, <2>1 DEF Sequential!Answered, Returned
<1>7. QED  BY <1>5, <1>6

(* With num_threads = 1 the constructor implements what Indexing promises,  *)
(* but for its end, which needs fairness: nothing is seen of the index      *)
(* until it is there, all of it at once, and it does not change any more.   *)
THEOREM OneThreadImplementsIndexing ==
  ASSUME NumThreads = 1
  PROVE  Spec => Sequential!Init /\ [][Sequential!Answered]_(Sequential!vars)
<1>1. Init => Sequential!Init
  BY InitImplements
<1>2. Init => IInv /\ OneThreadInv
  BY InitIInv, InitOneThread
<1>3. IInv /\ OneThreadInv /\ [Next]_vars => (IInv /\ OneThreadInv)'
  BY NextIInv, NextOneThread
<1> DEFINE Returned == Sequential!Finished(SequentialAnswer(file, n_max, Skip))
<1>4. IInv /\ OneThreadInv => (pc = "done" => Answer = Returned)
  <2>1. IInv => num_threads = 1
    BY DEF IInv, TypeOK
  <2>2. QED  BY <2>1, OneThreadAnswers
<1>5. (IInv /\ OneThreadInv => (pc = "done" => Answer = Returned))'
  BY <1>4, PTL
<1>6. ASSUME IInv, OneThreadInv, IInv', OneThreadInv', [Next]_vars
      PROVE  [Sequential!Answered]_(Sequential!vars)
  BY <1>4, <1>5, <1>6, AnsweredOnce
<1>7. QED  BY <1>1, <1>2, <1>3, <1>6, PTL DEF Spec

----------------------------------------------------------------------------
(* Several threads.  Each call is for a part of the reference's call for    *)
(* the rest; together they find what that call finds, in the same order,    *)
(* and report the same errors in an order of their own.                     *)

(* Each call comes by its locals with errors of its own, own[k]; those that *)
(* all have reported are these, with the first row's, whatever their order. *)
Shared(src, calls, locals, threads, started, head, reported) ==
  \E own \in [0 .. threads -> Errors] :
    /\ own[0] = head
    /\ \A k \in 1 .. started :
         Passes(src, calls[k], Enter(calls[k], "RECORD_START", 0, <<>>),
                [locals |-> locals[k], errors |-> own[k]])
    /\ \A k \in (started + 1) .. threads : own[k] = <<>>
    /\ ToSet(reported) = Elements(own, threads)
    /\ Len(reported) = Cardinality(Cells(own, threads))

ThreadsInv ==
  Past /\ num_threads > 1 =>
    Shared(file, region, scan, num_threads, launched, HeadEnd.errors, errors)

(* The errors of the first row are there when it has been indexed.          *)
LEMMA CountColumnsShares == IInv /\ OneThreadInv /\ CountColumns => ThreadsInv'
<1> SUFFICES ASSUME IInv, OneThreadInv, CountColumns PROVE ThreadsInv'
  OBVIOUS
<1>1. /\ pc = "first_row" /\ scan[0].out \in {"end", "n_max"}
      /\ UNCHANGED <<file, n_max, start, nl, num_threads, region, scan, launched, errors>>
  BY DEF CountColumns
<1>2. launched = 0 /\ Opened /\ num_threads \in Nat /\ errors \in Errors
  BY <1>1 DEF IInv, TypeOK, LaunchOrder, Opened, Errors
<1>3. HeadEnd' = HeadEnd
  BY <1>1, SameReference
<1>4. HeadEnd = [locals |-> scan[0], errors |-> errors]
  <2> DEFINE call == [locals |-> scan[0], errors |-> errors]
  <2>1. Passes(file, HeadCall, HeadEntry, call)
    BY <1>1 DEF OneThreadInv, HeadKept
  <2>2. call.locals.out # "running"
    BY <1>1
  <2>3. Len(file) \in Nat
    BY FilesType DEF IInv, TypeOK, File
  <2> HIDE DEF call
  <2>4. QED  BY <1>2, <2>1, <2>2, <2>3, HeadType, PassesLast DEF HeadEnd, call
<1> DEFINE own == [k \in 0 .. num_threads |-> IF k = 0 THEN errors ELSE <<>>]
<1>5. /\ own \in [0 .. num_threads -> Errors] /\ own[0] = errors
      /\ \A k \in 1 .. num_threads : own[k] = <<>>
  <2>1. <<>> \in Errors
    BY DEF Errors
  <2>2. QED  BY <1>2, <2>1
<1> HIDE DEF own
<1>6. ToSet(errors) = Elements(own, num_threads)
  <2>1. ToSet(<<>>) = {}
    BY DEF ToSet
  <2>2. \A k \in 0 .. num_threads : ToSet(own[k]) = IF k = 0 THEN ToSet(errors) ELSE {}
    BY <1>5, <2>1
  <2>3. 0 \in 0 .. num_threads
    BY <1>2
  <2>4. QED  BY <2>2, <2>3 DEF Elements
<1>7. Len(errors) = Cardinality(Cells(own, num_threads))
  <2>1. Cells(own, num_threads) = Cells(own, 0)
    <3>1. \A k \in 1 .. num_threads : {k} \X (1 .. Len(own[k])) = {}
      BY <1>5
    <3>2. 0 .. num_threads = {0} \union 1 .. num_threads /\ 0 .. 0 = {0}
      BY <1>2
    <3>3. QED  BY <3>1, <3>2 DEF Cells
  <2>2. Len(own[0]) \in Nat
    BY <1>2, <1>5 DEF Errors
  <2>3. QED  BY <1>5, <2>1, <2>2, CellsFirst
<1>8. Shared(file, region, scan, num_threads, launched, HeadEnd.errors, errors)
  <2>1. 1 .. launched = {} /\ (launched + 1) .. num_threads = 1 .. num_threads
    BY <1>2
  <2>2. HeadEnd.errors = errors
    BY <1>4
  <2>3. QED  BY <1>5, <1>6, <1>7, <2>1, <2>2 DEF Shared
<1>9. QED  BY <1>1, <1>3, <1>8 DEF ThreadsInv

(* A thread enters its call with nothing to report.                         *)
LEMMA LaunchShares == IInv /\ ThreadsInv /\ Launch => ThreadsInv'
<1> SUFFICES ASSUME IInv, ThreadsInv, Launch, Past', num_threads' > 1
             PROVE  Shared(file, region, scan, num_threads, launched, HeadEnd.errors, errors)'
  BY DEF ThreadsInv
<1> DEFINE p == BatchRegion(file, nl, n_max, columns, num_threads, launched)
           r == Enter(p, "RECORD_START", 0, <<>>)
<1>1. /\ pc = "launch" /\ launched < num_threads /\ launched' = launched + 1
      /\ UNCHANGED <<file, n_max, start, nl, pc, num_threads, errors>>
  BY DEF Launch
<1>2. /\ launched \in Nat /\ num_threads \in Nat /\ launched + 1 \in 1 .. num_threads
      /\ DOMAIN scan = 0 .. num_threads /\ DOMAIN region = 0 .. num_threads /\ Opened /\ Past
  BY <1>1 DEF IInv, TypeOK, Opened, Past
<1>3. HeadEnd' = HeadEnd
  BY <1>1, SameReference
<1>4. n_max = Unlimited
  BY <1>1, <1>2 DEF IInv, FirstRowFound
<1>5. /\ region' = [region EXCEPT ![launched + 1] = p]
      /\ scan' = [scan EXCEPT ![launched + 1] = r]
  BY <1>4 DEF Launch
<1> HIDE DEF p, r
<1>6. /\ \A k \in 1 .. launched : region'[k] = region[k] /\ scan'[k] = scan[k]
      /\ region'[launched + 1] = p /\ scan'[launched + 1] = r
  BY <1>2, <1>5
<1>7. PICK own \in [0 .. num_threads -> Errors] :
        /\ own[0] = HeadEnd.errors
        /\ \A k \in 1 .. launched :
             Passes(file, region[k], Enter(region[k], "RECORD_START", 0, <<>>),
                    [locals |-> scan[k], errors |-> own[k]])
        /\ \A k \in (launched + 1) .. num_threads : own[k] = <<>>
        /\ ToSet(errors) = Elements(own, num_threads)
        /\ Len(errors) = Cardinality(Cells(own, num_threads))
  BY <1>1, <1>2 DEF ThreadsInv, Shared
<1>8. Passes(file, p, r, [locals |-> r, errors |-> own[launched + 1]])
  <2>1. own[launched + 1] = <<>>
    BY <1>2, <1>7
  <2>2. QED  BY <2>1, PassesFirst DEF Entered
<1>9. ASSUME NEW k \in 1 .. (launched + 1)
      PROVE  Passes(file, region'[k], Enter(region'[k], "RECORD_START", 0, <<>>),
                    [locals |-> scan'[k], errors |-> own[k]])
  <2>1. CASE k = launched + 1
    BY <1>6, <1>8, <2>1 DEF r
  <2>2. CASE k # launched + 1
    <3>1. k \in 1 .. launched
      BY <1>2, <2>2
    <3>2. QED  BY <1>6, <1>7, <3>1
  <2>3. QED  BY <2>1, <2>2
<1>10. \A k \in (launched + 2) .. num_threads : own[k] = <<>>
  BY <1>2, <1>7
<1>11. Shared(file, region', scan', num_threads, launched + 1, HeadEnd.errors, errors)
  <2>1. (launched + 1) + 1 = launched + 2
    BY <1>2
  <2>2. QED  BY <1>7, <1>9, <1>10, <2>1 DEF Shared
<1>12. QED  BY <1>1, <1>3, <1>11

(* An iteration is one of the thread's own call, and so is what it reports. *)
LEMMA IndexBatchShares ==
  ASSUME IInv, ThreadsInv, NEW k \in Threads, IndexBatch(k)
  PROVE  ThreadsInv'
<1> SUFFICES ASSUME Past', num_threads' > 1
             PROVE  Shared(file, region, scan, num_threads, launched, HeadEnd.errors, errors)'
  BY DEF ThreadsInv
<1> DEFINE more == ParseErrors(file, region[k], scan[k])
<1>1. /\ k <= launched /\ scan[k].out = "running"
      /\ scan' = [scan EXCEPT ![k] = IndexStep(file, region[k], scan[k])]
      /\ errors' = errors \o more
      /\ UNCHANGED <<file, n_max, start, nl, pc, num_threads, region, launched>>
  BY DEF IndexBatch, Iterate, Running
<1>2. /\ num_threads \in Nat /\ launched \in 0 .. num_threads /\ k \in 1 .. num_threads
      /\ k \in 1 .. launched /\ k \in 0 .. num_threads /\ DOMAIN scan = 0 .. num_threads
      /\ region[k] \in CallType /\ scan[k] \in LocalsType /\ errors \in Errors /\ Past
  BY <1>1 DEF Threads, IInv, TypeOK, Past, Errors
<1>3. HeadEnd' = HeadEnd
  BY <1>1, SameReference
<1>4. /\ scan'[k] = IndexStep(file, region[k], scan[k])
      /\ \A j \in 1 .. launched : j # k => scan'[j] = scan[j]
  BY <1>1, <1>2
<1>5. PICK own \in [0 .. num_threads -> Errors] :
        /\ own[0] = HeadEnd.errors
        /\ \A j \in 1 .. launched :
             Passes(file, region[j], Enter(region[j], "RECORD_START", 0, <<>>),
                    [locals |-> scan[j], errors |-> own[j]])
        /\ \A j \in (launched + 1) .. num_threads : own[j] = <<>>
        /\ ToSet(errors) = Elements(own, num_threads)
        /\ Len(errors) = Cardinality(Cells(own, num_threads))
  BY <1>1, <1>2 DEF ThreadsInv, Shared
<1> DEFINE now == [own EXCEPT ![k] = own[k] \o more]
<1>6. more \in Errors
  BY <1>2, ParseErrorsType DEF Errors
<1>7. /\ now \in [0 .. num_threads -> Errors] /\ now[k] = own[k] \o more
      /\ \A j \in 0 .. num_threads : j # k => now[j] = own[j]
  <2> HIDE DEF more
  <2>1. \A S : \A e, f \in Seq(S) : e \o f \in Seq(S)
    OBVIOUS
  <2>2. own[k] \in Errors
    BY <1>2
  <2>3. own[k] \o more \in Errors
    BY <1>6, <2>1, <2>2 DEF Errors
  <2>4. QED  BY <1>2, <2>3
<1>8. Passes(file, region[k], Enter(region[k], "RECORD_START", 0, <<>>),
             [locals |-> scan'[k], errors |-> now[k]])
  <2> DEFINE call  == [locals |-> scan[k], errors |-> own[k]]
             entry == Enter(region[k], "RECORD_START", 0, <<>>)
  <2>1. Passes(file, region[k], entry, call) /\ call.locals.out = "running"
    BY <1>1, <1>2, <1>5
  <2>2. Turn(file, region[k], call) = [locals |-> scan'[k], errors |-> now[k]]
    BY <1>4, <1>7 DEF Turn
  <2> HIDE DEF call, entry, now
  <2>3. Passes(file, region[k], entry, Turn(file, region[k], call))
    BY <2>1, PassesNext
  <2>4. QED  BY <2>2, <2>3 DEF entry
<1>9. /\ ToSet(errors') = Elements(now, num_threads)
      /\ Len(errors') = Cardinality(Cells(now, num_threads))
  <2> DEFINE T == [position : Nat, column : Nat]
  <2>1. more = <<>> \/ \E x \in T : more = <<x>>
    <3> DEFINE x == [position |-> scan[k].pos + region[k].file_offset,
                     column |-> scan[k].cols]
    <3>1. scan[k].pos \in Nat /\ region[k].file_offset \in Nat /\ scan[k].cols \in Nat
      BY <1>2, LocalsFields, CallFields
    <3>2. x \in T
      BY <3>1
    <3>3. more = <<>> \/ more = <<x>>
      BY DEF ParseErrors
    <3> HIDE DEF x, more, T
    <3>4. QED  BY <3>2, <3>3
  <2>2. CASE more = <<>>
    <3>1. \A S : \A e \in Seq(S) : e \o <<>> = e
      OBVIOUS
    <3>2. errors' = errors /\ own[k] \o <<>> = own[k]
      BY <1>1, <1>2, <2>2, <3>1 DEF Errors
    <3> HIDE DEF more
    <3>3. now = own
      BY <1>2, <2>2, <3>2
    <3> HIDE DEF now
    <3>4. QED  BY <1>5, <3>2, <3>3
  <2>3. CASE \E x \in T : more = <<x>>
    <3>1. PICK x \in T : more = <<x>>
      BY <2>3
    <3>2. <<x>> \in Errors
      BY <3>1 DEF Errors
    <3> HIDE DEF T, more
    <3>3. errors' = errors \o <<x>> /\ now[k] = own[k] \o <<x>>
      BY <1>1, <1>7, <3>1
    <3> HIDE DEF now
    <3>4. errors \in Seq(T)
      BY <1>2 DEF Errors, T
    <3>5. num_threads \in Nat /\ k \in 0 .. num_threads /\ x \in T
      BY <1>2, <3>1
    <3>6. /\ Cardinality(Cells(now, num_threads)) = Cardinality(Cells(own, num_threads)) + 1
          /\ Elements(now, num_threads) = Elements(own, num_threads) \union {x}
      <4>1. /\ own \in [0 .. num_threads -> Errors] /\ now \in [0 .. num_threads -> Errors]
            /\ GrowsBy(own, now, num_threads, k, x)
        BY <1>7, <3>3 DEF GrowsBy
      <4>2. QED  BY <3>2, <3>5, <4>1, CellsGrow
    <3>7. Len(errors') = Len(errors) + 1
      BY <3>3, <3>4, <3>5
    <3>8. ToSet(errors') = ToSet(errors) \union {x}
      <4>1. <<x>> \in Seq(T)
        BY <3>5
      <4>2. \A e \in Seq(T) : ToSet(errors \o e) = ToSet(errors) \union ToSet(e)
        BY <3>4, ToSetOfTwo
      <4>3. ToSet(<<x>>) = {x}
        BY DEF ToSet
      <4>4. QED  BY <3>3, <4>1, <4>2, <4>3
    <3>9. QED  BY <1>5, <3>6, <3>7, <3>8
  <2>4. QED  BY <2>1, <2>2, <2>3
<1> HIDE DEF now, more
<1>10. \A j \in 1 .. launched :
         Passes(file, region[j], Enter(region[j], "RECORD_START", 0, <<>>),
                [locals |-> scan'[j], errors |-> now[j]])
  <2> SUFFICES ASSUME NEW j \in 1 .. launched
               PROVE  Passes(file, region[j], Enter(region[j], "RECORD_START", 0, <<>>),
                             [locals |-> scan'[j], errors |-> now[j]])
    OBVIOUS
  <2>1. CASE j = k
    BY <1>8, <2>1
  <2>2. CASE j # k
    <3>1. now[j] = own[j] /\ scan'[j] = scan[j]
      BY <1>2, <1>4, <1>7, <2>2
    <3>2. QED  BY <1>5, <3>1
  <2>3. QED  BY <2>1, <2>2
<1>11. now[0] = HeadEnd.errors /\ \A j \in (launched + 1) .. num_threads : now[j] = <<>>
  BY <1>2, <1>5, <1>7
<1>12. Shared(file, region, scan', num_threads, launched, HeadEnd.errors, errors')
  BY <1>7, <1>9, <1>10, <1>11 DEF Shared
<1>13. QED  BY <1>1, <1>3, <1>12

(* There is no first row at first, nor when the constructor starts over; no *)
(* other action touches the calls or the errors.                            *)
LEMMA InitThreads == Init => ThreadsInv
BY DEF Init, ThreadsInv, Past

LEMMA NextThreads == IInv /\ OneThreadInv /\ ThreadsInv /\ [Next]_vars => ThreadsInv'
<1> SUFFICES ASSUME IInv, OneThreadInv, ThreadsInv, [Next]_vars PROVE ThreadsInv'
  OBVIOUS
<1>1. ASSUME UNCHANGED <<file, n_max, start, nl, num_threads, region, scan, launched, errors>>,
             Past' => Past
      PROVE  ThreadsInv'
  <2>1. HeadEnd' = HeadEnd
    BY <1>1, SameReference
  <2>2. QED  BY <1>1, <2>1 DEF ThreadsInv
<1>2. ASSUME ~Past' PROVE ThreadsInv'
  BY <1>2 DEF ThreadsInv
<1>3. CASE SkipLine \/ Open \/ Restart \/ IndexFirstRow
  BY <1>2, <1>3 DEF SkipLine, Open, Restart, IndexFirstRow, StartIndexing, Past
<1>4. CASE OpenEmpty
  <2>1. launched' = 0
    BY <1>4 DEF OpenEmpty, IInv, LaunchOrder
  <2>2. QED  BY <1>2, <1>4, <2>1 DEF OpenEmpty, Past
<1>5. CASE Launched \/ Display \/ WakeUp \/ Join \/ Throw \/ CountRows
  BY <1>1, <1>5 DEF Launched, Display, WakeUp, Join, Throw, CountRows, Past
<1>6. CASE Done \/ UNCHANGED vars
  BY <1>1, <1>6 DEF Done, vars, Past
<1>7. QED
  BY <1>3, <1>4, <1>5, <1>6, CountColumnsShares, LaunchShares, IndexBatchShares
  DEF Next, Main

(* The first batch starts and the last one ends where there is but one.     *)
LEMMA CutEnds ==
  ASSUME NEW src \in File, NEW to \in 0 .. (Len(src) - 1), NEW threads \in Nat \ {0}
  PROVE  /\ Cut(src, to, threads, 0) = FindNextNewline(src, to)[1] + 1
         /\ Cut(src, to, threads, threads) = Len(src)
<1>1. Len(src) \in Nat /\ Len(src) - to \in Nat
  BY DEF File
<1>2. Cut(src, to, threads, 0) = FindNextNewline(src, to)[1] + 1
  <2>1. PICK batch \in Nat : batch = (Len(src) - to) \div threads
    BY <1>1, Quotient
  <2>2. 0 * batch = 0 /\ to + 0 = to
    OBVIOUS
  <2>3. CutAt(src, to, threads, 0) = to
    BY <2>1, <2>2 DEF CutAt
  <2>4. QED  BY <2>3 DEF Cut
<1>3. Cut(src, to, threads, threads) = Len(src)
  <2>1. CutAt(src, to, threads, threads) = Len(src)
    BY <1>1 DEF CutAt
  <2>2. FindNextNewline(src, Len(src))[1] = Len(src) - 1
    BY <1>1 DEF FindNextNewline
  <2>3. QED  BY <1>1, <2>1, <2>2 DEF Cut
<1>4. QED  BY <1>2, <1>3

(* The reference's call for the rest, when all rows are read.               *)
LEMMA RestOfLineFeeds ==
  ASSUME IInv, Opened, n_max = Unlimited, UnixOrWindows(file)
  PROVE  /\ RestCall.start = FindNextNewline(file, nl[1])[1] + 1 /\ RestCall.end = FileSize
         /\ RestCall.nl = "lf" /\ RestCall.n_max = Unlimited /\ RestCall.num_cols = Columns
         /\ RestCall.num_threads = 1 /\ RestCall.file_offset = 0
         /\ RestEntry = Enter(RestCall, "RECORD_START", 0, <<>>)
<1>1. /\ file \in File /\ FileSize = Len(file) /\ Len(file) \in Nat
      /\ nl \in Nat \X {"lf", "cr"} /\ nl[1] \in 0 .. (Len(file) - 1)
  BY FirstRowFacts DEF FileSize
<1>2. /\ RestCall = BatchRegion(file, nl, Unlimited, Columns, 1, 0)
      /\ RestEntry = Enter(RestCall, "RECORD_START", 0, <<>>)
  BY DEF RestCall, RestEntry
<1>3. RestCall.start = Cut(file, nl[1], 1, 0) /\ RestCall.end = Cut(file, nl[1], 1, 1)
  <2>1. Columns \in Nat
    <3>1. HeadEnd.locals.destination \in Seq(Nat)
      BY HeadType, LocalsFields DEF CallsOf
    <3>2. QED  BY <3>1 DEF Columns, ColumnsOf
  <2>2. 0 \in 0 .. (1 - 1) /\ 1 \in Nat \ {0} /\ 0 + 1 = 1
    OBVIOUS
  <2>3. nl[1] < Len(file) /\ n_max \in Limit
    BY <1>1 DEF Limit
  <2>4. BetweenCuts(BatchRegion(file, nl, n_max, Columns, 1, 0), file, nl[1], 1, 0)
    BY <1>1, <2>1, <2>2, <2>3, BatchRegionCut
  <2>5. QED  BY <1>2, <2>2, <2>4 DEF BetweenCuts
<1>4. RestCall.start = FindNextNewline(file, nl[1])[1] + 1 /\ RestCall.end = FileSize
  <2>1. 1 \in Nat \ {0}
    OBVIOUS
  <2>2. /\ Cut(file, nl[1], 1, 0) = FindNextNewline(file, nl[1])[1] + 1
        /\ Cut(file, nl[1], 1, 1) = Len(file)
    BY <1>1, <2>1, CutEnds
  <2>3. QED  BY <1>1, <1>3, <2>2
<1>5. RestCall.nl = "lf"
  <2>1. PICK batch \in Nat : batch = (Len(file) - nl[1]) \div 1
    <3>1. Len(file) - nl[1] \in Nat /\ 1 \in Nat \ {0}
      BY <1>1
    <3>2. QED  BY <3>1, Quotient
  <2>2. RestCall.nl = FindNextNewline(file, nl[1] + 0 * batch)[2]
    BY <1>2, <2>1 DEF BatchRegion, Region
  <2>3. nl[1] + 0 * batch \in Nat
    BY <1>1
  <2>4. QED  BY <1>1, <2>2, <2>3, FindsLineFeed
<1>6. /\ RestCall.n_max = Unlimited /\ RestCall.num_cols = Columns
      /\ RestCall.num_threads = 1 /\ RestCall.file_offset = 0
  BY <1>2 DEF BatchRegion, Region, NMaxWithHeader
<1>7. QED  BY <1>2, <1>4, <1>5, <1>6

(* The call of a thread is for a part of it.                                *)
LEMMA ThreadIsPart ==
  ASSUME IInv, RowsInv, OneThreadInv, UnixOrWindows(file), Past, num_threads > 1,
         NEW k \in 1 .. launched
  PROVE  /\ LineFeedCall(file, region[k]) /\ PartOf(region[k], RestCall)
         /\ region[k].start <= region[k].end
         /\ region[k].start = Cut(file, nl[1], num_threads, k - 1)
         /\ region[k].end = Cut(file, nl[1], num_threads, k)
<1>1. /\ Opened /\ n_max = Unlimited /\ columns = Columns /\ columns \in Nat
      /\ num_threads \in Nat \ {0} /\ launched \in 0 .. num_threads
  BY DEF Past, Opened, IInv, TypeOK, FirstRowFound, OneThreadInv, HeadKept
<1>2. /\ file \in File /\ FileSize = Len(file) /\ Len(file) \in Nat
      /\ nl \in Nat \X {"lf", "cr"} /\ nl[1] \in 0 .. (Len(file) - 1)
  BY <1>1, FirstRowFacts DEF FileSize
<1>3. /\ LineFeedCall(file, region[k]) /\ region[k].file_offset = 0
      /\ region[k].num_cols = columns
  BY ThreadsReadLineFeeds
<1>4. k - 1 \in 0 .. (num_threads - 1) /\ (k - 1) + 1 = k
  BY <1>1
<1>5. /\ region[k].start <= region[k].end
      /\ region[k].start = Cut(file, nl[1], num_threads, k - 1)
      /\ region[k].end = Cut(file, nl[1], num_threads, k)
  <2>1. region[k] = BatchRegion(file, nl, n_max, columns, num_threads, k - 1)
    BY <1>1 DEF RowsInv
  <2>2. n_max \in Limit
    BY <1>1 DEF Limit
  <2>3. BetweenCuts(BatchRegion(file, nl, n_max, columns, num_threads, k - 1),
                    file, nl[1], num_threads, k - 1)
    BY <1>1, <1>2, <1>4, <2>2, BatchRegionCut
  <2>4. QED  BY <1>4, <2>1, <2>3 DEF BetweenCuts
<1>6. /\ RestCall \in CallType /\ RestCall.start = FindNextNewline(file, nl[1])[1] + 1
      /\ RestCall.end = Len(file) /\ RestCall.nl = "lf" /\ RestCall.n_max = Unlimited
      /\ RestCall.num_cols = columns /\ RestCall.num_threads = 1 /\ RestCall.file_offset = 0
  BY <1>1, <1>2, RestType, RestOfLineFeeds
<1>7. RestCall.start <= region[k].start
  <2>1. PICK batch \in Nat : batch = (Len(file) - nl[1]) \div num_threads
    <3>1. Len(file) - nl[1] \in Nat
      BY <1>2
    <3>2. QED  BY <1>1, <3>1, Quotient
  <2>2. CutAt(file, nl[1], num_threads, k - 1) = nl[1] + (k - 1) * batch
    BY <1>1, <1>4, <2>1 DEF CutAt
  <2>3. (k - 1) * batch \in Nat
    <3>1. \A i, j \in Nat : i * j \in Nat
      OBVIOUS
    <3>2. QED  BY <1>4, <3>1
  <2>4. PICK from \in Nat : from = CutAt(file, nl[1], num_threads, k - 1) /\ nl[1] <= from
    BY <1>2, <2>2, <2>3
  <2>5. nl[1] \in Nat
    BY <1>2
  <2>6. FindNextNewline(file, nl[1])[1] <= FindNextNewline(file, from)[1]
    BY <1>2, <2>4, <2>5, FindNextNewlineMonotonic
  <2>7. FindNextNewline(file, nl[1])[1] \in Nat /\ FindNextNewline(file, from)[1] \in Nat
    BY <1>2, <2>4, <2>5, FindNextNewlineInFile
  <2>8. region[k].start = FindNextNewline(file, from)[1] + 1
    BY <1>5, <2>4 DEF Cut
  <2>9. QED  BY <1>6, <2>6, <2>7, <2>8
<1>8. region[k].end <= Len(file) /\ region[k].nl = "lf"
  BY <1>3 DEF LineFeedCall
<1>9. PartOf(region[k], RestCall)
  BY <1>3, <1>6, <1>7, <1>8 DEF PartOf
<1>10. QED  BY <1>3, <1>5, <1>9

(* When the threads have all ended, the reference's call has reached the    *)
(* end of each batch, and then the end of the file, with what they have     *)
(* found up to there.                                                       *)
LEMMA ThreadsReach ==
  ASSUME IInv, RowsInv, OneThreadInv, UnixOrWindows(file), SkipEmptyRows, ~EscapeBackslash,
         pc = "done", launched > 0, num_threads > 1,
         NEW own \in [0 .. num_threads -> Errors],
         \A k \in 1 .. num_threads :
           Passes(file, region[k], Enter(region[k], "RECORD_START", 0, <<>>),
                  [locals |-> scan[k], errors |-> own[k]]),
         NEW f \in [0 .. num_threads -> Seq(Nat)],
         Joins([k \in 0 .. num_threads |-> scan[k].destination], f, num_threads),
         NEW g \in [0 .. num_threads -> Errors], Joins(own, g, num_threads)
  PROVE  \E D \in Seq(Nat), E \in Errors :
           /\ Reaches(file, RestCall, RestEntry, FileSize, D, E)
           /\ f[num_threads] = scan[0].destination \o D
           /\ g[num_threads] = own[0] \o E
<1>1. /\ num_threads \in Nat \ {0} /\ launched = num_threads /\ joined = num_threads
      /\ Past /\ Opened /\ n_max = Unlimited
      /\ \A k \in 0 .. num_threads : scan[k] \in LocalsType
  BY DEF Past, Opened, IInv, TypeOK, FirstRowFound, OneThreadInv, EndedWell
<1>2. /\ file \in File /\ FileSize = Len(file) /\ Len(file) \in Nat
      /\ nl[1] \in 0 .. (Len(file) - 1)
  BY <1>1, FirstRowFacts DEF FileSize
<1> DEFINE cut(k) == Cut(file, nl[1], num_threads, k)
           Found(k, D, E) == /\ Reaches(file, RestCall, RestEntry, cut(k), D, E)
                             /\ f[k] = scan[0].destination \o D
                             /\ g[k] = own[0] \o E
           T == {k \in 0 .. num_threads : \E D \in Seq(Nat), E \in Errors : Found(k, D, E)}
<1>3. /\ f[0] = scan[0].destination /\ scan[0].destination \in Seq(Nat)
      /\ g[0] = own[0] /\ own[0] \in Errors
      /\ \A k \in 1 .. num_threads : f[k] = f[k - 1] \o scan[k].destination
      /\ \A k \in 1 .. num_threads : g[k] = g[k - 1] \o own[k]
  <2>1. 0 \in 0 .. num_threads /\ \A k \in 1 .. num_threads : k \in 0 .. num_threads
    BY <1>1
  <2>2. scan[0].destination \in Seq(Nat)
    BY <1>1, <2>1, LocalsFields
  <2>3. QED  BY <2>1, <2>2 DEF Joins
<1>4. 0 \in T
  <2>1. /\ RestCall.start = cut(0) /\ RestCall \in CallType /\ RestCall.start <= RestCall.end
        /\ RestEntry = Enter(RestCall, "RECORD_START", 0, <<>>) /\ RestEntry \in LocalsType
        /\ RestEntry.pos = RestCall.start /\ RestEntry.last_tick <= RestCall.end
    BY <1>1, <1>2, RestType, RestOfLineFeeds, CutEnds
  <2>2. /\ RestEntry.state = "RECORD_START" /\ RestEntry.cols = 0
        /\ RestEntry.out = "running" /\ RestEntry.destination = <<>>
    BY <2>1 DEF Enter
  <2>3. Passes(file, RestCall, RestEntry, [locals |-> RestEntry, errors |-> <<>>])
    BY PassesFirst DEF Entered
  <2>4. Reaches(file, RestCall, RestEntry, cut(0), <<>>, <<>>)
    BY <2>1, <2>2, <2>3 DEF Reaches
  <2>5. <<>> \in Seq(Nat) /\ <<>> \in Errors
    BY DEF Errors
  <2>6. scan[0].destination \o <<>> = scan[0].destination /\ own[0] \o <<>> = own[0]
    <3>1. \A S : \A e \in Seq(S) : e \o <<>> = e
      OBVIOUS
    <3>2. QED  BY <1>3, <3>1 DEF Errors
  <2> HIDE DEF cut
  <2>7. Found(0, <<>>, <<>>)
    BY <1>3, <2>4, <2>6
  <2> HIDE DEF Found
  <2>8. \E d \in Seq(Nat), e \in Errors : Found(0, d, e)
    BY <2>5, <2>7
  <2>9. QED  BY <1>1, <2>8
<1>5. ASSUME NEW k \in 1 .. num_threads, k - 1 \in T PROVE k \in T
  <2>1. PICK D \in Seq(Nat), E \in Errors : Found(k - 1, D, E)
    BY <1>5
  <2>2. /\ k \in 1 .. launched /\ k \in 0 .. num_threads /\ k \in 1 .. joined
        /\ scan[k] \in LocalsType
    BY <1>1
  <2>3. /\ LineFeedCall(file, region[k]) /\ PartOf(region[k], RestCall)
        /\ region[k].start <= region[k].end
        /\ region[k].start = cut(k - 1) /\ region[k].end = cut(k)
    BY <1>1, <2>2, ThreadIsPart
  <2>4. RestCall.end <= Len(file)
    BY <1>1, RestType
  <2>5. scan[k].out = "end"
    <3>1. scan[k].out \in {"end", "n_max"}
      BY <2>2 DEF OneThreadInv, EndedWell
    <3>2. RowsKept(k)
      BY <2>2 DEF RowsInv
    <3>3. QED  BY <3>1, <3>2 DEF RowsKept
  <2> DEFINE call == [locals |-> scan[k], errors |-> own[k]]
  <2>6. /\ Passes(file, region[k], Enter(region[k], "RECORD_START", 0, <<>>), call)
        /\ call.locals.out = "end" /\ call.locals.destination = scan[k].destination
        /\ call.errors = own[k]
    BY <2>5
  <2> HIDE DEF call, T, cut
  <2>7. Reaches(file, RestCall, RestEntry, region[k].start, D, E)
    BY <2>1, <2>3
  <2>8. Reaches(file, RestCall, RestEntry, region[k].end,
                D \o call.locals.destination, E \o call.errors)
    BY <1>2, <2>3, <2>4, <2>6, <2>7, PartReached
  <2>9. Reaches(file, RestCall, RestEntry, cut(k), D \o scan[k].destination, E \o own[k])
    BY <2>3, <2>6, <2>8
  <2>10. /\ \A a, b, c \in Seq(Nat) :
               b \o c \in Seq(Nat) /\ (a \o b) \o c = a \o (b \o c)
         /\ \A a, b, c \in Errors : b \o c \in Errors /\ (a \o b) \o c = a \o (b \o c)
    BY PositionsInARow, ErrorsInARow
  <2>11. scan[k].destination \in Seq(Nat) /\ own[k] \in Errors
    BY <2>2, LocalsFields
  <2>12. /\ D \o scan[k].destination \in Seq(Nat)
         /\ f[k] = scan[0].destination \o (D \o scan[k].destination)
    <3>1. f[k - 1] = scan[0].destination \o D
      BY <2>1
    <3>2. f[k] = (scan[0].destination \o D) \o scan[k].destination
      BY <1>3, <3>1
    <3>3. QED  BY <1>3, <2>10, <2>11, <3>2
  <2>13. E \o own[k] \in Errors /\ g[k] = own[0] \o (E \o own[k])
    <3>1. g[k - 1] = own[0] \o E
      BY <2>1
    <3>2. g[k] = (own[0] \o E) \o own[k]
      BY <1>3, <3>1
    <3>3. QED  BY <1>3, <2>10, <2>11, <3>2
  <2>14. Found(k, D \o scan[k].destination, E \o own[k])
    BY <2>9, <2>12, <2>13
  <2> HIDE DEF Found
  <2>15. \E d \in Seq(Nat), e \in Errors : Found(k, d, e)
    BY <2>12, <2>13, <2>14
  <2>16. QED  BY <2>2, <2>15 DEF T
<1>6. num_threads \in T
  <2> HIDE DEF T
  <2>1. \A k \in 0 .. num_threads : k \in T
    BY <1>1, <1>4, <1>5, UpTo
  <2>2. QED  BY <1>1, <2>1
<1>7. cut(num_threads) = FileSize
  BY <1>1, <1>2, CutEnds
<1> HIDE DEF cut
<1>8. QED  BY <1>6, <1>7

(* Several threads that have not had to start over are the reference, too.  *)
LEMMA ThreadsAnswer ==
  ASSUME IInv, RowsInv, OneThreadInv, ThreadsInv, UnixOrWindows(file), SkipEmptyRows,
         ~EscapeBackslash, pc = "done", launched > 0, num_threads > 1
  PROVE  Answer = Sequential!Finished(SequentialAnswer(file, n_max, Skip))
<1>1. /\ num_threads \in Nat \ {0} /\ num_threads \in Nat /\ launched = num_threads
      /\ Past /\ Opened /\ n_max = Unlimited
      /\ \A k \in 0 .. num_threads : scan[k] \in LocalsType
  BY DEF Past, Opened, IInv, TypeOK, FirstRowFound, OneThreadInv, EndedWell
<1>2. /\ file \in File /\ FileSize = Len(file) /\ FileSize \in Nat /\ start \in Nat
  BY <1>1, FirstRowFacts DEF FileSize
<1>3. /\ start = FindFirstLine(file, Skip) /\ start < FileSize - 1
      /\ nl = FindNewline(file, start)
  BY <1>1 DEF OneThreadInv, LinesSkipped, IInv, FirstRowFound
<1>4. scan[0] = HeadEnd.locals /\ columns = Columns /\ rows = RowsOf(IdxSize, columns)
  BY <1>1 DEF OneThreadInv, HeadKept, EndedWell
<1> DEFINE dest == [k \in 0 .. num_threads |-> scan[k].destination]
<1>5. dest \in [0 .. num_threads -> Seq(Nat)] /\ \A k \in 0 .. num_threads : dest[k] = scan[k].destination
  BY <1>1, LocalsFields
<1>6. PICK f \in [0 .. num_threads -> Seq(Nat)] :
        /\ Joins(dest, f, num_threads)
        /\ FlattenSeq([k \in 1 .. (num_threads + 1) |-> dest[k - 1]]) = f[num_threads]
  <2> HIDE DEF dest
  <2>1. QED  BY <1>1, <1>5, JoinSteps
<1>7. FlattenSeq([k \in 1 .. (num_threads + 1) |-> scan[k - 1].destination]) = f[num_threads]
  <2>1. \A k \in 1 .. (num_threads + 1) : k - 1 \in 0 .. num_threads
    BY <1>1
  <2>2. \A k \in 1 .. (num_threads + 1) : dest[k - 1] = scan[k - 1].destination
    BY <1>5, <2>1
  <2> HIDE DEF dest
  <2>3. [k \in 1 .. (num_threads + 1) |-> scan[k - 1].destination]
          = [k \in 1 .. (num_threads + 1) |-> dest[k - 1]]
    BY <2>2
  <2>4. QED  BY <1>6, <2>3
<1>8. PICK own \in [0 .. num_threads -> Errors] :
        /\ own[0] = HeadEnd.errors
        /\ \A k \in 1 .. num_threads :
             Passes(file, region[k], Enter(region[k], "RECORD_START", 0, <<>>),
                    [locals |-> scan[k], errors |-> own[k]])
        /\ ToSet(errors) = Elements(own, num_threads)
        /\ Len(errors) = Cardinality(Cells(own, num_threads))
  BY <1>1 DEF ThreadsInv, Shared
<1>9. PICK g \in [0 .. num_threads -> Errors] : Joins(own, g, num_threads)
  <2> DEFINE S == [position : Nat, column : Nat]
  <2>1. Errors = Seq(S)
    BY DEF Errors
  <2> HIDE DEF S
  <2>2. own \in [0 .. num_threads -> Seq(S)]
    BY <2>1
  <2>3. \E g \in [0 .. num_threads -> Seq(S)] : Joins(own, g, num_threads)
    BY <1>1, <2>2, JoinSteps
  <2>4. QED  BY <2>1, <2>3
<1>10. PICK D \in Seq(Nat), E \in Errors :
         /\ Reaches(file, RestCall, RestEntry, FileSize, D, E)
         /\ f[num_threads] = scan[0].destination \o D
         /\ g[num_threads] = own[0] \o E
  BY <1>6, <1>8, <1>9, ThreadsReach
<1>11. RestEnd.locals.destination = D /\ RestEnd.errors = E
  <2>1. /\ RestCall \in CallType /\ RestCall.start <= RestCall.end
        /\ RestCall.end <= Len(file) /\ RestEntry \in LocalsType
        /\ RestEntry.pos = RestCall.start /\ RestEntry.last_tick <= RestCall.end
    BY <1>1, RestType
  <2>2. RestCall.end = FileSize /\ RestCall.n_max = Unlimited
    BY <1>1, RestOfLineFeeds
  <2>3. Reaches(file, RestCall, RestEntry, RestCall.end, D, E) /\ Len(file) \in Nat
    BY <1>2, <1>10, <2>2
  <2>4. EnteredFor(file, RestCall, RestEntry)
    BY <2>1, <2>2, <2>3 DEF EnteredFor
  <2>5. QED  BY <2>3, <2>4, ReachesEnd DEF RestEnd
<1> DEFINE seps   == HeadEnd.locals.destination \o RestEnd.locals.destination
           wrong  == HeadEnd.errors \o RestEnd.errors
<1>12. f[num_threads] = seps /\ g[num_threads] = wrong
  BY <1>4, <1>8, <1>10, <1>11
<1>13. IdxSize = Len(seps)
  <2>1. Separators = Cells(dest, num_threads)
    BY <1>5 DEF Separators, Cells
  <2> HIDE DEF dest, seps
  <2>2. Len(f[num_threads]) = Cardinality(Cells(dest, num_threads))
    BY <1>1, <1>5, <1>6, JoinedHas
  <2>3. QED  BY <1>12, <2>1, <2>2 DEF IdxSize
<1>14. ToSet(errors) = ToSet(wrong) /\ Len(errors) = Len(wrong)
  <2> DEFINE S == [position : Nat, column : Nat]
  <2>1. Errors = Seq(S)
    BY DEF Errors
  <2> HIDE DEF S, wrong
  <2>2. own \in [0 .. num_threads -> Seq(S)] /\ g \in [0 .. num_threads -> Seq(S)]
    BY <2>1
  <2>3. /\ Len(g[num_threads]) = Cardinality(Cells(own, num_threads))
        /\ ToSet(g[num_threads]) = Elements(own, num_threads)
    BY <1>1, <1>9, <2>2, JoinedHas
  <2>4. QED  BY <1>8, <1>12, <2>3
<1> DEFINE index == SequentialAnswer(file, n_max, Skip)
<1>15. /\ index.separators = seps /\ index.columns = columns /\ index.rows = rows
       /\ index.errors = wrong
  <2>1. index = [separators |-> seps, columns |-> Columns, rows |-> RowsOf(Len(seps), Columns),
                 errors |-> wrong]
    BY <1>2, <1>3, ReferenceUnfolds
  <2> HIDE DEF seps, wrong, index
  <2>2. rows = RowsOf(Len(seps), Columns)
    BY <1>4, <1>13
  <2>3. QED  BY <1>4, <2>1, <2>2
<1> HIDE DEF dest, seps, wrong, index
<1>16. Sequential!Finished(index) =
         [phase |-> "done", separators |-> index.separators, columns |-> index.columns,
          rows |-> index.rows, errors |-> ToSet(index.errors),
          error_count |-> Len(index.errors)]
  <2>1. \A s : Sequential!ToSet(s) = ToSet(s)
    BY DEF Sequential!ToSet, ToSet
  <2>2. QED  BY <2>1 DEF Sequential!Finished
<1>17. Answer = [phase |-> "done", separators |-> seps, columns |-> columns, rows |-> rows,
                 errors |-> ToSet(errors), error_count |-> Len(errors)]
  BY <1>7, <1>12 DEF Answer
<1>18. Answer = Sequential!Finished(index)
  BY <1>14, <1>15, <1>16, <1>17
<1>19. QED  BY <1>18 DEF index

(* What the index that is returned needs to be the reference's.             *)
ThreadsAgree == IInv /\ RowsInv /\ OneThreadInv /\ ThreadsInv

LEMMA NextThreadsAgree ==
  ASSUME SkipEmptyRows, ~EscapeBackslash, \A f \in Files : UnixOrWindows(f)
  PROVE  /\ Init => ThreadsAgree
         /\ ThreadsAgree /\ [Next]_vars => ThreadsAgree'
BY InitIInv, InitRowsInv, InitOneThread, InitThreads,
   NextIInv, NextRowsInv, NextOneThread, NextThreads DEF ThreadsAgree

LEMMA AnyThreadsAnswer ==
  ASSUME SkipEmptyRows, ~EscapeBackslash, \A f \in Files : UnixOrWindows(f),
         ThreadsAgree, pc = "done"
  PROVE  Answer = Sequential!Finished(SequentialAnswer(file, n_max, Skip))
<1>1. UnixOrWindows(file) /\ num_threads \in Nat \ {0} /\ launched \in Nat
  BY DEF ThreadsAgree, IInv, TypeOK
<1>2. CASE num_threads = 1 \/ launched = 0
  BY <1>2, OneThreadAnswers DEF ThreadsAgree
<1>3. CASE num_threads > 1 /\ launched > 0
  BY <1>1, <1>3, ThreadsAnswer DEF ThreadsAgree
<1>4. QED  BY <1>1, <1>2, <1>3

(* When empty rows are skipped, no backslash escapes and lines end as on    *)
(* Unix or Windows, the constructor returns the index of the reference,     *)
(* with the same parse errors in some order, for every file and number of   *)
(* threads, wherever the batches end and however the threads interleave.    *)
THEOREM AnyNumberOfThreads ==
  ASSUME SkipEmptyRows, ~EscapeBackslash, \A f \in Files : UnixOrWindows(f)
  PROVE  Spec => [](pc = "done" =>
                      Answer = Sequential!Finished(SequentialAnswer(file, n_max, Skip)))
<1>1. ThreadsAgree =>
        (pc = "done" => Answer = Sequential!Finished(SequentialAnswer(file, n_max, Skip)))
  BY AnyThreadsAnswer
<1>2. QED  BY <1>1, NextThreadsAgree, PTL DEF Spec

(* Under the same conditions the constructor implements what Indexing       *)
(* promises, but for its end, which needs fairness: nothing is seen of the  *)
(* index until it is there, all of it at once, and it stays as it is.       *)
THEOREM ThreadsImplementIndexing ==
  ASSUME SkipEmptyRows, ~EscapeBackslash, \A f \in Files : UnixOrWindows(f)
  PROVE  Spec => Sequential!Init /\ [][Sequential!Answered]_(Sequential!vars)
<1>1. Init => Sequential!Init
  BY InitImplements
<1> DEFINE Returned == Sequential!Finished(SequentialAnswer(file, n_max, Skip))
<1>2. ThreadsAgree => (pc = "done" => Answer = Returned)
  BY AnyThreadsAnswer
<1>3. (ThreadsAgree => (pc = "done" => Answer = Returned))'
  BY <1>2, PTL
<1>4. ASSUME ThreadsAgree, ThreadsAgree', [Next]_vars
      PROVE  [Sequential!Answered]_(Sequential!vars)
  BY <1>2, <1>3, <1>4, AnsweredOnce
<1>5. QED  BY <1>1, <1>4, NextThreadsAgree, PTL DEF Spec

(* Indexing promises that the constructor returns, too: whenever it does,    *)
(* it keeps all of the promise.  That the threads let it return is for the  *)
(* scheduler, and TLC checks it.                                            *)
THEOREM ThreadsIndexLikeOne ==
  ASSUME SkipEmptyRows, ~EscapeBackslash, \A f \in Files : UnixOrWindows(f)
  PROVE  Spec /\ <>(pc = "done") => IndexesLikeOneThread
<1>1. Spec => Sequential!Init /\ [][Sequential!Answered]_(Sequential!vars)
  BY ThreadsImplementIndexing
<1>2. [Sequential!Answered]_(Sequential!vars) =>
        [Sequential!Answered \/ Sequential!Refused]_(Sequential!vars)
  OBVIOUS
<1>3. pc = "done" => Answer.phase # "indexing"
  BY DEF Answer
<1>4. QED  BY <1>1, <1>2, <1>3, PTL DEF IndexesLikeOneThread, Sequential!Spec

----------------------------------------------------------------------------
(* A limit on the rows.  One thread reads the first row with a limit as     *)
(* without, and then the rows that the limit lets through: the first ones   *)
(* of the index that the reference builds without it.                       *)

(* The first row of such a file ends at a line feed, or at the carriage     *)
(* return before the last one, where the search for it stops short.         *)
LEMMA FirstRowEnds ==
  ASSUME NEW src \in File, UnixOrWindows(src), NEW pos \in Nat
  PROVE  LET to == FindNewline(src, pos)
         IN  /\ At(src, Len(src) - 1) = "lf"
             /\ \/ to[2] = "lf" /\ At(src, to[1]) = "lf"
                \/ to[2] = "cr" /\ At(src, to[1]) = "cr" /\ to[1] + 1 = Len(src) - 1
<1>1. Len(src) \in Nat /\ Len(src) > 0
  BY DEF File
<1>2. At(src, Len(src) - 1) = "lf"
  <2>1. FindNextNewline(src, Len(src)) = <<Len(src) - 1, "lf">>
    BY <1>1 DEF FindNextNewline
  <2>2. At(src, FindNextNewline(src, Len(src))[1]) = "lf"
    BY <1>1, FindsLineFeed
  <2>3. QED  BY <2>1, <2>2
<1>3. CASE ~HasQuote
  <2>1. FindNewline(src, pos) = FindNextNewline(src, pos)
    BY <1>3 DEF FindNewline
  <2>2. QED  BY <1>2, <2>1, FindsLineFeed
<1>4. CASE HasQuote
  <2> DEFINE last == Len(src) - 1
             hits == {q \in pos .. last :
                        /\ At(src, q) \in {"lf", "cr"}
                        /\ TRUE => ~InQuote(src, pos, q)
                        /\ q = last =>
                             q > pos /\ At(src, q - 1) \notin {"lf", "cr", "quote"}}
  <2>1. FindNewline(src, pos) = IF hits = {} THEN <<last, "lf">>
                                ELSE NewlineAt(src, Min(hits), last)
    BY <1>4 DEF FindNewline, FindNextNonQuotedNewline
  <2>2. CASE hits = {}
    BY <1>2, <2>1, <2>2
  <2>3. CASE hits # {}
    <3>1. hits \in SUBSET Nat
      BY <1>1
    <3>2. Min(hits) \in hits
      <4> HIDE DEF hits
      <4>1. PICK m \in hits : \A q \in hits : m <= q
        BY <2>3, <3>1, LeastElement
      <4>2. Min(hits) = m
        BY <3>1, <4>1, MinIsFirst
      <4>3. QED  BY <4>2
    <3>3. PICK q \in 0 .. last : q = Min(hits) /\ At(src, q) \in {"lf", "cr"}
      <4>1. \A q \in hits : q \in 0 .. last /\ At(src, q) \in {"lf", "cr"}
        BY <1>1
      <4> HIDE DEF hits
      <4>2. QED  BY <3>2, <4>1
    <3> HIDE DEF hits
    <3>4. FindNewline(src, pos) = NewlineAt(src, q, last)
      BY <2>1, <2>3, <3>3
    <3>5. CASE At(src, q) = "lf"
      BY <1>2, <3>4, <3>5 DEF NewlineAt
    <3>6. CASE At(src, q) = "cr"
      <4>1. At(src, q + 1) = "lf"
        BY <1>1, <3>3, <3>6 DEF UnixOrWindows
      <4>2. q + 1 <= last
        <5>1. q # last
          BY <1>2, <3>6
        <5>2. QED  BY <1>1, <3>3, <5>1
      <4>3. CASE q + 1 < last
        BY <1>2, <3>4, <3>6, <4>1, <4>3 DEF NewlineAt
      <4>4. CASE q + 1 = last
        <5>1. FindNewline(src, pos) = <<q, "cr">>
          BY <1>1, <3>4, <3>6, <4>1, <4>4 DEF NewlineAt
        <5>2. QED  BY <1>2, <3>6, <4>4, <5>1
      <4>5. QED  BY <1>1, <3>3, <4>2, <4>3, <4>4
    <3>7. QED  BY <3>3, <3>5, <3>6
  <2>4. QED  BY <2>2, <2>3
<1>5. QED  BY <1>3, <1>4

(* What the reference reads without a limit, by the calls it makes.         *)
LEMMA WholeIndexUnfolds ==
  ASSUME start = FindFirstLine(file, Skip), start < FileSize - 1,
         nl = FindNewline(file, start), FileSize \in Nat, start \in Nat
  PROVE  LET head  == RunRegion(file, AllLines(HeadCall), HeadEntry)
             first == head.locals
             p     == BatchRegion(file, nl, Unlimited, ColumnsOf(first), 1, 0)
             rest  == RunRegion(file, p, Enter(p, "RECORD_START", 0, <<>>))
         IN  SequentialAnswer(file, Unlimited, Skip).separators
               = first.destination \o rest.locals.destination
<1>1. ~(start >= Len(file) - 1)
  BY DEF FileSize
<1>2. AllLines(HeadCall) = FirstRegion(start, nl, Unlimited, 1, Len(file))
  BY DEF AllLines, HeadCall, FirstRegion, Region, NMaxWithHeader, FileSize
<1>3. HeadEntry = Enter(FirstRegion(start, nl, Unlimited, 1, Len(file)), "RECORD_START", 0, <<>>)
  BY DEF HeadEntry, HeadCall, FirstRegion, Region, Enter
<1>4. \A S, c, r, e : [separators |-> S, columns |-> c, rows |-> r, errors |-> e].separators = S
  OBVIOUS
<1>5. QED
  BY <1>1, <1>2, <1>3, <1>4 DEF SequentialAnswer

(* Without a limit the rest of the file is one batch.                       *)
LEMMA WholeRest ==
  ASSUME NEW src \in File, UnixOrWindows(src), NEW to \in Nat \X {"lf", "cr"},
         to[1] < Len(src), NEW cols \in Nat
  PROVE  BatchRegion(src, to, Unlimited, cols, 1, 0) =
           Region(FindNextNewline(src, to[1])[1] + 1, Len(src), "lf", Unlimited, cols, 1,
                  Len(src) \div 100)
<1>1. Len(src) \in Nat /\ Len(src) > 0 /\ to[1] \in Nat
  BY DEF File
<1>2. PICK elements, batch \in Nat : elements = Len(src) - to[1] /\ batch = elements \div 1
  <2>1. Len(src) - to[1] \in Nat /\ 1 \in Nat \ {0}
    BY <1>1
  <2>2. QED  BY <2>1, Quotient
<1>3. 0 = 1 - 1 /\ to[1] + 0 * batch = to[1] /\ to[1] + elements = Len(src)
  BY <1>1, <1>2
<1>4. BatchRegion(src, to, Unlimited, cols, 1, 0) =
        Region(FindNextNewline(src, to[1] + 0 * batch)[1] + 1,
               FindNextNewline(src, to[1] + elements)[1] + 1,
               FindNextNewline(src, to[1] + 0 * batch)[2],
               NMaxWithHeader(Unlimited), cols, 1, Len(src) \div 100)
  BY <1>2, <1>3 DEF BatchRegion
<1>5. FindNextNewline(src, Len(src))[1] + 1 = Len(src)
  <2>1. FindNextNewline(src, Len(src)) = <<Len(src) - 1, "lf">>
    BY <1>1 DEF FindNextNewline
  <2>2. QED  BY <1>1, <2>1
<1>6. FindNextNewline(src, to[1])[2] = "lf" /\ NMaxWithHeader(Unlimited) = Unlimited
  BY <1>1, FindsLineFeed DEF NMaxWithHeader
<1>7. QED  BY <1>3, <1>4, <1>5, <1>6

(* It finds separators.                                                     *)
LEMMA WholeRestType ==
  ASSUME NEW src \in File, NEW to \in Nat \X {"lf", "cr"}, to[1] < Len(src), NEW cols \in Nat
  PROVE  LET p == BatchRegion(src, to, Unlimited, cols, 1, 0)
         IN  /\ p \in CallType /\ p.start <= p.end /\ p.end <= Len(src)
             /\ RunRegion(src, p, Enter(p, "RECORD_START", 0, <<>>)).locals.destination
                  \in Seq(Nat)
<1> DEFINE p     == BatchRegion(src, to, Unlimited, cols, 1, 0)
           entry == Enter(p, "RECORD_START", 0, <<>>)
<1>1. p \in CallType /\ p.start <= p.end /\ p.end <= Len(src)
  <2>1. 0 \in 0 .. (1 - 1) /\ 1 \in Nat \ {0} /\ Unlimited \in Limit
    BY DEF Limit
  <2>2. BetweenCuts(BatchRegion(src, to, Unlimited, cols, 1, 0), src, to[1], 1, 0)
    BY <2>1, BatchRegionCut
  <2>3. QED  BY <2>2 DEF BetweenCuts
<1> HIDE DEF p
<1>2. entry \in LocalsType /\ entry.last_tick = p.start /\ entry.pos = p.start
  <2>1. "RECORD_START" \in CsvState /\ 0 \in Nat
    BY DEF CsvState
  <2>2. QED  BY <1>1, <2>1, EnterType DEF Enter
<1> HIDE DEF entry
<1>3. RunRegion(src, p, entry) \in CallsOf(p)
  <2>1. entry.last_tick <= p.end /\ Len(src) \in Nat
    BY <1>1, <1>2 DEF File
  <2>2. QED  BY <1>1, <1>2, <2>1, RunRegionStops
<1>4. RunRegion(src, p, entry).locals.destination \in Seq(Nat)
  BY <1>3, LocalsFields DEF CallsOf
<1>5. QED  BY <1>1, <1>4 DEF p, entry

(* After a first row H of d entries, R holds n rows: all of A, or as many   *)
(* first ones as the limit lets through.                                    *)
RowsLetThrough(H, R, A, n, d, limit) ==
  /\ H \in Seq(Nat) /\ R \in Seq(Nat) /\ A \in Seq(Nat)
  /\ n \in Nat /\ d \in Nat \ {0} /\ limit \in Nat
  /\ Len(H) = d /\ Len(R) = n * d
  /\ \/ R = A /\ n + 1 <= limit + HasHeader
     \/ n + 1 = limit + HasHeader /\ StartsWith(R, A)

(* Some are the first of all entries, with as many rows as the limit lets   *)
(* through or as there are.                                                 *)
FirstOfAll(some, all, cols, limit) ==
  /\ IsPrefix(some, all)
  /\ RowsOf(Len(some), cols) = Min({limit, RowsOf(Len(all), cols)})

(* With a limit the first rows of all are read, as many as it lets through  *)
(* or as there are.                                                         *)
LEMMA FirstRowsOfAll ==
  ASSUME NEW H, NEW R, NEW A, NEW cols \in Nat \ {0}, NEW n, NEW limit,
         RowsLetThrough(H, R, A, n, cols + 1, limit)
  PROVE  FirstOfAll(H \o R, H \o A, cols, limit)
<1> SUFFICES ASSUME H \in Seq(Nat), R \in Seq(Nat), A \in Seq(Nat), n \in Nat, limit \in Nat,
                    NEW d \in Nat \ {0}, d = cols + 1, Len(H) = d, Len(R) = n * d,
                    \/ R = A /\ n + 1 <= limit + HasHeader
                    \/ n + 1 = limit + HasHeader /\ StartsWith(R, A)
             PROVE  /\ IsPrefix(H \o R, H \o A)
                    /\ RowsOf(Len(H \o R), cols) = Min({limit, RowsOf(Len(H \o A), cols)})
  BY Zenon DEF RowsLetThrough, FirstOfAll
<1>1. PICK m \in Nat \ {0} : m = n + 1 /\ m - HasHeader \in Nat
  BY HeaderAssumption
<1>2. Len(H \o R) = m * d
  <2>1. (n + 1) * d = n * d + d /\ n * d \in Nat
    OBVIOUS
  <2>2. Len(H \o R) = Len(H) + Len(R)
    BY ConcatProperties, Zenon
  <2>3. Len(H \o R) = n * d + d
    BY <2>1, <2>2
  <2>4. QED  BY <1>1, <2>1, <2>3
<1>3. RowsOf(Len(H \o R), cols) = m - HasHeader
  BY <1>2, RowsOfWhole
<1>4. RowsOf(Len(H \o A), cols) \in Nat /\ Len(H \o A) \in Nat
  <2>1. Len(H \o A) \in Nat
    OBVIOUS
  <2>2. QED  BY <2>1, RowsOfType
<1>5. PICK b \in Seq(Nat) : A = R \o b
  <2>1. CASE R = A
    <3>1. A = R \o <<>> /\ <<>> \in Seq(Nat)
      BY <2>1
    <3>2. QED  BY <3>1
  <2>2. CASE StartsWith(R, A)
    BY <2>2 DEF StartsWith
  <2>3. QED  BY <2>1, <2>2
<1>6. PICK K \in Seq(Nat) : K = H \o R
  <2>1. H \o R \in Seq(Nat)
    OBVIOUS
  <2>2. QED  BY <2>1
<1>7. H \o A = K \o b
  <2>1. \A e \in Seq(Nat) : (H \o R) \o e = H \o (R \o e)
    BY AtItsEnd, Zenon
  <2>2. QED  BY <1>5, <1>6, <2>1
<1>8. Len(K \o b) = Len(K) + Len(b) /\ Len(K) \in Nat /\ Len(b) \in Nat
  OBVIOUS
<1>9. IsPrefix(H \o R, H \o A)
  <2>1. Len(K) <= Len(K \o b)
    BY <1>8
  <2>2. SubSeq(K, 1, Len(K)) = SubSeq(K \o b, 1, Len(K))
    OBVIOUS
  <2>3. QED  BY <1>6, <1>7, <2>1, <2>2 DEF IsPrefix
<1>10. RowsOf(Len(H \o A), cols) >= m - HasHeader
  <2>1. Len(H \o A) >= m * d
    BY <1>2, <1>6, <1>7, <1>8
  <2>2. QED  BY <1>4, <2>1, RowsOfWhole
<1>11. m - HasHeader <= limit
  BY <1>1, HeaderAssumption
<1>12. \/ RowsOf(Len(H \o A), cols) = m - HasHeader
       \/ limit = m - HasHeader
  <2>1. CASE R = A
    BY <1>3, <2>1
  <2>2. CASE n + 1 = limit + HasHeader
    BY <1>1, <2>2, HeaderAssumption
  <2>3. QED  BY <2>1, <2>2
<1>13. PICK all \in Nat : all = RowsOf(Len(H \o A), cols)
  BY <1>4
<1>14. PICK few \in Nat : few = m - HasHeader
  BY <1>1
<1>15. Min({limit, all}) = few
  <2>1. few \in {limit, all} /\ \A q \in {limit, all} : few <= q
    BY <1>10, <1>11, <1>12, <1>13, <1>14
  <2>2. {limit, all} \in SUBSET Nat
    OBVIOUS
  <2>3. QED  BY <2>1, <2>2, MinIsFirst
<1>16. QED  BY <1>3, <1>9, <1>13, <1>14, <1>15

(* The first row is found without a limit as it is with one, and with it    *)
(* the number of columns.                                                   *)
LEMMA HeadReadsFirstRow ==
  ASSUME IInv, Opened, ~EscapeBackslash, UnixOrWindows(file), FirstRowIsOneLine,
         n_max \in Nat, n_max + HasHeader > 0, HeadEnd.locals.lines_read = 1
  PROVE  /\ HeadEnd.locals.state = "RECORD_START" /\ HeadEnd.locals.cols = 0
         /\ HeadEnd.locals.destination \in Seq(Nat)
         /\ Columns \in Nat \ {0} /\ Len(HeadEnd.locals.destination) = Columns + 1
         /\ RunRegion(file, AllLines(HeadCall), HeadEntry).locals.destination
              = HeadEnd.locals.destination
<1>1. /\ file \in File /\ Len(file) \in Nat /\ start \in Nat
      /\ nl \in Nat \X {"lf", "cr"} /\ start <= nl[1] /\ nl[1] < Len(file)
      /\ nl = FindNewline(file, start)
  BY FirstRowFacts DEF FileSize, IInv, FirstRowFound
<1>2. /\ HeadCall \in CallType /\ HeadCall.start <= HeadCall.end
      /\ HeadCall.end <= Len(file)
      /\ HeadEnd \in CallsOf(HeadCall)
  BY HeadType
<1>3. /\ HeadCall.start = start /\ HeadCall.end = nl[1] + 1 /\ HeadCall.nl = nl[2]
      /\ HeadCall.num_cols = 0 /\ HeadCall.n_max = NMaxWithHeader(n_max)
  BY DEF HeadCall, FirstRegion, Region
<1>4. HeadCall.n_max \in Nat \ {0}
  BY <1>3, HeaderAssumption DEF NMaxWithHeader, Unlimited
<1>5. \A k \in start .. (nl[1] - 1) : At(file, k) # nl[2]
  <2> SUFFICES ASSUME NEW k \in start .. (nl[1] - 1), At(file, k) = nl[2] PROVE FALSE
    OBVIOUS
  <2>1. At(file, k) # "lf"
    BY DEF FirstRowIsOneLine
  <2>2. nl[2] = "cr" /\ At(file, nl[1]) = "cr"
    BY <1>1, <2>1, FirstRowEnds
  <2>3. At(file, k + 1) = "lf"
    <3>1. k \in 0 .. (Len(file) - 1)
      BY <1>1
    <3>2. QED  BY <2>2, <3>1 DEF UnixOrWindows
  <2>4. k + 1 = nl[1] \/ k + 1 \in start .. (nl[1] - 1)
    BY <1>1
  <2>5. QED  BY <2>2, <2>3, <2>4 DEF FirstRowIsOneLine
<1>6. FirstRowCall(file, HeadCall)
  <2>1. HeadCall.end - 2 = nl[1] - 1
    BY <1>1, <1>3
  <2>2. QED  BY <1>2, <1>3, <1>5, <2>1 DEF FirstRowCall
<1>7. /\ FirstRowRead(HeadCall, HeadEnd.locals)
      /\ RunRegion(file, AllLines(HeadCall), HeadEntry).locals.destination
           = HeadEnd.locals.destination
  BY <1>1, <1>2, <1>4, <1>6, FirstRowLimited DEF HeadEnd, HeadEntry
<1>8. /\ HeadEnd.locals.state = "RECORD_START" /\ HeadEnd.locals.cols = 0
      /\ Len(HeadEnd.locals.destination) > 1
  BY <1>7 DEF FirstRowRead
<1>9. HeadEnd.locals.destination \in Seq(Nat)
  BY <1>2, LocalsFields DEF CallsOf
<1>10. Columns \in Nat \ {0} /\ Len(HeadEnd.locals.destination) = Columns + 1
  <2>1. PICK d \in Seq(Nat) : d = HeadEnd.locals.destination /\ Len(d) \in Nat
    BY <1>9
  <2>2. d # <<>> /\ Columns = Len(d) - 1
    BY <1>8, <2>1 DEF Columns, ColumnsOf
  <2>3. \A a \in Nat : a > 1 => a - 1 \in Nat \ {0} /\ a = (a - 1) + 1
    OBVIOUS
  <2>4. Columns = Len(HeadEnd.locals.destination) - 1
        /\ Len(HeadEnd.locals.destination) \in Nat
    BY <2>1, <2>2
  <2>5. QED  BY <1>8, <2>3, <2>4
<1>11. QED  BY <1>7, <1>8, <1>9, <1>10

(* What is read of the rest begins what there is, and it is all of it if    *)
(* the limit leaves more.                                                   *)
LEMMA RestReadsFirstRows ==
  ASSUME IInv, Opened, SkipEmptyRows, ~EscapeBackslash, UnixOrWindows(file),
         CommentsStartLines(file), FirstRowIsOneLine,
         n_max \in Nat, n_max + HasHeader > 0, HeadEnd.locals.lines_read = 1,
         RestEnd.locals.state = "RECORD_START"
  PROVE  LET p == BatchRegion(file, nl, Unlimited, Columns, 1, 0)
             R == RestEnd.locals.destination
             A == RunRegion(file, p, Enter(p, "RECORD_START", 0, <<>>)).locals.destination
         IN  /\ R \in Seq(Nat) /\ A \in Seq(Nat)
             /\ \E n \in Nat :
                  /\ Len(R) = n * (Columns + 1)
                  /\ \/ R = A /\ n + 1 <= n_max + HasHeader
                     \/ n + 1 = n_max + HasHeader /\ StartsWith(R, A)
<1> DEFINE w == n_max + HasHeader
           p == BatchRegion(file, nl, Unlimited, Columns, 1, 0)
           L == RestEnd.locals
           U == RunRegion(file, p, Enter(p, "RECORD_START", 0, <<>>)).locals
<1>1. /\ file \in File /\ Len(file) \in Nat /\ start \in Nat /\ FileSize = Len(file)
      /\ nl \in Nat \X {"lf", "cr"} /\ nl[1] \in Nat /\ nl[1] < Len(file)
      /\ nl = FindNewline(file, start)
  BY FirstRowFacts DEF FileSize, IInv, FirstRowFound
<1>2. HeadEnd.locals.state = "RECORD_START" /\ HeadEnd.locals.cols = 0 /\ Columns \in Nat \ {0}
  BY HeadReadsFirstRow
<1>3. /\ RestCall \in CallType /\ RestCall.start <= RestCall.end
      /\ RestCall.end <= Len(file) /\ RestEnd \in CallsOf(RestCall)
  BY RestType
<1>4. n_max # Unlimited
  BY DEF Unlimited
<1>5. w \in Nat \ {0}
  BY HeaderAssumption
<1>6. RestCall = Region(nl[1] + 1, Len(file), nl[2], w - 1, Columns, 1, Len(file) \div 100)
  <2>1. NMaxAfter(n_max, 1) = w - 1
    BY <1>4, <1>5 DEF NMaxAfter, NMaxWithHeader
  <2>2. RestCall = RestRegion(nl, n_max, 1, Columns, Len(file))
    BY <1>1, <1>4 DEF RestCall
  <2>3. QED  BY <2>1, <2>2 DEF RestRegion
<1>7. RestEntry = Enter(RestCall, "RECORD_START", 0, <<>>)
  BY <1>2, <1>4 DEF RestEntry
<1>8. p = Region(FindNextNewline(file, nl[1])[1] + 1, Len(file), "lf", Unlimited, Columns, 1,
                 Len(file) \div 100)
  BY <1>1, <1>2, WholeRest
<1>9. /\ p \in CallType /\ p.start <= p.end /\ p.end = Len(file)
      /\ p.start = FindNextNewline(file, nl[1])[1] + 1
  <2>1. p \in CallType /\ p.start <= p.end
    BY <1>1, <1>2, WholeRestType
  <2>2. p.end = Len(file) /\ p.start = FindNextNewline(file, nl[1])[1] + 1
    BY <1>8 DEF Region
  <2>3. QED  BY <2>1, <2>2
<1> HIDE DEF p
<1>10. L \in LocalsType /\ L.destination \in Seq(Nat)
  BY <1>3, LocalsFields DEF CallsOf
<1>11. U.destination \in Seq(Nat)
  BY <1>1, <1>2, WholeRestType DEF p
<1>12. At(file, Len(file) - 1) = "lf"
  BY <1>1, FirstRowEnds
<1> DEFINE Reads(n) == /\ Len(L.destination) = n * (Columns + 1)
                       /\ \/ L.destination = U.destination /\ n + 1 <= w
                          \/ n + 1 = w /\ StartsWith(L.destination, U.destination)
<1>13. L = RunRegion(file, RestCall, Enter(RestCall, "RECORD_START", 0, <<>>)).locals
  BY <1>7 DEF RestEnd
<1> HIDE DEF L, U
<1>14. /\ RestCall.start = nl[1] + 1 /\ RestCall.end = Len(file) /\ RestCall.nl = nl[2]
       /\ RestCall.n_max = w - 1 /\ RestCall.num_cols = Columns /\ RestCall.num_threads = 1
  BY <1>6 DEF Region
<1>15. ASSUME L.destination = <<>> PROVE w = 1 \/ U.destination = <<>> => Reads(0)
  <2>1. 0 * (Columns + 1) = 0 /\ Len(<<>>) = 0
    BY <1>2
  <2>2. StartsWith(<<>>, U.destination)
    <3>1. U.destination = <<>> \o U.destination
      BY <1>11
    <3>2. QED  BY <1>11, <3>1 DEF StartsWith
  <2>3. 0 + 1 <= w /\ (w = 1 => 0 + 1 = w)
    BY <1>5
  <2> HIDE DEF w
  <2>4. QED  BY <1>15, <2>1, <2>2, <2>3
<1>16. CASE w = 1
  <2>1. RestCall.n_max = 0
    BY <1>14, <1>16
  <2>2. L.destination = <<>>
    BY <1>1, <1>3, <1>13, <2>1, NothingToRead
  <2>3. Reads(0)
    BY <1>15, <1>16, <2>2
  <2>4. QED  BY <1>10, <1>11, <2>3 DEF L, U, p
<1>17. CASE w # 1 /\ nl[2] = "cr"
  <2>1. nl[1] + 1 = Len(file) - 1 /\ At(file, nl[1]) = "cr"
    BY <1>1, <1>17, FirstRowEnds
  <2>2. RestCall.start + 1 = RestCall.end /\ At(file, RestCall.start) = "lf"
    BY <1>1, <1>12, <1>14, <2>1
  <2>3. L.destination = <<>>
    BY <1>1, <1>3, <1>13, <2>2, NothingToRead
  <2>4. p.start = p.end
    <3>1. At(file, nl[1] + 1) = "lf" /\ nl[1] + 1 < Len(file) /\ nl[1] \in 0 .. (Len(file) - 1)
      BY <1>1, <1>12, <2>1
    <3>2. FindNextNewline(file, nl[1])[1] = nl[1] + 1
      BY <1>1, <2>1, <3>1, FindNextNewlineAtNewline
    <3>3. QED  BY <1>1, <1>9, <2>1, <3>2
  <2>5. U.destination = <<>>
    <3>1. p.end <= Len(file)
      BY <1>1, <1>9
    <3>2. QED  BY <1>1, <1>9, <2>4, <3>1, NothingToRead DEF U
  <2>6. Reads(0)
    BY <1>15, <2>3, <2>5
  <2>7. QED  BY <1>10, <1>11, <2>6 DEF L, U, p
<1>18. CASE w # 1 /\ nl[2] # "cr"
  <2>1. nl[2] = "lf" /\ At(file, nl[1]) = "lf"
    BY <1>1, <1>18, FirstRowEnds
  <2>2. FindNextNewline(file, nl[1])[1] = nl[1]
    <3>1. nl[1] \in 0 .. (Len(file) - 1)
      BY <1>1
    <3>2. QED  BY <1>1, <2>1, <3>1, FindNextNewlineAtNewline
  <2>3. p = AllLines(RestCall)
    BY <1>6, <1>8, <2>1, <2>2 DEF AllLines, Region
  <2>4. RecordsCall(file, RestCall)
    BY <1>1, <1>2, <1>3, <1>12, <1>14, <2>1 DEF RecordsCall
  <2>5. RestCall.n_max \in Nat \ {0}
    BY <1>5, <1>14, <1>18
  <2>6. U = RunRegion(file, AllLines(RestCall), Enter(RestCall, "RECORD_START", 0, <<>>)).locals
    <3>1. AllLines(RestCall).start = RestCall.start
      BY <1>3 DEF AllLines, CallType
    <3>2. Enter(p, "RECORD_START", 0, <<>>) = Enter(RestCall, "RECORD_START", 0, <<>>)
      BY <2>3, <3>1 DEF Enter
    <3>3. QED  BY <2>3, <3>2 DEF U
  <2>7. L.state = "RECORD_START"
    BY DEF L
  <2>8. /\ Len(L.destination) = RowsLength(RestCall, L.lines_read)
        /\ \/ L.destination = U.destination /\ L.lines_read < RestCall.n_max
           \/ L.lines_read = RestCall.n_max /\ StartsWith(L.destination, U.destination)
    BY <1>1, <1>3, <1>13, <2>4, <2>5, <2>6, <2>7, LimitedRuns
  <2>9. L.lines_read \in Nat
    BY <1>10, LocalsFields
  <2>10. Reads(L.lines_read)
    <3>1. Len(L.destination) = L.lines_read * (Columns + 1)
      BY <1>14, <2>8 DEF RowsLength
    <3>2. \A a, b \in Nat : /\ a < b - 1 => a + 1 <= b
                            /\ a = b - 1 => a + 1 = b
      OBVIOUS
    <3>3. /\ L.lines_read < RestCall.n_max => L.lines_read + 1 <= w
          /\ L.lines_read = RestCall.n_max => L.lines_read + 1 = w
      BY <1>5, <1>14, <2>9, <3>2
    <3> HIDE DEF w
    <3>4. QED  BY <2>8, <3>1, <3>3
  <2>11. QED  BY <1>10, <1>11, <2>9, <2>10 DEF L, U, p
<1>19. QED  BY <1>16, <1>17, <1>18

(* A limit of no line at all.                                               *)
LEMMA NoRowsRead ==
  ASSUME IInv, Opened, SkipEmptyRows, ~EscapeBackslash, n_max \in Nat, n_max + HasHeader = 0
  PROVE  /\ HeadEnd.locals.destination = <<>> /\ RestEnd.locals.destination = <<>>
         /\ Columns = 0 /\ n_max = 0
<1>1. file \in File
  BY FirstRowFacts
<1>2. /\ HeadCall \in CallType /\ HeadCall.start <= HeadCall.end
      /\ HeadCall.end <= Len(file)
  BY HeadType
<1>3. /\ RestCall \in CallType /\ RestCall.start <= RestCall.end
      /\ RestCall.end <= Len(file)
  BY RestType
<1>4. n_max = 0 /\ HasHeader = 0 /\ n_max # Unlimited
  BY HeaderAssumption DEF Unlimited
<1>5. HeadCall.n_max = 0
  BY <1>4 DEF HeadCall, FirstRegion, Region, NMaxWithHeader
<1>6. /\ HeadEnd.locals.destination = <<>> /\ HeadEnd.locals.lines_read = 0
      /\ HeadEnd.locals.state = "RECORD_START" /\ HeadEnd.locals.cols = 0
  BY <1>1, <1>2, <1>5, NothingToRead DEF HeadEnd, HeadEntry
<1>7. RestCall.n_max = 0
  BY <1>4, <1>6 DEF RestCall, RestRegion, Region, NMaxAfter, NMaxWithHeader
<1>8. RestEntry = Enter(RestCall, "RECORD_START", 0, <<>>)
  BY <1>4, <1>6 DEF RestEntry
<1>9. RestEnd.locals.destination = <<>>
  BY <1>1, <1>3, <1>7, <1>8, NothingToRead DEF RestEnd
<1>10. QED  BY <1>4, <1>6, <1>9 DEF Columns, ColumnsOf

(* The first row and the last one that is read end: no quote is left open.  *)
RowsEnd ==
  launched > 0 => /\ n_max + HasHeader > 0 => scan[0].lines_read = 1
                  /\ scan[1].state = "RECORD_START"

(* What n_max lets through is the beginning of the index.                   *)
LEMMA NMaxAnswers ==
  ASSUME IInv, OneThreadInv, SkipEmptyRows, ~EscapeBackslash, UnixOrWindows(file),
         CommentsStartLines(file), FirstRowIsOneLine, RowsEnd
  PROVE  NMaxReadsFirstRows
<1> SUFFICES ASSUME pc = "done", n_max # Unlimited,
                    NEW all, all = SequentialAnswer(file, Unlimited, Skip).separators
             PROVE  /\ IsPrefix(scan[0].destination \o scan[1].destination, all)
                    /\ rows = Min({n_max, RowsOf(Len(all), columns)})
  BY DEF NMaxReadsFirstRows
<1>1. /\ file \in File /\ Len(file) \in Nat /\ FileSize = Len(file) /\ start \in Nat
      /\ n_max \in Nat /\ num_threads \in Nat \ {0} /\ launched \in 0 .. num_threads
  BY FilesType, IndexAssumption DEF IInv, TypeOK, File, FileSize
<1>2. \A size : RowsOf(size, 0) = 0
  BY DEF RowsOf
<1>3. Min({n_max, 0}) = 0
  <2>1. {n_max, 0} \in SUBSET Nat /\ 0 \in {n_max, 0} /\ \A q \in {n_max, 0} : 0 <= q
    BY <1>1
  <2>2. QED  BY <2>1, MinIsFirst
<1>4. ASSUME NEW s \in Seq(Nat) PROVE IsPrefix(<<>>, s)
  <2>1. Len(<<>>) <= Len(s) /\ SubSeq(<<>>, 1, Len(<<>>)) = SubSeq(s, 1, Len(<<>>))
    OBVIOUS
  <2>2. QED  BY <2>1 DEF IsPrefix
<1>5. <<>> \in Seq(Nat) /\ <<>> \o <<>> = <<>>
  OBVIOUS
<1>6. CASE launched = 0
  <2>1. /\ columns = 0 /\ rows = 0 /\ start >= FileSize - 1
        /\ scan[0].destination = <<>> /\ scan[1].destination = <<>>
    BY <1>1, <1>6 DEF OneThreadInv, NothingFound
  <2>2. start = FindFirstLine(file, Skip)
    BY DEF OneThreadInv, LinesSkipped
  <2>3. SequentialAnswer(file, Unlimited, Skip) = EmptyIndex
    BY <1>1, <2>1, <2>2, Zenon DEF SequentialAnswer
  <2>4. all = <<>>
    BY <2>3 DEF EmptyIndex
  <2>5. QED  BY <1>2, <1>3, <1>4, <1>5, <2>1, <2>4
<1>7. CASE launched # 0
  <2>1. num_threads = 1
    <3>1. launched > 0
      BY <1>1, <1>7
    <3>2. QED  BY <1>1, <3>1 DEF IInv, FirstRowFound, Opened, Unlimited
  <2> DEFINE H == HeadEnd.locals.destination
             R == RestEnd.locals.destination
  <2>2. /\ Opened /\ launched = 1 /\ start = FindFirstLine(file, Skip)
        /\ start < FileSize - 1 /\ nl = FindNewline(file, start)
        /\ scan[0] = HeadEnd.locals /\ scan[1] = RestEnd.locals
        /\ columns = Columns /\ rows = RowsOf(Len(H \o R), Columns)
    BY <1>7, <2>1, OneThreadEnds
  <2>3. nl \in Nat \X {"lf", "cr"} /\ nl[1] < Len(file)
    BY <2>2, FirstRowFacts DEF FileSize
  <2> DEFINE first == RunRegion(file, AllLines(HeadCall), HeadEntry).locals
             p == BatchRegion(file, nl, Unlimited, ColumnsOf(first), 1, 0)
             A == RunRegion(file, p, Enter(p, "RECORD_START", 0, <<>>)).locals.destination
  <2>4. all = first.destination \o A
    BY <1>1, <2>2, WholeIndexUnfolds
  <2>5. CASE n_max + HasHeader = 0
    <3>1. H = <<>> /\ R = <<>> /\ Columns = 0 /\ n_max = 0
      BY <1>1, <2>2, <2>5, NoRowsRead
    <3>2. all \in Seq(Nat)
      <4>1. first.destination \in Seq(Nat)
        <5>1. /\ HeadCall \in CallType /\ HeadCall.start <= HeadCall.end
              /\ HeadCall.end <= Len(file)
              /\ HeadEntry \in LocalsType /\ HeadEntry.pos = HeadCall.start
              /\ HeadEntry.last_tick <= HeadCall.end
          BY <2>2, HeadType
        <5>2. PICK q \in CallType : /\ q = AllLines(HeadCall) /\ q.start = HeadCall.start
                                    /\ q.end = HeadCall.end
          <6>1. PICK h \in CallType : h = HeadCall
            BY <5>1
          <6>2. /\ AllLines(h) \in CallType /\ AllLines(h).start = h.start
                /\ AllLines(h).end = h.end
            BY DEF AllLines, CallType
          <6>3. QED  BY <6>1, <6>2
        <5>3. RunRegion(file, q, HeadEntry) \in CallsOf(q)
          BY <1>1, <5>1, <5>2, RunRegionStops
        <5>4. QED  BY <5>2, <5>3, LocalsFields DEF CallsOf
      <4>2. ColumnsOf(first) \in Nat
        <5> HIDE DEF first
        <5>1. QED  BY <4>1 DEF ColumnsOf
      <4>3. A \in Seq(Nat)
        BY <1>1, <2>3, <4>2, WholeRestType
      <4> HIDE DEF first, A
      <4>4. QED  BY <2>4, <4>1, <4>3
    <3> HIDE DEF H, R, first, A
    <3>3. IsPrefix(H \o R, all)
      BY <1>4, <1>5, <3>1, <3>2
    <3>4. rows = 0 /\ RowsOf(Len(all), columns) = 0
      BY <1>2, <2>2, <3>1
    <3>5. QED  BY <1>3, <2>2, <3>3, <3>4 DEF H, R
  <2>6. CASE n_max + HasHeader # 0
    <3>1. n_max + HasHeader > 0
      BY <1>1, <2>6, HeaderAssumption
    <3>2. HeadEnd.locals.lines_read = 1 /\ RestEnd.locals.state = "RECORD_START"
      BY <2>2, <3>1 DEF RowsEnd
    <3>3. /\ H \in Seq(Nat) /\ Columns \in Nat \ {0} /\ Len(H) = Columns + 1
          /\ first.destination = H
      BY <1>1, <2>2, <3>1, <3>2, HeadReadsFirstRow
    <3>4. ColumnsOf(first) = Columns
      BY <3>3 DEF ColumnsOf, Columns
    <3>5. /\ R \in Seq(Nat) /\ A \in Seq(Nat)
          /\ \E n \in Nat :
               /\ Len(R) = n * (Columns + 1)
               /\ \/ R = A /\ n + 1 <= n_max + HasHeader
                  \/ n + 1 = n_max + HasHeader /\ StartsWith(R, A)
      BY <1>1, <2>2, <3>1, <3>2, <3>4, RestReadsFirstRows
    <3> HIDE DEF H, R, first, A
    <3>6. PICK n \in Nat : RowsLetThrough(H, R, A, n, Columns + 1, n_max)
      <4>1. n_max \in Nat /\ Columns + 1 \in Nat \ {0}
        BY <1>1, <3>3
      <4>2. QED  BY <3>3, <3>5, <4>1 DEF RowsLetThrough
    <3>7. FirstOfAll(H \o R, H \o A, Columns, n_max)
      BY <3>3, <3>6, FirstRowsOfAll
    <3>8. all = H \o A
      BY <2>4, <3>3
    <3>9. QED  BY <2>2, <3>7, <3>8 DEF FirstOfAll, H, R
  <2>7. QED  BY <2>5, <2>6
<1>8. QED  BY <1>6, <1>7

(* When empty rows are skipped, no backslash escapes and lines end as on    *)
(* Unix or Windows, what n_max lets through are the first rows of the whole *)
(* index, as many as there are up to n_max, of any file with a first row of *)
(* one line, with comments on lines of their own and with no quote left     *)
(* open at the end of what is read.                                         *)
THEOREM NMaxAlwaysReadsFirstRows ==
  ASSUME SkipEmptyRows, ~EscapeBackslash, \A f \in Files : UnixOrWindows(f)
  PROVE  Spec => [](CommentsStartLines(file) /\ FirstRowIsOneLine /\ RowsEnd
                      => NMaxReadsFirstRows)
<1>1. Init => IInv /\ OneThreadInv
  BY InitIInv, InitOneThread
<1>2. IInv /\ OneThreadInv /\ [Next]_vars => (IInv /\ OneThreadInv)'
  BY NextIInv, NextOneThread
<1>3. IInv /\ OneThreadInv =>
        (CommentsStartLines(file) /\ FirstRowIsOneLine /\ RowsEnd => NMaxReadsFirstRows)
  <2>1. IInv => UnixOrWindows(file)
    BY DEF IInv, TypeOK
  <2>2. QED  BY <2>1, NMaxAnswers
<1>4. QED  BY <1>1, <1>2, <1>3, PTL DEF Spec

=============================================================================
