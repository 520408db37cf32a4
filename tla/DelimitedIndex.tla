--------------------------- MODULE DelimitedIndex ---------------------------
(***************************************************************************)
(* The constructor of delimited_index (src/delimited_index.cc): it indexes *)
(* a memory mapped file with num_threads threads, each over its own part   *)
(* of the file (parallel_for, src/parallel.h), while the main thread shows *)
(* the progress that the threads report (src/multi_progress.h).  A thread  *)
(* that meets a newline in a quoted field makes the main thread start all  *)
(* over with one thread.                                                   *)
(*                                                                         *)
(* A step of a thread is one iteration of index_region's loop.             *)
(***************************************************************************)
EXTENDS SequentialIndex

CONSTANTS
  Files,          \* the files that may be read
  NMaxes,         \* the arguments n_max that may be given
  Skip,           \* the argument skip
  NumThreads,     \* the argument num_threads
  LinesPerBatch,  \* use threads if a batch has this many lines (10 in the code)
  Progress        \* the argument progress

(* A file is not empty and ends with a newline, or the code gives up. *)
ASSUME IndexAssumption ==
  /\ \A f \in Files : f \in Seq(Char) /\ Len(f) > 0 /\ f[Len(f)] \in {"lf", "cr"}
  /\ NMaxes \subseteq Nat \union {Unlimited}
  /\ Skip \in Nat
  /\ NumThreads \in Nat \ {0}
  /\ LinesPerBatch \in Nat
  /\ Progress \in BOOLEAN

VARIABLES
  file,         \* the file that is read, and the argument n_max, which
  n_max,        \* never change
  start,        \* the position of the first row
  skip,         \* the lines that are still to be skipped
  nl,           \* first_nl and nl: where the first row ends, and with what
  pc,           \* where the main thread is
  num_threads,  \* the number of threads of this attempt
  region,       \* the arguments of the calls of index_region, by the
                \* position of their destination in idx_
  scan,         \* their local variables; idx_[k] is scan[k].destination
  launched,     \* the number of threads started
  joined,       \* the number of threads the main thread has waited for
  errors,       \* parse_errors_, shared by the threads
  progress,     \* progress_
  blocked,      \* the main thread waits on cv_
  columns,      \* columns_
  rows          \* rows_

vars == <<file, n_max, start, skip, nl, pc, num_threads, region, scan, launched, joined,
          errors, progress, blocked, columns, rows>>

----------------------------------------------------------------------------
FileSize == Len(file)

NoRegion == Region(0, 0, "lf", Unlimited, 0, 1, 0)

Idle == [Enter(NoRegion, "RECORD_START", 0, <<>>) EXCEPT !.out = "idle"]

Threads == 1 .. num_threads

Running(k) == scan[k].out = "running"

----------------------------------------------------------------------------
(* multi_progress: tick and finish wake the main thread. *)

Tick(n) ==
  IF Progress THEN progress' = progress + n /\ blocked' = FALSE
  ELSE UNCHANGED <<progress, blocked>>

FinishProgress ==
  IF Progress THEN progress' = FileSize /\ blocked' = FALSE
  ELSE UNCHANGED <<progress, blocked>>

(* What an iteration of index_region that turns r into s reports. *)
Report(r, s) ==
  IF s.out \in {"newline_error", "n_max"} THEN FinishProgress
  ELSE IF s.out = "end" \/ s.last_tick # r.last_tick
  THEN Tick(s.last_tick - r.last_tick)
  ELSE UNCHANGED <<progress, blocked>>

(* One iteration of call k. *)
Iterate(k) ==
  LET s == IndexStep(file, region[k], scan[k])
  IN  /\ Running(k)
      /\ scan' = [scan EXCEPT ![k] = s]
      /\ errors' = errors \o ParseErrors(file, region[k], scan[k])
      /\ Report(scan[k], s)

----------------------------------------------------------------------------
Init ==
  /\ file \in Files
  /\ n_max \in NMaxes
  /\ start = 0
  /\ skip = Skip
  /\ nl = <<0, "lf">>
  /\ pc = "open"
  /\ num_threads = NumThreads
  /\ region = [k \in 0 .. NumThreads |-> NoRegion]
  /\ scan = [k \in 0 .. NumThreads |-> Idle]
  /\ launched = 0
  /\ joined = 0
  /\ errors = <<>>
  /\ progress = 0
  /\ blocked = FALSE
  /\ columns = 0
  /\ rows = 0

(* A mistake: the count of the threads waited for is kept. *)
StartIndexing_KeepsJoined(threads, to) ==
  LET p == FirstRegion(start, to, n_max, threads, FileSize)
  IN  /\ num_threads' = threads
      /\ region' = [k \in 0 .. threads |-> IF k = 0 THEN p ELSE NoRegion]
      /\ scan' = [k \in 0 .. threads |->
                    IF k = 0 THEN Enter(p, "RECORD_START", 0, <<>>) ELSE Idle]
      /\ launched' = 0
      /\ joined' = joined
      /\ pc' = "first_row"

(* start_indexing: idx_ is reset and the first row is entered. *)
StartIndexing(threads, to) ==
  LET p == FirstRegion(start, to, n_max, threads, FileSize)
  IN  /\ num_threads' = threads
      /\ region' = [k \in 0 .. threads |-> IF k = 0 THEN p ELSE NoRegion]
      /\ scan' = [k \in 0 .. threads |->
                    IF k = 0 THEN Enter(p, "RECORD_START", 0, <<>>) ELSE Idle]
      /\ launched' = 0
      /\ joined' = 0
      /\ pc' = "first_row"

(* find_first_line: the next line is not the first row. *)
SkipLine ==
  /\ pc = "open"
  /\ SkipsLine(file, start, skip)
  /\ start' = NextLine(file, start)
  /\ skip' = IF skip > 0 THEN skip - 1 ELSE skip
  /\ UNCHANGED <<file, n_max, nl, pc, num_threads, region, scan, launched, joined, errors,
                 progress, blocked, columns, rows>>

(* The first line is found.  Threads need lines to be worth their while. *)
Open ==
  /\ pc = "open"
  /\ ~SkipsLine(file, start, skip)
  /\ start < FileSize - 1
  /\ nl' = FindNewline(file, start)
  /\ LET line_size == FindNewline(file, nl'[1] + 1)[1] - nl'[1]
         few_lines == FileSize \div num_threads < line_size * LinesPerBatch
     IN  StartIndexing(IF n_max # Unlimited \/ few_lines THEN 1 ELSE num_threads, nl')
  /\ Tick(start)
  /\ UNCHANGED <<file, n_max, start, skip, errors, columns, rows>>

(* There is nothing but blank lines and comments in the file. *)
OpenEmpty ==
  /\ pc = "open"
  /\ ~SkipsLine(file, start, skip)
  /\ start >= FileSize - 1
  /\ pc' = "done"
  /\ UNCHANGED <<file, n_max, start, skip, nl, num_threads, region, scan, launched,
                 joined, errors, progress, blocked, columns, rows>>

IndexFirstRow ==
  /\ pc = "first_row"
  /\ Iterate(0)
  /\ UNCHANGED <<file, n_max, start, skip, nl, pc, num_threads, region, launched, joined,
                 columns, rows>>

(* The first row tells how many columns there are. *)
CountColumns ==
  /\ pc = "first_row"
  /\ scan[0].out \in {"end", "n_max"}
  /\ columns' = IF scan[0].destination = <<>> THEN columns
                ELSE Len(scan[0].destination) - 1
  /\ pc' = "launch"
  /\ UNCHANGED <<file, n_max, start, skip, nl, num_threads, region, scan, launched,
                 joined, errors, progress, blocked, rows>>

(* parallel_for, or the one thread of n_max: start the next thread. *)
Launch ==
  LET id == launched
      p  == IF n_max # Unlimited
            THEN RestRegion(nl, n_max, scan[0].lines_read, columns, FileSize)
            ELSE BatchRegion(file, nl, n_max, columns, num_threads, id)
      r  == IF n_max # Unlimited THEN Enter(p, scan[0].state, scan[0].cols, <<>>)
            ELSE Enter(p, "RECORD_START", 0, <<>>)
  IN  /\ pc = "launch"
      /\ launched < num_threads
      /\ region' = [region EXCEPT ![id + 1] = p]
      /\ scan' = [scan EXCEPT ![id + 1] = r]
      /\ launched' = launched + 1
      /\ UNCHANGED <<file, n_max, start, skip, nl, pc, num_threads, joined, errors,
                     progress, blocked, columns, rows>>

(* A thread, or the main thread when parallel_for has one batch only. *)
IndexBatch(k) ==
  /\ k <= launched
  /\ Iterate(k)
  /\ UNCHANGED <<file, n_max, start, skip, nl, pc, num_threads, region, launched, joined,
                 columns, rows>>

(* parallel_for does not start a thread for one batch: it returns when the  *)
(* batch has been indexed.                                                  *)
Launched ==
  /\ pc = "launch"
  /\ launched = num_threads
  /\ num_threads = 1 /\ n_max = Unlimited => ~Running(1)
  /\ pc' = IF Progress THEN "display" ELSE "join"
  /\ UNCHANGED <<file, n_max, start, skip, nl, num_threads, region, scan, launched,
                 joined, errors, progress, blocked, columns, rows>>

(* display_progress: wait on the condition variable, or leave. *)
Display ==
  /\ pc = "display"
  /\ ~blocked
  /\ IF progress < FileSize - 1 THEN blocked' = TRUE /\ pc' = pc
     ELSE pc' = "join" /\ UNCHANGED blocked
  /\ UNCHANGED <<file, n_max, start, skip, nl, num_threads, region, scan, launched,
                 joined, errors, progress, columns, rows>>

(* A condition variable may wake up for no reason. *)
WakeUp ==
  /\ pc = "display"
  /\ blocked
  /\ blocked' = FALSE
  /\ UNCHANGED <<file, n_max, start, skip, nl, pc, num_threads, region, scan, launched,
                 joined, errors, progress, columns, rows>>

(* t.get() of the next thread. *)
Join ==
  /\ pc = "join"
  /\ joined < num_threads
  /\ scan[joined + 1].out \in {"end", "n_max"}
  /\ joined' = joined + 1
  /\ UNCHANGED <<file, n_max, start, skip, nl, pc, num_threads, region, scan, launched,
                 errors, progress, blocked, columns, rows>>

(* The exception of the first row, or of the thread that is waited for. *)
Throw ==
  /\ \/ pc = "first_row" /\ scan[0].out = "newline_error"
     \/ /\ pc = "join"
        /\ joined < num_threads
        /\ scan[joined + 1].out = "newline_error"
  /\ pc' = "unwind"
  /\ UNCHANGED <<file, n_max, start, skip, nl, num_threads, region, scan, launched,
                 joined, errors, progress, blocked, columns, rows>>

(* Mistakes: the handler does not wait, or it keeps the errors. *)
Restart_NotWaiting ==
  /\ pc = "unwind"
  /\ errors' = <<>>
  /\ StartIndexing(1, nl)
  /\ UNCHANGED <<file, n_max, start, skip, nl, progress, blocked, columns, rows>>

Restart_KeepsErrors ==
  /\ pc = "unwind"
  /\ \A k \in 1 .. launched : ~Running(k)
  /\ StartIndexing(1, nl)
  /\ UNCHANGED <<file, n_max, start, skip, nl, errors, progress, blocked, columns, rows>>

(* The futures are destroyed on the way to the handler, which waits for     *)
(* their threads.  The handler drops the errors found so far.              *)
Restart ==
  /\ pc = "unwind"
  /\ \A k \in 1 .. launched : ~Running(k)
  /\ errors' = <<>>
  /\ StartIndexing(1, nl)
  /\ UNCHANGED <<file, n_max, start, skip, nl, progress, blocked, columns, rows>>

(* The separators of all destinations: which one, and where in it. *)
Separators ==
  UNION {{k} \X (1 .. Len(scan[k].destination)) : k \in 0 .. num_threads}

IdxSize == Cardinality(Separators)

CountRows ==
  /\ pc = "join"
  /\ joined = num_threads
  /\ rows' = RowsOf(IdxSize, columns)
  /\ pc' = "done"
  /\ UNCHANGED <<file, n_max, start, skip, nl, num_threads, region, scan, launched,
                 joined, errors, progress, blocked, columns>>

Done == pc = "done" /\ UNCHANGED vars

Main ==
  \/ SkipLine \/ Open \/ OpenEmpty \/ IndexFirstRow \/ CountColumns \/ Launch \/ Launched
  \/ Display \/ Join \/ Throw \/ Restart \/ CountRows

Next == Main \/ WakeUp \/ (\E k \in Threads : IndexBatch(k)) \/ Done

(* The operating system schedules every thread.  Nothing wakes the main      *)
(* thread for no reason for sure.                                          *)
Fairness ==
  WF_vars(Main) /\ \A k \in 1 .. NumThreads : WF_vars(k \in Threads /\ IndexBatch(k))

Spec == Init /\ [][Next]_vars /\ Fairness

----------------------------------------------------------------------------
(* Properties.                                                             *)

(* Type invariant: the threads that exist have a region and locals, fewer   *)
(* were launched than exist, and fewer joined than launched.               *)
TypeOK ==
  /\ file \in Files
  /\ n_max \in NMaxes
  /\ pc \in {"open", "first_row", "launch", "display", "join", "unwind", "done"}
  /\ start \in Nat
  /\ skip \in Nat
  /\ nl \in Nat \X {"lf", "cr"}
  /\ num_threads \in 1 .. NumThreads
  /\ region \in [0 .. num_threads -> CallType]
  /\ scan \in [0 .. num_threads -> LocalsType]
  /\ launched \in 0 .. num_threads
  /\ joined \in 0 .. launched
  /\ errors \in Seq([position : Nat, column : Nat])
  /\ progress \in Nat
  /\ blocked \in BOOLEAN
  /\ columns \in Nat
  /\ rows \in Nat

(* The index as the rest of the program sees it.  Parse errors are sorted   *)
(* by their position before they are used, so their order does not count.  *)
Answer ==
  IF pc # "done" THEN [phase |-> "indexing"]
  ELSE [phase |-> "done",
        separators |-> FlattenSeq([k \in 1 .. (num_threads + 1) |->
                                     scan[k - 1].destination]),
        columns |-> columns, rows |-> rows,
        errors |-> ToSet(errors), error_count |-> Len(errors)]

(* Whatever the number of threads, where the batches end and how the        *)
(* threads interleave, the constructor returns, and it returns the index    *)
(* that one thread builds, with the same parse errors.                     *)
Sequential == INSTANCE Indexing WITH
  skip <- Skip, answer <- Answer, Reference <- SequentialAnswer

IndexesLikeOneThread == Sequential!Spec

(* The constructor does not reset idx_ and errors_ while a thread may still *)
(* write to them: goto start_indexing is safe.                             *)
RestartsAlone ==
  [][pc = "unwind" /\ pc' # pc => \A k \in 1 .. launched : ~Running(k)]_vars

(* Batches do not overlap and leave nothing out: when all threads run, each *)
(* one starts where the one before it ends.  The one exception is the line  *)
(* feed at the end of a file whose first row is its last: find_next_newline *)
(* does not see that it belongs to the carriage return before it.          *)
BatchesMeet ==
  launched = num_threads =>
    /\ \/ region[1].start = region[0].end
       \/ region[1].start = FileSize /\ region[0].end = FileSize - 1
    /\ \A k \in 2 .. num_threads : region[k].start = region[k - 1].end
    /\ region[num_threads].end = FileSize

(* Each destination ends up with whole rows: columns_ + 1 separators a row, *)
(* which is what get_cell and rows_ count on.                              *)
RowsAreWhole ==
  pc = "done" /\ num_threads > 1 =>
    \A k \in 1 .. num_threads : Len(scan[k].destination) % (columns + 1) = 0

(* What R/vroom.R says of num_threads: newlines within fields force the     *)
(* parser to use one thread.  With more, there is no newline between the    *)
(* separators of a field but one that ends a Windows line.                 *)
FieldNewlinesForceOneThread ==
  pc = "done" /\ num_threads > 1 =>
    \A k \in 0 .. num_threads :
      \A i \in 1 .. (Len(scan[k].destination) - 1) :
        i % (columns + 1) # 0 =>
          \A q \in (scan[k].destination[i] + 1) .. (scan[k].destination[i + 1] - 1) :
            \/ At(file, q) \notin {"lf", "cr"}
            \/ At(file, q) = "cr" /\ At(file, q + 1) = "lf"

(* What n_max lets through are the first rows of the whole index, and as    *)
(* many of them as there are up to n_max, header included or not.          *)
NMaxReadsFirstRows ==
  pc = "done" /\ n_max # Unlimited =>
    \A all \in {SequentialAnswer(file, Unlimited, Skip).separators} :
      /\ IsPrefix(scan[0].destination \o scan[1].destination, all)
      /\ rows = Min({n_max, RowsOf(Len(all), columns)})

=============================================================================
