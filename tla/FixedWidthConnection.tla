------------------------ MODULE FixedWidthConnection ------------------------
(***************************************************************************)
(* The constructor of fixed_width_index_connection                         *)
(* (src/fixed_width_index_connection.cc): like delimited_index_connection  *)
(* it copies a connection to a temporary file with two buffers and two     *)
(* tasks, but every buffer finds out for itself what a newline is.         *)
(***************************************************************************)
EXTENDS FixedWidthIndex

CONSTANT Inputs
  \* records of content, what the connection will give; chunk_size, the size of
  \* a buffer with its null character; n_max; and cols, the columns

ASSUME InputsAssumption ==
  \A in \in Inputs :
    /\ in.content \in Seq(Char) /\ in.chunk_size \in Nat \ {0, 1}
    /\ in.n_max \in Nat \union {Unlimited}

VARIABLES
  input,       \* the one of Inputs that is read; it never changes
  taken,       \* how much of the content has been read
  pc,          \* where the main thread is
  buf,         \* the two buffers, up to their null characters
  i,           \* the one that the main thread uses
  sz,          \* how much is in it
  start,       \* where the next region starts
  total_read,  \* the size of the buffers given to the tasks
  remaining,   \* lines_remaining
  region,      \* the arguments of the indexing task
  scan,        \* its locals, lines_read and newlines_
  write,       \* the buffer that the writing task writes, and its size
  out          \* the temporary file

vars == <<input, taken, pc, buf, i, sz, start, total_read, remaining, region, scan,
          write, out>>

Parsing == scan.out = "running"

Writing == write.state = "running"

(* The buffers that a task uses. *)
InUse ==
  (IF Parsing THEN {region.buf} ELSE {}) \union (IF Writing THEN {write.buf} ELSE {})

(* R_ReadConnection gives less than it is asked for only at the end. *)
ReadConnection ==
  SubSeq(input.content, taken + 1,
         Min({taken + input.chunk_size - 1, Len(input.content)}))

Init ==
  /\ input \in Inputs
  /\ taken = 0
  /\ pc = "open"
  /\ buf = [k \in {0, 1} |-> <<>>]
  /\ i = 0
  /\ sz = 0
  /\ start = 0
  /\ total_read = 0
  /\ remaining = input.n_max
  /\ region = [buf |-> 0, call |-> LinesCall(0, 0, 0, Unlimited)]
  /\ scan = [EnterLines(LinesCall(0, 0, 0, 0), <<>>) EXCEPT !.out = "idle"]
  /\ write = [buf |-> 0, size |-> 0, state |-> "none"]
  /\ out = <<>>

(* The first read; rows start at the first line that is not skipped, which  *)
(* is looked for in the first buffer only.                                 *)
Open ==
  /\ pc = "open"
  /\ taken' = Len(ReadConnection)
  /\ sz' = taken'
  /\ buf' = [buf EXCEPT ![i] = Append(ReadConnection, "nul")]
  /\ start' = Min({FindFirstLine(buf'[i], Skip), sz' + 1})
  /\ scan' = [scan EXCEPT !.destination = BeforeFirst(start', input.n_max)]
  /\ pc' = IF sz' = 0 THEN "finish" ELSE "parse"
  /\ UNCHANGED <<input, i, total_read, remaining, region, write, out>>

(* Wait for the indexing task, and start the next one unless n_max lines    *)
(* have been read.                                                          *)
WaitForParse ==
  /\ pc = "parse"
  /\ ~Parsing
  /\ IF ~Below(scan.lines_read, remaining)
     THEN pc' = "finish" /\ UNCHANGED <<remaining, region, scan>>
     ELSE /\ remaining' =
               IF remaining = Unlimited THEN Unlimited ELSE remaining - scan.lines_read
          /\ region' = [buf |-> i, call |-> LinesCall(start, sz, total_read, remaining')]
          /\ scan' = EnterLines(region'.call, scan.destination)
          /\ pc' = "write"
  /\ UNCHANGED <<input, taken, buf, i, sz, start, total_read, write, out>>

(* Wait for the writing task, and start the next one. *)
WaitForWrite ==
  /\ pc = "write"
  /\ ~Writing
  /\ write' = [buf |-> i, size |-> sz, state |-> "running"]
  /\ total_read' = total_read + sz
  /\ pc' = "read"
  /\ UNCHANGED <<input, taken, buf, i, sz, start, remaining, region, scan, out>>

(* Mistakes: the buffers do not alternate, or rows are looked for from the  *)
(* first row of the first buffer on.                                       *)
Read_SameBuffer ==
  /\ pc = "read"
  /\ taken' = taken + Len(ReadConnection)
  /\ sz' = Len(ReadConnection)
  /\ i' = i
  /\ buf' = IF sz' = 0 THEN buf ELSE [buf EXCEPT ![i'] = Append(ReadConnection, "nul")]
  /\ start' = 0
  /\ pc' = IF sz' = 0 THEN "finish" ELSE "parse"
  /\ UNCHANGED <<input, total_read, remaining, region, scan, write, out>>

Read_KeepsStart ==
  /\ pc = "read"
  /\ taken' = taken + Len(ReadConnection)
  /\ sz' = Len(ReadConnection)
  /\ i' = 1 - i
  /\ buf' = IF sz' = 0 THEN buf ELSE [buf EXCEPT ![i'] = Append(ReadConnection, "nul")]
  /\ start' = start
  /\ pc' = IF sz' = 0 THEN "finish" ELSE "parse"
  /\ UNCHANGED <<input, total_read, remaining, region, scan, write, out>>

(* Read into the other buffer. *)
Read ==
  /\ pc = "read"
  /\ taken' = taken + Len(ReadConnection)
  /\ sz' = Len(ReadConnection)
  /\ i' = 1 - i
  /\ buf' = IF sz' = 0 THEN buf ELSE [buf EXCEPT ![i'] = Append(ReadConnection, "nul")]
  /\ start' = 0
  /\ pc' = IF sz' = 0 THEN "finish" ELSE "parse"
  /\ UNCHANGED <<input, total_read, remaining, region, scan, write, out>>

(* The indexing task: an iteration of index_region. *)
Parse ==
  /\ Parsing
  /\ scan' = LinesStep(buf[region.buf], region.call, scan)
  /\ UNCHANGED <<input, taken, pc, buf, i, sz, start, total_read, remaining, region,
                 write, out>>

(* The writing task. *)
Write ==
  /\ Writing
  /\ out' = out \o SubSeq(buf[write.buf], 1, write.size)
  /\ write' = [write EXCEPT !.state = "done"]
  /\ UNCHANGED <<input, taken, pc, buf, i, sz, start, total_read, remaining, region,
                 scan>>

(* The temporary file is mapped, which an empty one cannot be, and its last *)
(* character read.  With n_max = 0 it is not mapped, and the read undefined *)
(* behaviour.                                                               *)
Finish ==
  /\ pc = "finish"
  /\ ~Parsing /\ ~Writing
  /\ scan' = IF out # <<>> /\ input.n_max = Unlimited /\ Last(out) \notin {"lf", "cr"}
             THEN [scan EXCEPT !.destination = Append(@, Len(out))] ELSE scan
  /\ pc' \in IF input.n_max = 0 THEN {"done", "crashed"}
             ELSE IF out = <<>> THEN {"stopped"} ELSE {"done"}
  /\ UNCHANGED <<input, taken, buf, i, sz, start, total_read, remaining, region, write,
                 out>>

Done == pc \in {"done", "stopped", "crashed"} /\ UNCHANGED vars

Main == Open \/ WaitForParse \/ WaitForWrite \/ Read \/ Finish

Next == Main \/ Parse \/ Write \/ Done

(* The operating system schedules the main thread and the tasks. *)
Fairness == WF_vars(Main) /\ WF_vars(Parse) /\ WF_vars(Write)

Spec == Init /\ [][Next]_vars /\ Fairness

----------------------------------------------------------------------------
(* Properties.                                                             *)

(* Type invariant: the position of the indexing task is in its buffer. *)
TypeOK ==
  /\ taken \in 0 .. Len(input.content) /\ total_read \in 0 .. taken
  /\ pc \in {"open", "parse", "write", "read", "finish", "done", "stopped", "crashed"}
  /\ i \in {0, 1} /\ sz \in 0 .. (input.chunk_size - 1) /\ start \in 0 .. (sz + 1)
  /\ \A k \in {0, 1} : Len(buf[k]) <= input.chunk_size
  /\ remaining \in Nat \union {Unlimited}
  /\ region.buf \in {0, 1} /\ region.call \in LinesCallType
  /\ scan \in LinesLocalsType
  /\ Parsing => scan.pos <= region.call.end + 1
  /\ write.buf \in {0, 1} /\ write.size < input.chunk_size
  /\ write.state \in {"none", "running", "done"}

Answer ==
  IF pc = "stopped" THEN [phase |-> "stopped"]
  ELSE IF pc # "done" THEN [phase |-> "reading"]
  ELSE [phase |-> "done", table |-> TableOf(out, scan.destination, input.cols)]

(* Whatever the size of the buffers and the turns of the tasks, the index   *)
(* gives a row for every line, cut at the columns, also of a CRLF that was  *)
(* split between two buffers (fixed_width_index.h: "has been in practice"), *)
(* a last line without a newline, or n_max lines; and it ends.             *)
FixedWidthReading == INSTANCE FixedWidth WITH answer <- Answer

ReadsTheTable == FixedWidthReading!Spec

(* The main thread does not read into a buffer that a task still uses. *)
BuffersKept == [][\A k \in {0, 1} : buf'[k] # buf[k] => k \notin InUse]_vars

(* "connections and normal files produce identical output"                  *)
(* (tests/testthat/test-vroom_fwf.R); n_max aside.                          *)
FilesReadAlike ==
  pc = "done" /\ input.n_max = Unlimited /\ Last(input.content) \in {"lf", "cr"} =>
    TableOf(out, scan.destination, input.cols)
      = TableOf(input.content, FileNewlines(input.content, Unlimited), input.cols)

(* Cells cut at the columns that fwf_empty() guessed from the first lines   *)
(* keep all that is not white in those lines.                              *)
GuessKeepsAll ==
  pc = "done" /\ "guess" \in DOMAIN input =>
    \A table \in {TableOf(out, scan.destination, input.cols)} :
      \A row \in 1 .. Min({Len(table), input.guess}) :
        LET inked(chars) == SelectSeq(chars, LAMBDA c : c # "blank")
        IN  inked(FlattenSeq(table[row])) =
              inked(FixedWidthReading!RowsOf(input.content, input.n_max)[row])

=============================================================================
