-------------------------- MODULE ConnectionIndex --------------------------
(***************************************************************************)
(* The constructor of delimited_index_connection                           *)
(* (src/delimited_index_connection.cc): it copies what a connection gives  *)
(* to a temporary file and indexes it on the way.  The main thread reads   *)
(* into one of two buffers, while one task indexes the buffer read before  *)
(* and another one writes it to the file.                                  *)
(*                                                                         *)
(* A buffer ends with a null character.  The tasks look at the buffer when *)
(* they take a step, not when they are started.                            *)
(***************************************************************************)
EXTENDS SequentialIndex

CONSTANTS
  Inputs,  \* records of content, what the connection will give; chunk_size,
           \* the size of a buffer with its null character; n_max; and skip
  MaxSize  \* the largest size_t

ASSUME InputsAssumption ==
  \A in \in Inputs :
    /\ in.content \in Seq(Char) /\ in.chunk_size \in Nat \ {0, 1}
    /\ in.n_max \in Nat \union {Unlimited} /\ in.skip \in Nat

ASSUME MaxSizeAssumption == MaxSize \in Nat

VARIABLES
  input,       \* the one of Inputs that is read; it never changes
  taken,       \* how much of it has been read
  pc,          \* where the main thread is
  buf,         \* the two buffers
  i,           \* the one that the main thread uses
  sz,          \* how much is in it
  nl,          \* first_nl and nl: where the first row ends, and with what
  single_line, \* the first row is all there is
  n_max,       \* the lines that may still be read
  total_read,  \* the size of the buffers given to the tasks
  region,      \* the arguments of the indexing task
  scan,        \* its local variables; idx_[1] is scan.destination
  write,       \* the buffer that the writing task writes, and its size
  out,         \* the temporary file
  first_row,   \* idx_[0]
  errors,      \* parse_errors_
  columns,     \* columns_
  rows         \* rows_

vars == <<input, taken, pc, buf, i, sz, nl, single_line, n_max, total_read, region,
          scan, write, out, first_row, errors, columns, rows>>

main == <<taken, pc, buf, i, sz, nl, single_line, n_max, total_read,
          first_row, columns, rows>>

NoRegion == Region(0, 0, "lf", Unlimited, 0, 1, 0)

Idle == [Enter(NoRegion, "RECORD_START", 0, <<>>) EXCEPT !.out = "idle"]

Parsing == scan.out = "running"

Writing == write.state = "running"

(* The buffers that a task uses. *)
InUse ==
  (IF Parsing THEN {region.buf} ELSE {}) \union (IF Writing THEN {write.buf} ELSE {})

(* R_ReadConnection gives less than it is asked for only at the end. *)
ReadConnection ==
  SubSeq(input.content, taken + 1,
         Min({taken + input.chunk_size - 1, Len(input.content)}))

(* find_next_newline in a buffer: without a newline, its null character. *)
FirstNewline(chunk, pos) ==
  LET to == FindNewline(chunk, pos) IN <<Min({to[1], Len(chunk) - 1}), to[2]>>

(* A mistake: the null character at the end of a buffer ends a line. *)
EndsLine_AtNull(newline, c) == c \in {"lf", "nul"}

(* has_expected_line_ending *)
EndsLine(newline, c) == c = "lf" \/ (newline = "cr" /\ c = "cr")

(* What is left of n_max after some lines. *)
Remaining(limit, lines) ==
  IF limit = Unlimited THEN limit ELSE IF limit > lines THEN limit - lines ELSE 0

----------------------------------------------------------------------------
Init ==
  /\ input \in Inputs
  /\ taken = 0
  /\ pc = "open"
  /\ buf = [k \in {0, 1} |-> <<>>]
  /\ i = 0
  /\ sz = 0
  /\ nl = <<0, "lf">>
  /\ single_line = FALSE
  /\ n_max = NMaxWithHeader(input.n_max)
  /\ total_read = 0
  /\ region = [buf |-> 0, call |-> NoRegion]
  /\ scan = Idle
  /\ write = [buf |-> 0, size |-> 0, state |-> "none"]
  /\ out = <<>>
  /\ first_row = <<>>
  /\ errors = <<>>
  /\ columns = 0
  /\ rows = 0

(* The first read, and the search for the first row. *)
Open ==
  /\ pc = "open"
  /\ taken' = Len(ReadConnection)
  /\ sz' = taken'
  /\ buf' = [buf EXCEPT ![i] = Append(ReadConnection, "nul")]
  /\ IF sz' = 0 THEN pc' = "done" /\ UNCHANGED <<nl, single_line, region>>
     ELSE \E start \in {Min({FindFirstLine(buf'[i], input.skip), sz' + 1})} :
            /\ nl' = FirstNewline(buf'[i], start)
            /\ single_line' = (nl'[1] = sz')
            /\ region' = [buf |-> i,
                          call |-> Region(start, nl'[1] + 1, nl'[2], n_max, 0, 1, 0)]
            /\ LET cut == sz' > 1 /\ ~EndsLine(nl'[2], At(buf'[i], nl'[1]))
               IN  pc' = IF cut /\ taken' < Len(input.content) THEN "too_small"
                         ELSE "first_row"
  /\ UNCHANGED <<input, i, n_max, total_read, scan, write, out,
                 first_row, errors, columns, rows>>

(* size_t arithmetic. *)
Wrapped(n) == n % (MaxSize + 1)

(* The first row tells how many columns there are.  Without a separator     *)
(* there are MaxSize of them.                                               *)
IndexFirstRow ==
  /\ pc = "first_row"
  /\ scan' \in {RunRegion(buf[i], region.call,
                          Enter(region.call, "RECORD_START", 0, <<>>)).locals}
  /\ first_row' = scan'.destination
  /\ columns' = Wrapped(Len(scan'.destination) - 1)
  /\ pc' = "parse"
  /\ UNCHANGED <<input, taken, buf, i, sz, nl, single_line, n_max,
                 total_read, region, write, out, errors, rows>>

(* A mistake: every buffer starts with a record. *)
Resume_Anew(p) ==
  Enter(p, "RECORD_START", 0, IF total_read = 0 THEN <<>> ELSE scan.destination)

(* The call for the next buffer.  Its state, cols and idx_[1] are those that *)
(* the last one left.                                                       *)
NextRegion(limit) ==
  [Region(nl[1] + 1, sz, nl[2], limit, columns, 1, 0) EXCEPT !.file_offset = total_read]

Resume(p) ==
  Enter(p, scan.state, scan.cols, IF total_read = 0 THEN <<>> ELSE scan.destination)

(* Wait for the indexing task, and start the next one unless n_max lines    *)
(* have been read.                                                          *)
WaitForParse ==
  /\ pc = "parse"
  /\ ~Parsing
  /\ n_max' = Remaining(n_max, scan.lines_read)
  /\ IF n_max' # 0
     THEN /\ region' = [buf |-> i, call |-> NextRegion(n_max')]
          /\ scan' = Resume(region'.call)
     ELSE /\ scan' = IF total_read = 0 THEN Idle ELSE scan
          /\ UNCHANGED region
  /\ pc' = "write"
  /\ UNCHANGED <<input, taken, buf, i, sz, nl, single_line,
                 total_read, write, out, first_row, errors, columns, rows>>

(* Mistakes: the next write starts before the last one ended, or the loop   *)
(* ends before the buffer with the last rows is written.                   *)
WaitForWrite_NotWaiting ==
  /\ pc = "write"
  /\ IF write.state # "none" /\ n_max = 0
     THEN pc' = "finish" /\ UNCHANGED <<write, total_read>>
     ELSE /\ write' = [buf |-> i, size |-> sz, state |-> "running"]
          /\ total_read' = total_read + sz
          /\ pc' = "read"
  /\ UNCHANGED <<input, taken, buf, i, sz, nl, single_line, n_max,
                 region, scan, out, first_row, errors, columns, rows>>

WaitForWrite_BreaksFirst ==
  /\ pc = "write"
  /\ ~Writing
  /\ IF write.state # "none" /\ Remaining(n_max, scan.lines_read) = 0
     THEN pc' = "finish" /\ UNCHANGED <<write, total_read>>
     ELSE /\ write' = [buf |-> i, size |-> sz, state |-> "running"]
          /\ total_read' = total_read + sz
          /\ pc' = "read"
  /\ UNCHANGED <<input, taken, buf, i, sz, nl, single_line, n_max,
                 region, scan, out, first_row, errors, columns, rows>>

(* Wait for the writing task, and start the next one. *)
WaitForWrite ==
  /\ pc = "write"
  /\ ~Writing
  /\ IF write.state # "none" /\ n_max = 0
     THEN pc' = "finish" /\ UNCHANGED <<write, total_read>>
     ELSE /\ write' = [buf |-> i, size |-> sz, state |-> "running"]
          /\ total_read' = total_read + sz
          /\ pc' = "read"
  /\ UNCHANGED <<input, taken, buf, i, sz, nl, single_line, n_max,
                 region, scan, out, first_row, errors, columns, rows>>

(* Mistakes: the buffers do not alternate, or the null character is missing. *)
Read_SameBuffer ==
  /\ pc = "read"
  /\ taken' = taken + Len(ReadConnection)
  /\ sz' = Len(ReadConnection)
  /\ i' = i
  /\ buf' = IF sz' = 0 THEN buf ELSE [buf EXCEPT ![i'] = Append(ReadConnection, "nul")]
  /\ nl' = [nl EXCEPT ![1] = -1]
  /\ pc' = IF sz' = 0 THEN "finish" ELSE "parse"
  /\ UNCHANGED <<input, single_line, n_max, total_read, region, scan,
                 write, out, first_row, errors, columns, rows>>

Read_NoNull ==
  /\ pc = "read"
  /\ taken' = taken + Len(ReadConnection)
  /\ sz' = Len(ReadConnection)
  /\ i' = 1 - i
  /\ buf' = IF sz' = 0 THEN buf ELSE [buf EXCEPT ![i'] = ReadConnection]
  /\ nl' = [nl EXCEPT ![1] = -1]
  /\ pc' = IF sz' = 0 THEN "finish" ELSE "parse"
  /\ UNCHANGED <<input, single_line, n_max, total_read, region, scan,
                 write, out, first_row, errors, columns, rows>>

(* Read into the other buffer; first_nl = -1 makes its region start at 0. *)
Read ==
  /\ pc = "read"
  /\ taken' = taken + Len(ReadConnection)
  /\ sz' = Len(ReadConnection)
  /\ i' = 1 - i
  /\ buf' = IF sz' = 0 THEN buf ELSE [buf EXCEPT ![i'] = Append(ReadConnection, "nul")]
  /\ nl' = [nl EXCEPT ![1] = -1]
  /\ pc' = IF sz' = 0 THEN "finish" ELSE "parse"
  /\ UNCHANGED <<input, single_line, n_max, total_read, region, scan,
                 write, out, first_row, errors, columns, rows>>

(* The indexing task: an iteration of index_region. *)
Parse ==
  /\ Parsing
  /\ scan' = IndexStep(buf[region.buf], region.call, scan)
  /\ errors' = errors \o ParseErrors(buf[region.buf], region.call, scan)
  /\ UNCHANGED <<main, input, region, write, out>>

(* The writing task. *)
Write ==
  /\ Writing
  /\ out' = out \o SubSeq(buf[write.buf], 1, write.size)
  /\ write' = [write EXCEPT !.state = "done"]
  /\ UNCHANGED <<main, input, region, scan, errors>>

(* A last line without a newline ends with the file.  rows_ divides by      *)
(* columns_ + 1, which is 0 when there are MaxSize columns: a crash.        *)
Finish ==
  LET ended == EndsLine(nl[2], At(out, Len(out) - 1))
      first == columns = 0 \/ single_line
  IN  /\ pc = "finish"
      /\ ~Parsing /\ ~Writing
      /\ first_row' = IF ~ended /\ first THEN Append(first_row, Len(out)) ELSE first_row
      /\ scan' = IF ~ended /\ ~first THEN Push(scan, Len(out)) ELSE scan
      /\ columns' = IF ~ended /\ first THEN Wrapped(columns + 1) ELSE columns
      /\ IF columns' = MaxSize THEN pc' = "crashed" /\ UNCHANGED rows
         ELSE /\ pc' = "done"
              /\ rows' = RowsOf(Len(first_row') + Len(scan'.destination), columns')
      /\ UNCHANGED <<input, taken, buf, i, sz, nl, single_line, n_max,
                     total_read, region, write, out, errors>>

(* The constructor returns, or stops with an error. *)
Done == pc \in {"done", "too_small", "crashed"} /\ UNCHANGED vars

Main == Open \/ IndexFirstRow \/ WaitForParse \/ WaitForWrite \/ Read \/ Finish

Next == Main \/ Parse \/ Write \/ Done

(* The operating system schedules the main thread and the tasks. *)
Fairness == WF_vars(Main) /\ WF_vars(Parse) /\ WF_vars(Write)

Spec == Init /\ [][Next]_vars /\ Fairness

----------------------------------------------------------------------------
(* Properties.                                                             *)

(* Type invariant: the positions of the tasks are in their buffers.         *)
TypeOK ==
  /\ input \in Inputs
  /\ taken \in 0 .. Len(input.content) /\ total_read \in 0 .. taken
  /\ pc \in {"open", "too_small", "first_row", "parse", "write", "read", "finish",
             "done", "crashed"}
  /\ i \in {0, 1} /\ sz \in 0 .. (input.chunk_size - 1)
  /\ \A k \in {0, 1} : buf[k] = <<>> \/ buf[k][Len(buf[k])] = "nul"
  /\ nl \in (-1 .. input.chunk_size) \X {"lf", "cr"}
  /\ n_max \in Nat \union {Unlimited}
  /\ region.call \in CallType
  /\ region.call.end <= Len(buf[region.buf])
  /\ scan \in LocalsType
  /\ write.state \in {"none", "running", "done"}
  /\ write.size < input.chunk_size
  /\ first_row \in Seq(Nat) /\ columns \in 0 .. MaxSize /\ rows \in Nat

(* The file that holds what the connection gives, and the newline that the  *)
(* index of a file needs at its end.                                       *)
AsFile ==
  LET content == input.content
  IN  IF content # <<>> /\ content[Len(content)] \in {"lf", "cr"} THEN content
      ELSE Append(content, "lf")

(* The separators of whole rows: nothing reads those after them. *)
Separators ==
  LET all == first_row \o scan.destination
  IN  IF columns = 0 THEN <<>>
      ELSE SubSeq(all, 1, Len(all) - (Len(all) % (columns + 1)))

(* The index as the rest of the program sees it. *)
Answer ==
  IF pc = "too_small" THEN [phase |-> "refused"]
  ELSE IF pc # "done" THEN [phase |-> "indexing"]
  ELSE [phase |-> "done", separators |-> Separators, columns |-> columns, rows |-> rows,
        errors |-> ToSet(errors), error_count |-> Len(errors)]

(* Reading from a connection is consistent with reading directly from a     *)
(* file (tests/testthat/test-connection.R), whatever the size of the        *)
(* buffers and however the main thread and its tasks take turns; and it     *)
(* ends.                                                                   *)
FileIndexing == INSTANCE Indexing WITH
  file <- AsFile, n_max <- input.n_max, skip <- input.skip, answer <- Answer,
  Reference <- SequentialAnswer

IndexesLikeAFile == FileIndexing!Spec

(* The main thread does not read into a buffer that a task still uses. *)
BuffersKept == [][\A k \in {0, 1} : buf'[k] # buf[k] => k \notin InUse]_vars

(* The temporary file holds what the connection gave, in its order. *)
FileIsPrefix == IsPrefix(out, input.content)

(* The index only points into the temporary file, which get_cell reads:     *)
(* when n_max stops the loop early, what it found has been written.         *)
SeparatorsInFile ==
  pc = "done" => \A p \in ToSet(Separators) : p <= Len(out)

(* A first row is refused exactly when its newline is not in the first      *)
(* buffer, never taken for a whole one when it is cut (test-connection.R:   *)
(* "vroom errors when the connection buffer is too small").                 *)
FirstRowFits ==
  \A first \in {FindNewline(AsFile, start) : start \in {FindFirstLine(AsFile, input.skip)}} :
    /\ pc = "first_row" /\ taken < Len(input.content) => nl = first
    /\ pc = "too_small" => first[1] >= sz

=============================================================================
