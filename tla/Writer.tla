------------------------------- MODULE Writer -------------------------------
(***************************************************************************)
(* Writing a data frame: vroom_write() and vroom_format()                  *)
(* (R/vroom_write.R, src/vroom_write.cc).  The main thread starts up to    *)
(* num_threads tasks, each of which formats some rows into a buffer of its *)
(* own.  A further task then writes the buffers in their order, while the  *)
(* main thread already starts the tasks for the next ones: two vectors of  *)
(* futures take turns.  For a connection the main thread writes itself.    *)
(*                                                                         *)
(* A row is a part of the output; how it is formatted is left out.         *)
(***************************************************************************)
EXTENDS Integers, Sequences, SequencesExt

CONSTANT Jobs  \* the calls: what is written where, and the options

Targets == {"file", "string", "connection"}

ASSUME JobsAssumption ==
  Jobs \subseteq
    [target : Targets,             \* vroom_write_, _format_ or _write_connection_
     rows : Nat, num_threads : Nat \ {0}, buf_lines : Nat \ {0},
     col_names : BOOLEAN, append : BOOLEAN, bom : BOOLEAN,
     open : BOOLEAN,               \* the connection is open already
     lazy : BOOLEAN]               \* some column is an ALTREP vector

VARIABLES
  job,      \* the arguments of the call; they never change
  pc,       \* where the main thread is
  lazy,     \* the tasks would read an ALTREP vector
  begin,    \* the rows before this one have been given to a task
  t,        \* how many futures of futures[idx] are in use
  idx,      \* the vector of futures that the main thread fills
  futures,  \* the two vectors: tasks and the buffers that they return
  writing,  \* the loop that writes the buffers of one vector
  out       \* the output

vars == <<job, pc, lazy, begin, t, idx, futures, writing, out>>

----------------------------------------------------------------------------
(* The output.                                                             *)

Row(n) == [part |-> "row", number |-> n]

Part(name) == [part |-> name, number |-> 0]

(* fill_buf *)
FillBuf(first, end) == [n \in 1 .. (end - first) |-> Row(first + n)]

(* What was in the file before, or was written to the connection before. *)
Existing == IF job.target = "string" THEN <<>> ELSE <<Part("old")>>

Kept == IF job.append \/ job.open THEN Existing ELSE <<>>

Bom == IF job.bom /\ ~job.append THEN <<Part("bom")>> ELSE <<>>

Header == IF job.col_names THEN <<Part("header")>> ELSE <<>>

----------------------------------------------------------------------------
(* The futures.                                                            *)

Nothing == [state |-> "none", begin |-> 0, end |-> 0, buf |-> <<>>]

Filling(first, end) == [state |-> "filling", begin |-> first, end |-> end, buf |-> <<>>]

Writing == writing.state = "running"

(* The main thread goes on with its loop. *)
Loop(from) == IF from < job.rows THEN "fill" ELSE "last"

Init ==
  /\ job \in Jobs
  /\ pc = "convert"
  /\ lazy = job.lazy
  /\ begin = 0
  /\ t = 0
  /\ idx = 0
  /\ futures = [k \in {0, 1} |-> [s \in 1 .. job.num_threads |-> Nothing]]
  /\ writing = [state |-> "none", idx |-> 0, next |-> 1, count |-> 0]
  /\ out = Existing

(* vroom_write() replaces ALTREP vectors, vroom_format() does not. *)
Convert ==
  /\ pc = "convert"
  /\ lazy' = (lazy /\ job.target = "string")
  /\ pc' = "open"
  /\ UNCHANGED <<job, begin, t, idx, futures, writing, out>>

(* The output is opened, and all but the rows is written. *)
Open ==
  /\ pc = "open"
  /\ out' = Kept \o (IF job.target = "connection" THEN <<>> ELSE Bom) \o Header
  /\ pc' = Loop(0)
  /\ UNCHANGED <<job, lazy, begin, t, idx, futures, writing>>

(* A mistake: the last task is given rows that are not there. *)
Launch_PastTheEnd ==
  LET end == begin + job.buf_lines
  IN  /\ pc = "fill"
      /\ futures' = [futures EXCEPT ![idx][t + 1] = Filling(begin, end)]
      /\ t' = t + 1
      /\ begin' = end
      /\ pc' = IF t' < job.num_threads /\ begin' < job.rows THEN "fill" ELSE "write"
      /\ UNCHANGED <<job, lazy, idx, writing, out>>

(* Start a task that formats the next rows. *)
Launch ==
  LET more == begin + job.buf_lines
      end  == IF more < job.rows THEN more ELSE job.rows
  IN  /\ pc = "fill"
      /\ futures' = [futures EXCEPT ![idx][t + 1] = Filling(begin, end)]
      /\ t' = t + 1
      /\ begin' = end
      /\ pc' = IF t' < job.num_threads /\ begin' < job.rows THEN "fill" ELSE "write"
      /\ UNCHANGED <<job, lazy, idx, writing, out>>

(* A task returns its buffer. *)
Fill(k, s) ==
  LET f == futures[k][s]
  IN  /\ f.state = "filling"
      /\ futures' = [futures EXCEPT ![k][s] =
                       [f EXCEPT !.state = "ready", !.buf = FillBuf(f.begin, f.end)]]
      /\ UNCHANGED <<job, pc, lazy, begin, t, idx, writing, out>>

(* Mistakes: the next buffers are written before the last ones are, or the  *)
(* vectors do not take turns.                                              *)
StartWriting_NotWaiting ==
  /\ pc = "write"
  /\ writing' = [state |-> "running", idx |-> idx, next |-> 1, count |-> t]
  /\ idx' = 1 - idx
  /\ t' = 0
  /\ pc' = IF job.target = "connection" THEN "writing" ELSE Loop(begin)
  /\ UNCHANGED <<job, lazy, begin, futures, out>>

StartWriting_SameVector ==
  /\ pc = "write" /\ ~Writing
  /\ writing' = [state |-> "running", idx |-> idx, next |-> 1, count |-> t]
  /\ idx' = idx
  /\ t' = 0
  /\ pc' = IF job.target = "connection" THEN "writing" ELSE Loop(begin)
  /\ UNCHANGED <<job, lazy, begin, futures, out>>

(* Wait until the buffers before these are written, and start to write      *)
(* these: in another task, or right here for a connection.                 *)
StartWriting ==
  /\ pc = "write" /\ ~Writing
  /\ writing' = [state |-> "running", idx |-> idx, next |-> 1, count |-> t]
  /\ idx' = 1 - idx
  /\ t' = 0
  /\ pc' = IF job.target = "connection" THEN "writing" ELSE Loop(begin)
  /\ UNCHANGED <<job, lazy, begin, futures, out>>

(* get() of the next future waits for its buffer and leaves nothing in it. *)
Write ==
  LET f == futures[writing.idx][writing.next]
  IN  /\ Writing
      /\ f.state = "ready"
      /\ out' = out \o f.buf
      /\ futures' = [futures EXCEPT ![writing.idx][writing.next] = Nothing]
      /\ writing' = [writing EXCEPT
                       !.next = @ + 1,
                       !.state = IF writing.next = writing.count THEN "done" ELSE "running"]
      /\ UNCHANGED <<job, pc, lazy, begin, t, idx>>

(* The main thread has written all the buffers to the connection. *)
Written ==
  /\ pc = "writing" /\ ~Writing
  /\ pc' = Loop(begin)
  /\ UNCHANGED <<job, lazy, begin, t, idx, futures, writing, out>>

(* A mistake: the output is closed while it is still being written. *)
Return_NotWaiting ==
  /\ pc = "last"
  /\ pc' = "done"
  /\ UNCHANGED <<job, lazy, begin, t, idx, futures, writing, out>>

(* Wait for the last write, close the output and return. *)
Return ==
  /\ pc = "last" /\ ~Writing
  /\ pc' = "done"
  /\ UNCHANGED <<job, lazy, begin, t, idx, futures, writing, out>>

Done == pc = "done" /\ ~Writing /\ UNCHANGED vars

Main == Convert \/ Open \/ Launch \/ StartWriting \/ Written \/ Return

FillSome == \E k \in {0, 1}, s \in 1 .. job.num_threads : Fill(k, s)

Next == Main \/ FillSome \/ Write \/ Done

(* The operating system schedules the main thread and the tasks; a task     *)
(* that is never started is run by get().                                  *)
Fairness == WF_vars(Main) /\ WF_vars(FillSome) /\ WF_vars(Write)

Spec == Init /\ [][Next]_vars /\ Fairness

----------------------------------------------------------------------------
(* Properties.                                                             *)

Future ==
  [state : {"none", "filling", "ready"}, begin : 0 .. job.rows, end : 0 .. job.rows,
   buf : Seq([part : {"row"}, number : 1 .. job.rows])]

(* Type invariant: the tasks are given rows that exist. *)
TypeOK ==
  /\ job \in Jobs
  /\ pc \in {"convert", "open", "fill", "write", "writing", "last", "done"}
  /\ lazy \in BOOLEAN
  /\ begin \in 0 .. job.rows
  /\ idx \in {0, 1}
  /\ t \in 0 .. job.num_threads
  /\ futures \in [{0, 1} -> [1 .. job.num_threads -> Future]]
  /\ writing \in [state : {"none", "running", "done"}, idx : {0, 1},
                  next : 1 .. (job.num_threads + 1), count : 0 .. job.num_threads]

(* The output as vroom_write() documents it: the byte order mark first, if  *)
(* asked for, the names of the columns, and the rows in their order.       *)
Document == Kept \o Bom \o Header \o FillBuf(0, job.rows)

(* Whatever the tasks' schedule, the output is at any time a beginning of   *)
(* the document, and the whole of it in the end.                           *)
Output == INSTANCE Saving WITH
  document <- Document,
  saved <- IF pc \in {"convert", "open"} THEN <<>> ELSE out,
  returned <- pc = "done"

SavesTheDocument == Output!Spec

(* A buffer leaves its future only for the output: the main thread never    *)
(* starts a task in a future whose buffer has yet to be written.           *)
BuffersAreWritten ==
  [][\A k \in {0, 1}, s \in 1 .. job.num_threads :
       LET f == futures[k][s]
       IN  f.state # "none" =>
             \/ futures'[k][s].state # "none" /\ futures'[k][s].begin = f.begin
             \/ futures'[k][s] = Nothing /\ out' = out \o FillBuf(f.begin, f.end)]_vars

(* When the call returns no task is left that uses its arguments, the       *)
(* futures or the file.                                                    *)
TasksEndFirst ==
  pc = "done" =>
    /\ ~Writing
    /\ \A k \in {0, 1}, s \in 1 .. job.num_threads : futures[k][s] = Nothing

=============================================================================
