---------------------------- MODULE Writer_proofs ----------------------------
(***************************************************************************)
(* Proofs about Writer, for any calls.  The inductive invariant says which *)
(* futures may hold anything: of the vector that the main thread fills the *)
(* first t, of the other one those that are still to be written.  A second *)
(* one says that each task goes on where the one before it ends.           *)
(***************************************************************************)
EXTENDS Writer, SequenceTheorems, TLAPS

(* The futures of a vector. *)
Slots == 1 .. job.num_threads

(* The buffers hold the rows that their tasks were given. *)
Formatted ==
  \A k \in {0, 1}, s \in Slots :
    futures[k][s].state = "ready" =>
      futures[k][s].buf = FillBuf(futures[k][s].begin, futures[k][s].end)

(* Where the main thread is in its loop. *)
InLoop ==
  /\ pc = "fill" => t < job.num_threads /\ begin < job.rows
  /\ pc = "write" => t > 0
  /\ pc \notin {"fill", "write"} => t = 0
  /\ pc \in {"convert", "open"} => begin = 0

(* The vectors take turns. *)
TakeTurns ==
  /\ Writing => writing.idx = 1 - idx /\ writing.next <= writing.count
  /\ \A s \in Slots : futures[idx][s] # Nothing => s <= t
  /\ \A s \in Slots :
       futures[1 - idx][s] # Nothing => Writing /\ writing.next <= s /\ s <= writing.count

(* The inductive invariant. *)
IInv == TypeOK /\ Formatted /\ InLoop /\ TakeTurns

----------------------------------------------------------------------------
(* What fill_buf returns are rows of the data frame. *)
LEMMA FillBufType ==
  ASSUME NEW rows \in Nat, NEW first \in 0 .. rows, NEW end \in 0 .. rows
  PROVE  FillBuf(first, end) \in Seq([part : {"row"}, number : 1 .. rows])
<1> DEFINE T == [part : {"row"}, number : 1 .. rows]
           length == IF end > first THEN end - first ELSE 0
<1>1. length \in Nat /\ 1 .. (end - first) = 1 .. length
  OBVIOUS
<1>2. ASSUME NEW m \in 1 .. length PROVE Row(first + m) \in T
  BY <1>2 DEF Row
<1>3. FillBuf(first, end) \in [1 .. length -> T]
  BY <1>1, <1>2 DEF FillBuf
<1> HIDE DEF T, length
<1>4. FillBuf(first, end) \in Seq(T)
  BY <1>1, <1>3
<1> QED
  BY <1>4 DEF T

(* The arguments of the call. *)
LEMMA JobType ==
  ASSUME job \in Jobs
  PROVE  /\ job.rows \in Nat
         /\ job.num_threads \in Nat \ {0}
         /\ job.buf_lines \in Nat \ {0}
  BY JobsAssumption

(* No future holds anything at first. *)
THEOREM InitIInv == Init => IInv
<1> SUFFICES ASSUME Init PROVE IInv
  OBVIOUS
<1>1. job.rows \in Nat /\ job.num_threads \in Nat \ {0} /\ job.buf_lines \in Nat \ {0}
  BY JobType DEF Init
<1>2. lazy \in BOOLEAN
  BY JobsAssumption DEF Init
<1>3. <<>> \in Seq([part : {"row"}, number : 1 .. job.rows])
  OBVIOUS
<1>4. Nothing \in Future
  BY <1>1, <1>3 DEF Nothing, Future
<1>5. futures \in [{0, 1} -> [1 .. job.num_threads -> Future]]
  BY <1>4 DEF Init
<1>6. TypeOK
  BY <1>1, <1>2, <1>5 DEF Init, TypeOK
<1>7. \A k \in {0, 1}, s \in Slots : futures[k][s] = Nothing
  BY DEF Init, Slots
<1>8. Formatted
  BY <1>7 DEF Formatted, Nothing
<1>9. InLoop
  BY DEF Init, InLoop
<1>10. idx = 0 /\ 1 - idx = 1 /\ writing.state = "none"
  BY DEF Init
<1>11. TakeTurns
  BY <1>7, <1>10 DEF TakeTurns, Writing
<1> QED
  BY <1>6, <1>8, <1>9, <1>11 DEF IInv
----------------------------------------------------------------------------
(* One lemma for each step of the main thread and of the tasks. *)

(* The facts of the invariant on the types that every step needs. *)
LEMMA Types ==
  ASSUME IInv
  PROVE  /\ job \in Jobs /\ job.rows \in Nat /\ job.num_threads \in Nat \ {0}
         /\ job.buf_lines \in Nat \ {0}
         /\ begin \in 0 .. job.rows /\ t \in 0 .. job.num_threads
         /\ idx \in {0, 1} /\ 1 - idx \in {0, 1} /\ 1 - idx # idx
         /\ futures \in [{0, 1} -> [1 .. job.num_threads -> Future]]
         /\ writing \in [state : {"none", "running", "done"}, idx : {0, 1},
                         next : 1 .. (job.num_threads + 1), count : 0 .. job.num_threads]
  BY JobType DEF IInv, TypeOK

(* Steps that leave the futures and the loop that writes them alone. *)
LEMMA MainAlone ==
  ASSUME IInv, UNCHANGED <<job, begin, t, idx, futures, writing>>,
         pc' \in {"convert", "open", "fill", "write", "writing", "last", "done"},
         lazy' \in BOOLEAN,
         InLoop'
  PROVE  IInv'
<1>1. TypeOK'
  BY DEF IInv, TypeOK, Future
<1>2. Formatted'
  BY DEF IInv, Formatted, Slots, FillBuf, Row
<1>3. TakeTurns'
  BY DEF IInv, TakeTurns, Slots, Writing
<1> QED
  BY <1>1, <1>2, <1>3 DEF IInv

(* Steps of the main thread alone. *)
LEMMA ConvertStep == ASSUME IInv, Convert PROVE IInv'
<1>1. lazy' \in BOOLEAN
  BY DEF Convert, IInv, TypeOK
<1>2. InLoop'
  BY DEF Convert, IInv, InLoop
<1> QED
  BY <1>1, <1>2, MainAlone DEF Convert

(* Opening the output starts the loop. *)
LEMMA OpenStep == ASSUME IInv, Open PROVE IInv'
<1>1. pc' \in {"fill", "last"} /\ (pc' = "fill" => 0 < job.rows)
  BY DEF Open, Loop
<1>2. InLoop'
  BY <1>1, Types DEF Open, IInv, InLoop
<1> QED
  BY <1>1, <1>2, MainAlone DEF Open, IInv, TypeOK

(* The connection has been written to. *)
LEMMA WrittenStep == ASSUME IInv, Written PROVE IInv'
<1>1. pc' \in {"fill", "last"} /\ (pc' = "fill" => begin < job.rows)
  BY DEF Written, Loop
<1>2. InLoop'
  BY <1>1, Types DEF Written, IInv, InLoop
<1> QED
  BY <1>1, <1>2, MainAlone DEF Written, IInv, TypeOK

(* The call returns. *)
LEMMA ReturnStep == ASSUME IInv, Return PROVE IInv'
<1>1. InLoop'
  BY DEF Return, IInv, InLoop
<1> QED
  BY <1>1, MainAlone DEF Return, IInv, TypeOK

(* A task is started in a future that holds nothing. *)
LEMMA LaunchStep ==
  ASSUME IInv, Launch
  PROVE  /\ IInv'
         /\ futures[idx][t + 1] = Nothing
         /\ \A k \in {0, 1}, s \in Slots :
              ~(k = idx /\ s = t + 1) => futures'[k][s] = futures[k][s]
<1> DEFINE more == begin + job.buf_lines
           end  == IF more < job.rows THEN more ELSE job.rows
           new  == Filling(begin, end)
<1>1. t < job.num_threads /\ begin < job.rows
  BY DEF Launch, IInv, InLoop
<1>2. t + 1 \in Slots /\ end \in 0 .. job.rows
  BY <1>1, Types DEF Slots
<1>3. futures' = [futures EXCEPT ![idx][t + 1] = new] /\ t' = t + 1 /\ begin' = end
  BY DEF Launch
<1>4. UNCHANGED <<job, lazy, idx, writing, out>>
  BY DEF Launch
<1>5. pc' \in {"fill", "write"} /\ (pc' = "fill" => t' < job.num_threads /\ begin' < job.rows)
  BY DEF Launch
<1>6. <<>> \in Seq([part : {"row"}, number : 1 .. job.rows])
  OBVIOUS
<1>7. new \in Future /\ new.state = "filling"
  BY <1>2, <1>6, Types DEF Filling, Future
<1> HIDE DEF new
<1>8. futures'[idx][t + 1] = new
  BY <1>2, <1>3, Types DEF Slots
<1>9. \A k \in {0, 1}, s \in Slots : ~(k = idx /\ s = t + 1) => futures'[k][s] = futures[k][s]
  BY <1>3, Types DEF Slots
<1>10. futures' \in [{0, 1} -> [1 .. job.num_threads -> Future]]
  BY <1>2, <1>3, <1>7, Types DEF Slots
<1>11. futures[idx][t + 1] = Nothing
  <2>1. ~(t + 1 <= t)
    BY Types
  <2> QED
    BY <1>2, <2>1 DEF IInv, TakeTurns
<1>12. TypeOK'
  <2>1. t' \in 0 .. job.num_threads /\ begin' \in 0 .. job.rows
    BY <1>1, <1>2, <1>3, Types
  <2> QED
    BY <1>4, <1>5, <1>10, <2>1 DEF IInv, TypeOK, Future
<1>13. Formatted'
  <2>1. ASSUME NEW k \in {0, 1}, NEW s \in Slots, futures'[k][s].state = "ready"
        PROVE  futures'[k][s].buf = FillBuf(futures'[k][s].begin, futures'[k][s].end)
    <3>1. ~(k = idx /\ s = t + 1)
      BY <1>7, <1>8, <2>1
    <3>2. futures'[k][s] = futures[k][s]
      BY <1>9, <3>1
    <3> QED
      BY <2>1, <3>2 DEF IInv, Formatted
  <2> QED
    BY <1>4, <2>1 DEF Formatted, Slots, FillBuf, Row
<1>14. InLoop'
  BY <1>1, <1>2, <1>3, <1>4, <1>5, Types DEF InLoop
<1>15. TakeTurns'
  <2>1. Writing' => Writing
    BY <1>4 DEF Writing
  <2>2. \A s \in Slots : futures'[idx][s] # Nothing => s <= t + 1
    <3>1. ASSUME NEW s \in Slots, futures'[idx][s] # Nothing, s # t + 1
          PROVE  s <= t
      BY <1>9, <3>1, Types DEF IInv, TakeTurns
    <3> QED
      BY <3>1, Types DEF Slots
  <2>3. \A s \in Slots : futures'[1 - idx][s] = futures[1 - idx][s]
    BY <1>9, Types
  <2> QED
    BY <1>3, <1>4, <2>1, <2>2, <2>3 DEF IInv, TakeTurns, Slots, Writing
<1> QED
  BY <1>9, <1>11, <1>12, <1>13, <1>14, <1>15 DEF IInv

(* A task fills its own future. *)
LEMMA FillStep ==
  ASSUME IInv, NEW k \in {0, 1}, NEW s \in Slots, Fill(k, s)
  PROVE  /\ IInv'
         /\ futures[k][s].state = "filling"
         /\ futures'[k][s].state = "ready" /\ futures'[k][s].begin = futures[k][s].begin
         /\ \A j \in {0, 1}, r \in Slots : ~(j = k /\ r = s) => futures'[j][r] = futures[j][r]
<1> DEFINE f   == futures[k][s]
           new == [f EXCEPT !.state = "ready", !.buf = FillBuf(f.begin, f.end)]
<1>1. f.state = "filling" /\ futures' = [futures EXCEPT ![k][s] = new]
  BY DEF Fill
<1>2. UNCHANGED <<job, pc, lazy, begin, t, idx, writing, out>>
  BY DEF Fill
<1>3. f \in Future
  BY Types DEF Slots
<1>4. FillBuf(f.begin, f.end) \in Seq([part : {"row"}, number : 1 .. job.rows])
  BY <1>3, FillBufType, Types DEF Future
<1>5. /\ new \in Future /\ new.state = "ready"
      /\ new.begin = f.begin /\ new.end = f.end /\ new.buf = FillBuf(f.begin, f.end)
  BY <1>3, <1>4 DEF Future
<1>6. f # Nothing
  BY <1>1 DEF Nothing
<1> HIDE DEF new, f
<1>7. futures'[k][s] = new
  BY <1>1, Types DEF Slots
<1>8. \A j \in {0, 1}, r \in Slots : ~(j = k /\ r = s) => futures'[j][r] = futures[j][r]
  BY <1>1, Types DEF Slots
<1>9. futures' \in [{0, 1} -> [1 .. job.num_threads -> Future]]
  BY <1>1, <1>5, Types DEF Slots
<1>10. TypeOK'
  BY <1>2, <1>9 DEF IInv, TypeOK, Future
<1>11. Formatted'
  <2>1. ASSUME NEW j \in {0, 1}, NEW r \in Slots, futures'[j][r].state = "ready"
        PROVE  futures'[j][r].buf = FillBuf(futures'[j][r].begin, futures'[j][r].end)
    <3>1. CASE j = k /\ r = s
      BY <1>5, <1>7, <3>1
    <3>2. CASE ~(j = k /\ r = s)
      BY <1>8, <2>1, <3>2 DEF IInv, Formatted
    <3> QED
      BY <3>1, <3>2
  <2> QED
    BY <1>2, <2>1 DEF Formatted, Slots, FillBuf, Row
<1>12. InLoop'
  BY <1>2 DEF IInv, InLoop
<1>13. \A j \in {0, 1}, r \in Slots : futures'[j][r] # Nothing => futures[j][r] # Nothing
  BY <1>6, <1>8 DEF f
<1>14. TakeTurns'
  BY <1>2, <1>13, Types DEF IInv, TakeTurns, Slots, Writing
<1> QED
  BY <1>1, <1>5, <1>7, <1>8, <1>10, <1>11, <1>12, <1>14 DEF IInv, f

(* The vectors change places when the other one is empty. *)
LEMMA StartWritingStep == ASSUME IInv, StartWriting PROVE IInv'
<1>1. /\ pc = "write" /\ ~Writing /\ t > 0
      /\ writing' = [state |-> "running", idx |-> idx, next |-> 1, count |-> t]
      /\ idx' = 1 - idx /\ t' = 0
      /\ UNCHANGED <<job, lazy, begin, futures, out>>
  BY DEF StartWriting, IInv, InLoop
<1>2. pc' \in {"writing", "fill", "last"} /\ (pc' = "fill" => begin < job.rows)
  BY DEF StartWriting, Loop
<1>3. idx' \in {0, 1} /\ 1 - idx' = idx
  BY <1>1, Types
<1>4. writing' \in [state : {"none", "running", "done"}, idx : {0, 1},
                    next : 1 .. (job.num_threads + 1), count : 0 .. job.num_threads]
  <2>1. 1 \in 1 .. (job.num_threads + 1)
    BY Types
  <2> QED
    BY <1>1, <2>1, Types
<1>5. TypeOK'
  <2>1. t' \in 0 .. job.num_threads
    BY <1>1, Types
  <2> QED
    BY <1>1, <1>2, <1>3, <1>4, <2>1 DEF IInv, TypeOK, Future
<1>6. Formatted'
  BY <1>1 DEF IInv, Formatted, Slots, FillBuf, Row
<1>7. InLoop'
  BY <1>1, <1>2, Types DEF InLoop
<1>8. TakeTurns'
  <2>1. Writing' /\ writing'.idx = 1 - idx' /\ writing'.next = 1 /\ writing'.count = t
    BY <1>1, <1>3 DEF Writing
  <2>2. 1 <= t
    BY <1>1, Types
  <2>3. \A s \in Slots : futures[1 - idx][s] = Nothing
    BY <1>1 DEF IInv, TakeTurns
  <2>4. \A s \in Slots : futures[idx][s] # Nothing => 1 <= s /\ s <= t
    BY Types DEF IInv, TakeTurns, Slots
  <2> QED
    BY <1>1, <1>3, <2>1, <2>2, <2>3, <2>4 DEF TakeTurns, Slots
<1> QED
  BY <1>5, <1>6, <1>7, <1>8 DEF IInv

(* A buffer that is written leaves its future empty. *)
LEMMA WriteStep ==
  ASSUME IInv, Write
  PROVE  /\ IInv'
         /\ writing.idx \in {0, 1} /\ writing.next \in Slots
         /\ LET f == futures[writing.idx][writing.next]
            IN  /\ futures'[writing.idx][writing.next] = Nothing
                /\ out' = out \o FillBuf(f.begin, f.end)
         /\ \A k \in {0, 1}, s \in Slots :
              ~(k = writing.idx /\ s = writing.next) => futures'[k][s] = futures[k][s]
<1> DEFINE i == writing.idx
           n == writing.next
           f == futures[i][n]
<1>1. /\ Writing /\ f.state = "ready" /\ out' = out \o f.buf
      /\ futures' = [futures EXCEPT ![i][n] = Nothing]
      /\ writing' = [writing EXCEPT
                       !.next = @ + 1, !.state = IF n = writing.count THEN "done" ELSE "running"]
      /\ UNCHANGED <<job, pc, lazy, begin, t, idx>>
  BY DEF Write
<1>2. i = 1 - idx /\ n <= writing.count
  BY <1>1 DEF IInv, TakeTurns
<1>3. i \in {0, 1} /\ n \in Slots /\ n \in Nat /\ writing.count \in Nat
  BY <1>2, Types DEF Slots
<1>4. f.buf = FillBuf(f.begin, f.end)
  BY <1>1, <1>3 DEF IInv, Formatted
<1>5. Nothing \in Future
  <2>1. <<>> \in Seq([part : {"row"}, number : 1 .. job.rows])
    OBVIOUS
  <2> QED
    BY <2>1, Types DEF Nothing, Future
<1>6. /\ writing'.next = n + 1 /\ writing'.idx = i /\ writing'.count = writing.count
      /\ writing'.state = IF n = writing.count THEN "done" ELSE "running"
  BY <1>1, Types
<1>7. writing' \in [state : {"none", "running", "done"}, idx : {0, 1},
                    next : 1 .. (job.num_threads + 1), count : 0 .. job.num_threads]
  <2>1. n + 1 \in 1 .. (job.num_threads + 1)
    BY <1>3, Types DEF Slots
  <2> QED
    BY <1>1, <2>1, Types
<1>8. futures' \in [{0, 1} -> [1 .. job.num_threads -> Future]]
  BY <1>1, <1>3, <1>5, Types DEF Slots
<1>9. futures'[i][n] = Nothing
  BY <1>1, <1>3, Types DEF Slots
<1>10. \A k \in {0, 1}, s \in Slots : ~(k = i /\ s = n) => futures'[k][s] = futures[k][s]
  BY <1>1, <1>3, Types DEF Slots
<1> HIDE DEF i, n, f
<1>11. TypeOK'
  BY <1>1, <1>7, <1>8 DEF IInv, TypeOK, Future
<1>12. Formatted'
  <2>1. ASSUME NEW k \in {0, 1}, NEW s \in Slots, futures'[k][s].state = "ready"
        PROVE  futures'[k][s].buf = FillBuf(futures'[k][s].begin, futures'[k][s].end)
    <3>1. ~(k = i /\ s = n)
      BY <1>9, <2>1 DEF Nothing
    <3> QED
      BY <1>10, <2>1, <3>1 DEF IInv, Formatted
  <2> QED
    BY <1>1, <2>1 DEF Formatted, Slots, FillBuf, Row
<1>13. InLoop'
  BY <1>1 DEF IInv, InLoop
<1>14. TakeTurns'
  <2>1. Writing' => n < writing.count
    BY <1>2, <1>3, <1>6 DEF Writing
  <2>2. \A s \in Slots : futures'[idx][s] = futures[idx][s]
    BY <1>2, <1>10, Types
  <2>3. ASSUME NEW s \in Slots, futures'[1 - idx][s] # Nothing
        PROVE  Writing' /\ n + 1 <= s /\ s <= writing.count
    <3>1. s # n
      BY <1>2, <1>9, <2>3
    <3>2. futures[1 - idx][s] # Nothing
      BY <1>2, <1>3, <1>10, <2>3, <3>1
    <3>3. n <= s /\ s <= writing.count
      BY <3>2 DEF IInv, TakeTurns, n
    <3>4. s \in Nat
      BY Types DEF Slots
    <3>5. n + 1 <= s /\ n # writing.count
      BY <1>3, <3>1, <3>3, <3>4
    <3> QED
      BY <1>6, <3>3, <3>5 DEF Writing
  <2>4. Writing' => writing'.idx = 1 - idx' /\ writing'.next <= writing'.count
    BY <1>1, <1>2, <1>3, <1>6, <2>1
  <2>5. \A s \in Slots : futures'[idx][s] # Nothing => s <= t
    BY <2>2 DEF IInv, TakeTurns
  <2> QED
    BY <1>1, <1>6, <2>3, <2>4, <2>5 DEF TakeTurns, Slots
<1> QED
  BY <1>1, <1>3, <1>4, <1>9, <1>10, <1>11, <1>12, <1>13, <1>14 DEF IInv, i, n, f

----------------------------------------------------------------------------
(* No step leaves the invariant. *)
THEOREM NextIInv == IInv /\ [Next]_vars => IInv'
<1> SUFFICES ASSUME IInv, [Next]_vars PROVE IInv'
  OBVIOUS
<1>1. CASE Convert
  BY <1>1, ConvertStep
<1>2. CASE Open
  BY <1>2, OpenStep
<1>3. CASE Launch
  BY <1>3, LaunchStep
<1>4. CASE StartWriting
  BY <1>4, StartWritingStep
<1>5. CASE Written
  BY <1>5, WrittenStep
<1>6. CASE Return
  BY <1>6, ReturnStep
<1>7. CASE FillSome
  <2>1. PICK k \in {0, 1}, s \in Slots : Fill(k, s)
    BY <1>7 DEF FillSome, Slots
  <2> QED
    BY <2>1, FillStep
<1>8. CASE Write
  BY <1>8, WriteStep
<1>9. CASE UNCHANGED vars
  <2>1. InLoop'
    BY <1>9 DEF vars, IInv, InLoop
  <2> QED
    BY <1>9, <2>1, MainAlone DEF vars, IInv, TypeOK
<1> QED
  BY <1>1, <1>2, <1>3, <1>4, <1>5, <1>6, <1>7, <1>8, <1>9 DEF Next, Main, Done

(* The invariant holds always. *)
THEOREM Invariant == Spec => []IInv
  BY InitIInv, NextIInv, PTL DEF Spec

(* The types of vroom_write_out's variables: no task is ever given rows     *)
(* that the data frame does not have, nor a future that is not there.      *)
THEOREM TypeCorrect == Spec => []TypeOK
<1>1. IInv => TypeOK
  BY DEF IInv
<1> QED
  BY <1>1, Invariant, PTL

(* However the tasks are scheduled, vroom_write_out never starts a task in  *)
(* a future whose buffer has yet to be written.                            *)
THEOREM BuffersAlwaysWritten == Spec => BuffersAreWritten
<1> DEFINE Safe(k, s) ==
             futures[k][s].state # "none" =>
               \/ futures'[k][s].state # "none" /\ futures'[k][s].begin = futures[k][s].begin
               \/ futures'[k][s] = Nothing
                  /\ out' = out \o FillBuf(futures[k][s].begin, futures[k][s].end)
<1>1. ASSUME IInv, Next PROVE \A k \in {0, 1}, s \in Slots : Safe(k, s)
  <2> SUFFICES ASSUME NEW k \in {0, 1}, NEW s \in Slots, futures[k][s].state # "none"
               PROVE  Safe(k, s)
    OBVIOUS
  <2>1. CASE UNCHANGED futures
    BY <2>1
  <2>2. CASE Launch
    <3>1. ~(k = idx /\ s = t + 1)
      BY <1>1, <2>2, LaunchStep DEF Nothing
    <3> QED
      BY <1>1, <2>2, <3>1, LaunchStep
  <2>3. CASE FillSome
    <3>1. PICK j \in {0, 1}, r \in Slots : Fill(j, r)
      BY <2>3 DEF FillSome, Slots
    <3>2. CASE k = j /\ s = r
      BY <1>1, <3>1, <3>2, FillStep
    <3>3. CASE ~(k = j /\ s = r)
      BY <1>1, <3>1, <3>3, FillStep
    <3> QED
      BY <3>2, <3>3
  <2>4. CASE Write
    <3>1. CASE k = writing.idx /\ s = writing.next
      BY <1>1, <2>4, <3>1, WriteStep
    <3>2. CASE ~(k = writing.idx /\ s = writing.next)
      BY <1>1, <2>4, <3>2, WriteStep
    <3> QED
      BY <3>1, <3>2
  <2> QED
    BY <1>1, <2>1, <2>2, <2>3, <2>4
       DEF Next, Main, Convert, Open, StartWriting, Written, Return, Done, vars
<1>2. ASSUME IInv, [Next]_vars
      PROVE  [\A k \in {0, 1}, s \in 1 .. job.num_threads :
                LET f == futures[k][s]
                IN  f.state # "none" =>
                      \/ futures'[k][s].state # "none" /\ futures'[k][s].begin = f.begin
                      \/ futures'[k][s] = Nothing
                         /\ out' = out \o FillBuf(f.begin, f.end)]_vars
  BY <1>1, <1>2 DEF Slots
<1> QED
  BY <1>2, Invariant, PTL DEF Spec, BuffersAreWritten

(* When vroom_write() returns, its arguments, the futures and the file are  *)
(* no longer used by any task.                                             *)
THEOREM TasksAlwaysEndFirst == Spec => []TasksEndFirst
<1>1. ASSUME IInv, Return PROVE TasksEndFirst'
  <2>1. ~Writing /\ UNCHANGED <<job, idx, futures, writing>> /\ t = 0
    BY <1>1 DEF Return, IInv, InLoop
  <2>2. \A s \in Slots : futures[idx][s] = Nothing
    BY <1>1, <2>1, Types DEF IInv, TakeTurns, Slots
  <2>3. \A s \in Slots : futures[1 - idx][s] = Nothing
    BY <1>1, <2>1 DEF IInv, TakeTurns
  <2>4. \A k \in {0, 1} : k = idx \/ k = 1 - idx
    BY <1>1, Types
  <2> QED
    BY <2>1, <2>2, <2>3, <2>4 DEF TasksEndFirst, Slots, Writing
<1>2. ASSUME IInv, TasksEndFirst, [Next]_vars PROVE TasksEndFirst'
  <2>1. CASE pc' # "done"
    BY <2>1 DEF TasksEndFirst
  <2>2. CASE Return
    BY <1>1, <1>2, <2>2
  <2>3. CASE pc = "done" /\ UNCHANGED <<job, futures, writing>>
    BY <1>2, <2>3 DEF TasksEndFirst, Writing
  <2>4. CASE FillSome
    <3>1. PICK j \in {0, 1}, r \in Slots : Fill(j, r)
      BY <2>4 DEF FillSome, Slots
    <3>2. futures[j][r].state = "filling" /\ pc' = pc
      BY <3>1 DEF Fill
    <3> QED
      BY <1>2, <2>1, <3>1, <3>2 DEF TasksEndFirst, Nothing, Slots
  <2>5. CASE Write
    BY <1>2, <2>1, <2>5 DEF Write, TasksEndFirst
  <2>6. pc' = "done" =>
          \/ pc = "done" /\ UNCHANGED <<job, futures, writing>>
          \/ Return \/ FillSome \/ Write
    BY <1>2 DEF Next, Main, Convert, Open, Loop, Launch, StartWriting, Written, Done, vars
  <2> QED
    BY <2>1, <2>2, <2>3, <2>4, <2>5, <2>6
<1>3. Init => TasksEndFirst
  BY DEF Init, TasksEndFirst
<1> QED
  BY <1>2, <1>3, Invariant, PTL DEF Spec

----------------------------------------------------------------------------
(* The rows are written in their order.                                    *)

(* What the output begins with, before the first row. *)
Begun == Kept \o Bom \o Header

(* The first row that no task of the vector being filled has been given,    *)
(* or their first one; and the first row that is not written yet.          *)
FirstFilled == IF t > 0 THEN futures[idx][1].begin ELSE begin

NextRow == IF Writing THEN futures[1 - idx][writing.next].begin ELSE FirstFilled

(* Each task goes on where the one before it ends: those of the vector that *)
(* is being filled, and those that are being written.                      *)
FilledInOrder ==
  \A s \in 1 .. t :
    /\ futures[idx][s].begin <= futures[idx][s].end
    /\ futures[idx][s].end = IF s = t THEN begin ELSE futures[idx][s + 1].begin

WrittenInOrder ==
  Writing =>
    \A s \in writing.next .. writing.count :
      /\ futures[1 - idx][s].begin <= futures[1 - idx][s].end
      /\ futures[1 - idx][s].end =
           IF s = writing.count THEN FirstFilled ELSE futures[1 - idx][s + 1].begin

(* The output goes as far as the first of them. *)
OutInOrder ==
  /\ pc \notin {"convert", "open"} => out = Begun \o FillBuf(0, NextRow)
  /\ pc \in {"convert", "open"} => ~Writing
  /\ pc \in {"last", "done"} => begin = job.rows
  /\ pc = "done" => ~Writing

InOrder == FilledInOrder /\ WrittenInOrder /\ OutInOrder

(* What an output may hold. *)
Anything == [part : {"old", "bom", "header", "row"}, number : Nat]

(* What comes before the rows is a sequence of such parts. *)
LEMMA BegunType == Begun \in Seq(Anything)
<1>1. \A name \in {"old", "bom", "header"} : Part(name) \in Anything
  BY DEF Part, Anything
<1>2. \A e \in Anything : <<e>> \in Seq(Anything)
  OBVIOUS
<1>3. <<>> \in Seq(Anything)
  OBVIOUS
<1> HIDE DEF Anything
<1>4. Kept \in Seq(Anything)
  BY <1>1, <1>2, <1>3 DEF Kept, Existing
<1>5. Bom \in Seq(Anything)
  BY <1>1, <1>2, <1>3 DEF Bom
<1>6. Header \in Seq(Anything)
  BY <1>1, <1>2, <1>3 DEF Header
<1>7. QED  BY <1>4, <1>5, <1>6, ConcatProperties DEF Begun

(* The elements of a concatenation: those of the first sequence...           *)
LEMMA ConcatFirst ==
  ASSUME NEW T, NEW a \in Seq(T), NEW b \in Seq(T), NEW n \in 1 .. Len(a)
  PROVE  (a \o b)[n] = a[n]
  OBVIOUS

(* ... and then those of the second.                                         *)
LEMMA ConcatSecond ==
  ASSUME NEW T, NEW a \in Seq(T), NEW b \in Seq(T),
         NEW n \in 1 .. (Len(a) + Len(b)), Len(a) < n
  PROVE  (a \o b)[n] = b[n - Len(a)]
  OBVIOUS

(* The rows up to one and those from it on. *)
LEMMA FillBufJoin ==
  ASSUME NEW middle \in Nat, NEW end \in Nat, middle <= end
  PROVE  /\ FillBuf(0, middle) \in Seq([part : {"row"}, number : 1 .. end])
         /\ Len(FillBuf(0, middle)) = middle
         /\ \A n \in 1 .. middle : FillBuf(0, middle)[n] = Row(n)
         /\ FillBuf(0, middle) \o FillBuf(middle, end) = FillBuf(0, end)
<1> DEFINE T == [part : {"row"}, number : 1 .. end]
           a == FillBuf(0, middle)
           b == FillBuf(middle, end)
           c == FillBuf(0, end)
<1>1. a \in Seq(T) /\ b \in Seq(T) /\ c \in Seq(T)
  BY FillBufType
<1>2. /\ a = [n \in 1 .. middle |-> Row(n)]
      /\ b = [n \in 1 .. (end - middle) |-> Row(middle + n)]
      /\ c = [n \in 1 .. end |-> Row(n)]
  BY DEF FillBuf
<1>3. Len(a) = middle /\ Len(b) = end - middle /\ Len(c) = end
  BY <1>1, <1>2
<1>4. \A n \in 1 .. middle : a[n] = Row(n)
  BY <1>2
<1>5. \A n \in 1 .. (end - middle) : b[n] = Row(middle + n)
  BY <1>2
<1>6. \A n \in 1 .. end : c[n] = Row(n)
  BY <1>2
<1> HIDE DEF T, a, b, c
<1>7. a \o b \in Seq(T) /\ Len(a \o b) = end
  BY <1>1, <1>3
<1>8. ASSUME NEW n \in 1 .. end PROVE (a \o b)[n] = c[n]
  <2>1. CASE n <= middle
    <3>1. (a \o b)[n] = a[n]
      BY <1>1, <1>3, <2>1, ConcatFirst
    <3>2. QED  BY <1>4, <1>6, <2>1, <3>1
  <2>2. CASE ~(n <= middle)
    <3>1. n - middle \in 1 .. (end - middle) /\ middle + (n - middle) = n
      BY <2>2
    <3>2. (a \o b)[n] = b[n - middle]
      BY <1>1, <1>3, <2>2, ConcatSecond
    <3>3. QED  BY <1>5, <1>6, <3>1, <3>2
  <2>3. QED  BY <2>1, <2>2
<1>9. a \o b = c
  BY <1>1, <1>3, <1>7, <1>8, SeqEqual
<1>10. QED
  BY <1>1, <1>3, <1>4, <1>9 DEF T, a, b, c

(* Where the indices of the invariant are. *)
LEMMA OrderTypes ==
  ASSUME IInv
  PROVE  /\ t \in Nat /\ begin \in Nat /\ idx \in {0, 1} /\ 1 - idx \in {0, 1}
         /\ job.rows \in Nat
         /\ \A s \in 1 .. t : s \in Slots /\ (s # t => s + 1 \in 1 .. t)
         /\ t > 0 => 1 \in Slots
         /\ Writing =>
              /\ writing.idx = 1 - idx
              /\ writing.next \in Nat /\ writing.count \in Nat
              /\ writing.next \in writing.next .. writing.count
              /\ writing.next \in Slots
              /\ \A s \in writing.next .. writing.count :
                   s \in Slots /\ (s # writing.count => s + 1 \in writing.next .. writing.count)
         /\ \A k \in {0, 1}, s \in Slots :
              futures[k][s].begin \in 0 .. job.rows /\ futures[k][s].end \in 0 .. job.rows
<1>1. /\ job.num_threads \in Nat /\ t \in 0 .. job.num_threads
      /\ begin \in Nat /\ idx \in {0, 1} /\ 1 - idx \in {0, 1} /\ job.rows \in Nat
  BY Types
<1>2. \A s \in 1 .. t : s \in Slots /\ (s # t => s + 1 \in 1 .. t)
  BY <1>1 DEF Slots
<1>3. ASSUME Writing
      PROVE  /\ writing.idx = 1 - idx
             /\ writing.next \in 1 .. writing.count
             /\ writing.count \in 0 .. job.num_threads
  BY <1>3, Types DEF IInv, TakeTurns
<1>4. Writing =>
        \A s \in writing.next .. writing.count :
          s \in Slots /\ (s # writing.count => s + 1 \in writing.next .. writing.count)
  BY <1>1, <1>3 DEF Slots
<1>5. ASSUME NEW k \in {0, 1}, NEW s \in Slots
      PROVE  futures[k][s].begin \in 0 .. job.rows /\ futures[k][s].end \in 0 .. job.rows
  <2>1. futures[k][s] \in Future
    BY Types DEF Slots
  <2>2. QED  BY <2>1 DEF Future
<1>6. t > 0 => 1 \in Slots
  BY <1>1 DEF Slots
<1>7. QED
  BY <1>1, <1>2, <1>3, <1>4, <1>5, <1>6 DEF Slots

(* The next row exists, or is the one after the last.                       *)
LEMMA NextRowType == ASSUME IInv PROVE NextRow \in 0 .. job.rows
<1>1. begin \in 0 .. job.rows
  BY Types
<1>2. QED  BY <1>1, OrderTypes DEF NextRow, FirstFilled

(* Steps that give no rows to tasks and write none. *)
LEMMA SameOrder ==
  ASSUME IInv, InOrder, UNCHANGED <<job, begin, t, idx, writing, out>>,
         \A k \in {0, 1}, s \in Slots :
           /\ futures'[k][s].begin = futures[k][s].begin
           /\ futures'[k][s].end = futures[k][s].end,
         pc' \in {"convert", "open"} <=> pc \in {"convert", "open"},
         pc' \in {"last", "done"} => begin = job.rows,
         pc' = "done" => ~Writing
  PROVE  InOrder'
<1>1. FirstFilled' = FirstFilled
  BY OrderTypes DEF FirstFilled
<1>2. Writing' = Writing
  BY DEF Writing
<1>3. NextRow' = NextRow
  BY <1>1, <1>2, OrderTypes DEF NextRow
<1>4. FilledInOrder'
  BY OrderTypes DEF InOrder, FilledInOrder
<1>5. WrittenInOrder'
  <2>1. SUFFICES ASSUME Writing, NEW s \in writing.next .. writing.count
                 PROVE  /\ futures'[1 - idx][s].begin <= futures'[1 - idx][s].end
                        /\ futures'[1 - idx][s].end =
                             IF s = writing.count THEN FirstFilled
                             ELSE futures'[1 - idx][s + 1].begin
    BY <1>1, <1>2 DEF WrittenInOrder
  <2>2. s \in Slots /\ (s # writing.count => s + 1 \in Slots)
    BY <2>1, OrderTypes
  <2>3. /\ futures[1 - idx][s].begin <= futures[1 - idx][s].end
        /\ futures[1 - idx][s].end =
             IF s = writing.count THEN FirstFilled ELSE futures[1 - idx][s + 1].begin
    BY <2>1 DEF InOrder, WrittenInOrder
  <2>4. QED  BY <2>2, <2>3, OrderTypes
<1>6. Begun' = Begun
  BY DEF Begun, Kept, Existing, Bom, Header
<1>7. OutInOrder'
  BY <1>2, <1>3, <1>6 DEF InOrder, OutInOrder, FillBuf, Row
<1>8. QED  BY <1>4, <1>5, <1>7 DEF InOrder

(* A connection gets no byte order mark, whatever is asked for.             *)
LEMMA OpenInOrder ==
  ASSUME \A j \in Jobs : j.target = "connection" => j.append \/ ~j.bom,
         IInv, InOrder, Open
  PROVE  InOrder' /\ out' = Begun
<1>1. /\ out' = Kept \o (IF job.target = "connection" THEN <<>> ELSE Bom) \o Header
      /\ pc = "open" /\ pc' = Loop(0)
      /\ UNCHANGED <<job, begin, t, idx, futures, writing>>
  BY DEF Open
<1>2. t = 0 /\ begin = 0 /\ ~Writing
  BY <1>1 DEF IInv, InLoop, InOrder, OutInOrder
<1>3. out' = Begun
  <2>1. job.target = "connection" => Bom = <<>>
    BY DEF IInv, TypeOK, Bom
  <2>2. QED  BY <1>1, <2>1 DEF Begun
<1>4. FillBuf(0, 0) = <<>>
  <2>1. FillBuf(0, 0) \in Seq([part : {"row"}, number : 1 .. 0]) /\ Len(FillBuf(0, 0)) = 0
    BY FillBufJoin
  <2>2. QED  BY <2>1, EmptySeq
<1>6. Begun \o FillBuf(0, 0) = Begun
  BY <1>4, BegunType, ConcatEmptySeq
<1>7. NextRow' = 0 /\ Begun' = Begun /\ ~Writing'
  BY <1>1, <1>2 DEF NextRow, FirstFilled, Writing, Begun, Kept, Existing, Bom, Header
<1>8. pc' \in {"fill", "last"} /\ (pc' = "last" => begin' = job'.rows)
  BY <1>1, <1>2, Types DEF Loop
<1>9. OutInOrder'
  BY <1>3, <1>6, <1>7, <1>8 DEF OutInOrder, FillBuf, Row
<1>10. FilledInOrder' /\ WrittenInOrder'
  BY <1>1, <1>2, <1>7 DEF FilledInOrder, WrittenInOrder
<1>11. QED  BY <1>3, <1>9, <1>10 DEF InOrder

(* The next task goes on where the last one ends. *)
LEMMA LaunchInOrder == ASSUME IInv, InOrder, Launch PROVE InOrder'
<1> DEFINE more == begin + job.buf_lines
           end  == IF more < job.rows THEN more ELSE job.rows
<1>1. /\ pc = "fill" /\ t' = t + 1 /\ begin' = end
      /\ futures' = [futures EXCEPT ![idx][t + 1] = Filling(begin, end)]
      /\ UNCHANGED <<job, idx, writing, out>>
      /\ pc' \in {"fill", "write"}
  BY DEF Launch
<1>2. t < job.num_threads /\ begin < job.rows /\ t + 1 \in Slots
  BY <1>1, Types DEF IInv, InLoop, Slots
<1>3. futures'[idx][t + 1].begin = begin /\ futures'[idx][t + 1].end = end
  BY <1>1, <1>2, Types DEF Slots, Filling
<1>4. begin \in Nat /\ end \in Nat /\ begin <= end
  BY <1>2, Types
<1>5. \A k \in {0, 1}, s \in Slots : ~(k = idx /\ s = t + 1) => futures'[k][s] = futures[k][s]
  BY LaunchStep
<1> HIDE DEF end
<1>6. FirstFilled' = FirstFilled
  <2>1. CASE t = 0
    BY <1>1, <1>3, <2>1 DEF FirstFilled
  <2>2. CASE t > 0
    <3>1. futures'[idx][1] = futures[idx][1]
      BY <1>5, <2>2, OrderTypes
    <3>2. QED  BY <1>1, <2>2, <3>1, OrderTypes DEF FirstFilled
  <2>3. QED  BY <2>1, <2>2, OrderTypes
<1>7. \A s \in Slots : futures'[1 - idx][s] = futures[1 - idx][s]
  BY <1>5, Types
<1>8. Writing' = Writing /\ NextRow' = NextRow
  BY <1>1, <1>6, <1>7, OrderTypes DEF Writing, NextRow
<1>9. FilledInOrder'
  <2>1. SUFFICES ASSUME NEW s \in 1 .. (t + 1)
                 PROVE  /\ futures'[idx][s].begin <= futures'[idx][s].end
                        /\ futures'[idx][s].end =
                             IF s = t + 1 THEN end ELSE futures'[idx][s + 1].begin
    BY <1>1 DEF FilledInOrder
  <2>2. CASE s = t + 1
    BY <1>3, <1>4, <2>2
  <2>3. CASE s # t + 1
    <3>1. s \in 1 .. t /\ s \in Slots /\ (s # t => s + 1 \in Slots /\ s + 1 # t + 1)
      BY <2>1, <2>3, OrderTypes
    <3>2. /\ futures[idx][s].begin <= futures[idx][s].end
          /\ futures[idx][s].end = IF s = t THEN begin ELSE futures[idx][s + 1].begin
      BY <3>1 DEF InOrder, FilledInOrder
    <3>3. futures'[idx][s] = futures[idx][s]
      BY <1>5, <2>3, <3>1, OrderTypes
    <3>4. s # t => futures'[idx][s + 1] = futures[idx][s + 1]
      BY <1>5, <3>1, OrderTypes
    <3>5. QED  BY <1>3, <2>3, <3>2, <3>3, <3>4
  <2>4. QED  BY <2>2, <2>3
<1>10. WrittenInOrder'
  <2>1. SUFFICES ASSUME Writing, NEW s \in writing.next .. writing.count
                 PROVE  /\ futures'[1 - idx][s].begin <= futures'[1 - idx][s].end
                        /\ futures'[1 - idx][s].end =
                             IF s = writing.count THEN FirstFilled
                             ELSE futures'[1 - idx][s + 1].begin
    BY <1>1, <1>6, <1>8 DEF WrittenInOrder
  <2>2. s \in Slots /\ (s # writing.count => s + 1 \in Slots)
    BY <2>1, OrderTypes
  <2>3. QED  BY <1>7, <2>1, <2>2 DEF InOrder, WrittenInOrder
<1>11. OutInOrder'
  <2>1. Begun' = Begun
    BY <1>1 DEF Begun, Kept, Existing, Bom, Header
  <2>2. QED  BY <1>1, <1>8, <2>1 DEF InOrder, OutInOrder, FillBuf, Row
<1>12. QED  BY <1>9, <1>10, <1>11 DEF InOrder

(* The vector that was filled is the one that is written. *)
LEMMA StartWritingInOrder == ASSUME IInv, InOrder, StartWriting PROVE InOrder'
<1>1. /\ pc = "write" /\ ~Writing
      /\ writing' = [state |-> "running", idx |-> idx, next |-> 1, count |-> t]
      /\ idx' = 1 - idx /\ t' = 0
      /\ UNCHANGED <<job, begin, futures, out>>
      /\ pc' \in {"writing", "fill", "last"} /\ (pc' = "last" => ~(begin < job.rows))
  BY DEF StartWriting, Loop
<1>2. t > 0 /\ 1 - idx' = idx
  BY <1>1, OrderTypes DEF IInv, InLoop
<1>3. Writing' /\ writing'.next = 1 /\ writing'.count = t
  BY <1>1 DEF Writing
<1>4. FirstFilled' = begin /\ NextRow = futures[idx][1].begin
  BY <1>1, <1>2 DEF FirstFilled, NextRow
<1>5. NextRow' = NextRow
  BY <1>1, <1>2, <1>3, <1>4 DEF NextRow
<1>6. WrittenInOrder'
  <2>1. \A s \in 1 .. t :
          /\ futures[idx][s].begin <= futures[idx][s].end
          /\ futures[idx][s].end = IF s = t THEN begin ELSE futures[idx][s + 1].begin
    BY DEF InOrder, FilledInOrder
  <2>2. QED  BY <1>1, <1>2, <1>3, <1>4, <2>1 DEF WrittenInOrder
<1>7. FilledInOrder'
  BY <1>1 DEF FilledInOrder
<1>8. OutInOrder'
  <2>1. Begun' = Begun
    BY <1>1 DEF Begun, Kept, Existing, Bom, Header
  <2>2. pc' = "last" => begin = job.rows
    BY <1>1, Types
  <2>3. QED  BY <1>1, <1>5, <2>1, <2>2 DEF InOrder, OutInOrder, FillBuf, Row
<1>9. QED  BY <1>6, <1>7, <1>8 DEF InOrder

(* The buffer that is written starts with the next row. *)
LEMMA WriteInOrder ==
  ASSUME IInv, InOrder, Write
  PROVE  /\ InOrder'
         /\ out = Begun \o FillBuf(0, NextRow) /\ out' = Begun \o FillBuf(0, NextRow')
         /\ NextRow \in Nat /\ NextRow' \in Nat /\ NextRow <= NextRow'
<1> DEFINE n == writing.next
           f == futures[1 - idx][n]
<1>1. /\ Writing
      /\ writing' = [writing EXCEPT
                       !.next = @ + 1,
                       !.state = IF n = writing.count THEN "done" ELSE "running"]
      /\ UNCHANGED <<job, pc, begin, t, idx>>
  BY DEF Write
<1>2. /\ writing.idx = 1 - idx /\ n \in Slots /\ n \in Nat /\ writing.count \in Nat
      /\ n \in n .. writing.count
  BY <1>1, OrderTypes
<1>3. out' = out \o FillBuf(f.begin, f.end)
  BY <1>2, WriteStep
<1>4. \A k \in {0, 1}, s \in Slots :
        ~(k = 1 - idx /\ s = n) => futures'[k][s] = futures[k][s]
  BY <1>2, WriteStep
<1>5. /\ f.begin <= f.end
      /\ f.end = IF n = writing.count THEN FirstFilled ELSE futures[1 - idx][n + 1].begin
  BY <1>1, <1>2 DEF InOrder, WrittenInOrder
<1>6. f.begin \in Nat /\ f.end \in 0 .. job.rows /\ job.rows \in Nat
  BY <1>2, OrderTypes
<1> HIDE DEF f
<1>7. /\ writing'.next = n + 1 /\ writing'.count = writing.count /\ writing'.idx = writing.idx
      /\ writing'.state = IF n = writing.count THEN "done" ELSE "running"
  BY <1>1, Types
<1>8. Writing' <=> n # writing.count
  BY <1>7 DEF Writing
<1>9. \A s \in Slots : futures'[idx][s] = futures[idx][s]
  BY <1>4, Types
<1>10. FirstFilled' = FirstFilled
  BY <1>1, <1>9, OrderTypes DEF FirstFilled
<1>11. NextRow = f.begin /\ NextRow' = f.end
  <2>1. NextRow = f.begin
    BY <1>1 DEF NextRow, f
  <2>2. CASE n = writing.count
    BY <1>5, <1>8, <1>10, <2>1, <2>2 DEF NextRow
  <2>3. CASE n # writing.count
    <3>1. n + 1 \in Slots /\ n + 1 # n
      BY <1>1, <1>2, <2>3, OrderTypes
    <3>2. futures'[1 - idx][n + 1] = futures[1 - idx][n + 1]
      BY <1>4, <3>1, OrderTypes
    <3>3. QED  BY <1>1, <1>5, <1>7, <1>8, <2>1, <2>3, <3>2 DEF NextRow
  <2>4. QED  BY <2>1, <2>2, <2>3
<1>12. FilledInOrder'
  BY <1>1, <1>9, OrderTypes DEF InOrder, FilledInOrder
<1>13. WrittenInOrder'
  <2>1. SUFFICES ASSUME n # writing.count, NEW s \in (n + 1) .. writing.count
                 PROVE  /\ futures'[1 - idx][s].begin <= futures'[1 - idx][s].end
                        /\ futures'[1 - idx][s].end =
                             IF s = writing.count THEN FirstFilled
                             ELSE futures'[1 - idx][s + 1].begin
    BY <1>1, <1>7, <1>8, <1>10 DEF WrittenInOrder
  <2>2. s \in n .. writing.count /\ s # n /\ s + 1 # n
    BY <1>2, <2>1
  <2>3. s \in Slots /\ (s # writing.count => s + 1 \in Slots)
    BY <1>1, <2>2, OrderTypes
  <2>4. /\ futures[1 - idx][s].begin <= futures[1 - idx][s].end
        /\ futures[1 - idx][s].end =
             IF s = writing.count THEN FirstFilled ELSE futures[1 - idx][s + 1].begin
    BY <1>1, <2>2 DEF InOrder, WrittenInOrder
  <2>5. /\ futures'[1 - idx][s] = futures[1 - idx][s]
        /\ s # writing.count => futures'[1 - idx][s + 1] = futures[1 - idx][s + 1]
    BY <1>4, <2>2, <2>3, OrderTypes
  <2>6. QED  BY <2>4, <2>5
<1>14. /\ OutInOrder'
       /\ out = Begun \o FillBuf(0, f.begin) /\ out' = Begun \o FillBuf(0, f.end)
  <2>1. pc \notin {"convert", "open", "done"}
    BY <1>1 DEF InOrder, OutInOrder
  <2>2. out = Begun \o FillBuf(0, f.begin)
    BY <1>11, <2>1 DEF InOrder, OutInOrder
  <2>3. out' = Begun \o FillBuf(0, f.end)
    <3> DEFINE a == FillBuf(0, f.begin)
               b == FillBuf(f.begin, f.end)
    <3>1. f.end \in Nat /\ f.begin \in 0 .. job.rows /\ 0 \in 0 .. job.rows
      BY <1>5, <1>6
    <3>2. a \o b = FillBuf(0, f.end)
      BY <1>5, <1>6, <3>1, FillBufJoin
    <3>3. a \in Seq(Anything) /\ b \in Seq(Anything)
      <4>1. [part : {"row"}, number : 1 .. job.rows] \subseteq Anything
        BY <1>6 DEF Anything
      <4>2. /\ a \in Seq([part : {"row"}, number : 1 .. job.rows])
            /\ b \in Seq([part : {"row"}, number : 1 .. job.rows])
        BY <1>6, <3>1, FillBufType
      <4> HIDE DEF a, b
      <4>3. QED  BY <4>1, <4>2, SeqMonotonic
    <3> HIDE DEF a, b
    <3>4. (Begun \o a) \o b = Begun \o (a \o b)
      <4>1. ASSUME NEW u \in Seq(Anything), NEW v \in Seq(Anything), NEW w \in Seq(Anything)
            PROVE  (u \o v) \o w = u \o (v \o w)
        BY ConcatAssociative
      <4>2. QED  BY <3>3, <4>1, BegunType
    <3>5. QED  BY <1>3, <2>2, <3>2, <3>4 DEF a, b
  <2>4. Begun' = Begun
    BY <1>1 DEF Begun, Kept, Existing, Bom, Header
  <2>5. pc' \in {"last", "done"} => begin' = job'.rows
    BY <1>1 DEF InOrder, OutInOrder
  <2>6. QED
    BY <1>1, <1>11, <2>1, <2>2, <2>3, <2>4, <2>5 DEF OutInOrder, FillBuf, Row
<1>15. /\ out = Begun \o FillBuf(0, NextRow) /\ out' = Begun \o FillBuf(0, NextRow')
       /\ NextRow \in Nat /\ NextRow' \in Nat /\ NextRow <= NextRow'
  BY <1>5, <1>6, <1>11, <1>14
<1>16. QED  BY <1>12, <1>13, <1>14, <1>15 DEF InOrder

(* No task has been given rows at first. *)
LEMMA InitInOrder == Init => InOrder
<1> SUFFICES ASSUME Init PROVE InOrder
  OBVIOUS
<1>1. pc = "convert" /\ t = 0 /\ ~Writing
  BY DEF Init, Writing
<1>2. QED
  BY <1>1 DEF InOrder, FilledInOrder, WrittenInOrder, OutInOrder

(* Every step keeps the order: a task that ends fills only its own buffer.  *)
LEMMA NextInOrder ==
  ASSUME \A j \in Jobs : j.target = "connection" => j.append \/ ~j.bom,
         IInv, InOrder, [Next]_vars
  PROVE  InOrder'
<1>1. CASE Convert \/ Written \/ Return \/ Done \/ UNCHANGED vars
  <2>1. UNCHANGED <<job, begin, t, idx, futures, writing, out>>
    BY <1>1 DEF Convert, Written, Return, Done, vars
  <2>2. /\ pc' \in {"convert", "open"} <=> pc \in {"convert", "open"}
        /\ pc' \in {"last", "done"} => begin = job.rows
        /\ pc' = "done" => ~Writing
    BY <1>1, Types
    DEF Convert, Written, Loop, Return, Done, vars, InOrder, OutInOrder, IInv, TypeOK
  <2>3. QED  BY <2>1, <2>2, SameOrder
<1>2. CASE FillSome
  <2>1. PICK j \in {0, 1}, r \in Slots : Fill(j, r)
    BY <1>2 DEF FillSome, Slots
  <2> DEFINE g == [futures[j][r] EXCEPT !.state = "ready",
                      !.buf = FillBuf(futures[j][r].begin, futures[j][r].end)]
  <2>2. /\ UNCHANGED <<job, pc, begin, t, idx, writing, out>>
        /\ futures' = [futures EXCEPT ![j][r] = g]
    BY <2>1 DEF Fill
  <2>3. futures[j][r] \in Future
    BY Types DEF Slots
  <2>4. g.begin = futures[j][r].begin /\ g.end = futures[j][r].end
    BY <2>3 DEF Future
  <2> HIDE DEF g
  <2>5. ASSUME NEW k \in {0, 1}, NEW s \in Slots
        PROVE  /\ futures'[k][s].begin = futures[k][s].begin
               /\ futures'[k][s].end = futures[k][s].end
    <3>1. CASE k = j /\ s = r
      BY <2>2, <2>4, <3>1, Types DEF Slots
    <3>2. CASE ~(k = j /\ s = r)
      BY <2>2, <3>2, Types DEF Slots
    <3>3. QED  BY <3>1, <3>2
  <2>6. QED  BY <2>2, <2>5, SameOrder DEF InOrder, OutInOrder
<1>3. QED
  BY <1>1, <1>2, OpenInOrder, LaunchInOrder, StartWritingInOrder, WriteInOrder
  DEF Next, Main

(* Once the output is open it is always a beginning of the document, and    *)
(* when the call returns it is the whole of it.                            *)
OutputIsDocument ==
  /\ pc \notin {"convert", "open"} =>
       \E n \in 0 .. job.rows : out = Begun \o FillBuf(0, n)
  /\ pc = "done" => out = Document

(* Whatever order the tasks end in, rows are neither lost nor repeated nor  *)
(* reordered.  A connection must not be asked for a byte order mark, which  *)
(* it does not get.                                                         *)
THEOREM OutputAlwaysDocument ==
  ASSUME \A j \in Jobs : j.target = "connection" => j.append \/ ~j.bom
  PROVE  Spec => []OutputIsDocument
<1>1. Init => InOrder
  BY InitInOrder
<1>2. IInv /\ InOrder /\ [Next]_vars => InOrder'
  BY NextInOrder
<1>3. IInv /\ InOrder => OutputIsDocument
  <2> SUFFICES ASSUME IInv, InOrder PROVE OutputIsDocument
    OBVIOUS
  <2>1. pc \notin {"convert", "open"} => out = Begun \o FillBuf(0, NextRow)
    BY DEF InOrder, OutInOrder
  <2>2. NextRow \in 0 .. job.rows
    BY NextRowType
  <2>3. ASSUME pc = "done" PROVE NextRow = job.rows
    <3>1. ~Writing /\ begin = job.rows /\ t = 0
      BY <2>3 DEF InOrder, OutInOrder, IInv, InLoop
    <3>2. QED  BY <3>1 DEF NextRow, FirstFilled
  <2>4. QED
    BY <2>1, <2>2, <2>3 DEF OutputIsDocument, Document, Begun
<1>4. QED  BY <1>1, <1>2, <1>3, Invariant, PTL DEF Spec

----------------------------------------------------------------------------
(* The steps are those of Saving.                                          *)

(* A sequence is a beginning of what it is continued to. *)
LEMMA ContinuedPrefix ==
  ASSUME NEW u \in Seq(Anything), NEW v \in Seq(Anything)
  PROVE  IsPrefix(u, u \o v)
<1> HIDE DEF Anything
<1>1. u \o v \in Seq(Anything) /\ Len(u \o v) = Len(u) + Len(v)
  OBVIOUS
<1>2. Len(u) \in Nat /\ Len(v) \in Nat
  OBVIOUS
<1>3. \A k \in 1 .. Len(u) : (u \o v)[k] = u[k]
  OBVIOUS
<1>4. SubSeq(u, 1, Len(u)) = SubSeq(u \o v, 1, Len(u))
  BY <1>1, <1>2, <1>3
<1>5. QED  BY <1>1, <1>2, <1>4 DEF IsPrefix

(* More rows continue fewer. *)
LEMMA MoreRows ==
  ASSUME NEW n \in Nat, NEW m \in Nat, n <= m
  PROVE  IsPrefix(Begun \o FillBuf(0, n), Begun \o FillBuf(0, m))
<1> DEFINE a == FillBuf(0, n)
           b == FillBuf(n, m)
<1>1. a \o b = FillBuf(0, m)
  BY FillBufJoin
<1>2. a \in Seq(Anything) /\ b \in Seq(Anything)
  <2>1. [part : {"row"}, number : 1 .. m] \subseteq Anything
    BY DEF Anything
  <2>2. /\ a \in Seq([part : {"row"}, number : 1 .. m])
        /\ b \in Seq([part : {"row"}, number : 1 .. m])
    BY FillBufType
  <2> HIDE DEF a, b
  <2>3. QED  BY <2>1, <2>2, SeqMonotonic
<1> HIDE DEF a, b
<1>3. Begun \o a \in Seq(Anything)
  BY <1>2, BegunType, ConcatProperties
<1>4. (Begun \o a) \o b = Begun \o (a \o b)
  <2>1. ASSUME NEW u \in Seq(Anything), NEW v \in Seq(Anything), NEW w \in Seq(Anything)
        PROVE  (u \o v) \o w = u \o (v \o w)
    BY ConcatAssociative
  <2>2. QED  BY <1>2, <2>1, BegunType
<1>5. IsPrefix(Begun \o a, (Begun \o a) \o b)
  BY <1>2, <1>3, ContinuedPrefix
<1>6. QED  BY <1>1, <1>4, <1>5 DEF a

(* What Saving sees as having been written. *)
Saved == IF pc \in {"convert", "open"} THEN <<>> ELSE out

(* The output never goes back, and goes on only while the call runs.        *)
LEMMA SavedAscends ==
  ASSUME \A j \in Jobs : j.target = "connection" => j.append \/ ~j.bom,
         IInv, InOrder, [Next]_vars
  PROVE  \/ Saved' = Saved
         \/ /\ IsPrefix(Saved, Saved')
            /\ pc # "done" /\ pc' \notin {"convert", "open"}
<1>1. CASE Open
  <2>1. Saved = <<>> /\ Saved' \in {<<>>, Begun}
    BY <1>1, OpenInOrder DEF Open, Saved
  <2>2. <<>> \o Begun = Begun
    BY BegunType, ConcatEmptySeq
  <2>3. <<>> \in Seq(Anything)
    OBVIOUS
  <2>4. IsPrefix(<<>>, Begun)
    BY <2>2, <2>3, BegunType, ContinuedPrefix
  <2>5. pc # "done" /\ pc' \notin {"convert", "open"}
    BY <1>1 DEF Open, Loop
  <2>6. QED  BY <2>1, <2>4, <2>5
<1>2. CASE Write
  <2>1. Saved = out /\ Saved' = out'
    BY <1>2 DEF Write, Saved, InOrder, OutInOrder
  <2>2. IsPrefix(out, out')
    BY <1>2, WriteInOrder, MoreRows
  <2>3. pc # "done" /\ pc' \notin {"convert", "open"}
    BY <1>2 DEF Write, InOrder, OutInOrder
  <2>4. QED  BY <2>1, <2>2, <2>3
<1>3. CASE ~Open /\ ~Write
  <2>1. out' = out
    BY <1>3 DEF Next, Main, Convert, Launch, StartWriting, Written, Return, FillSome, Fill,
       Done, vars
  <2>2. pc' \in {"convert", "open"} <=> pc \in {"convert", "open"}
    BY <1>3 DEF Next, Main, Convert, Launch, StartWriting, Written, Loop, Return, FillSome, Fill,
       Done, vars
  <2>3. QED  BY <2>1, <2>2 DEF Saved
<1>4. QED  BY <1>1, <1>2, <1>3

(* The safety part of SavesTheDocument: at first nothing is saved, and      *)
(* every step of the main thread and of the tasks either appends to what    *)
(* is saved, staying a beginning of the document, or returns when all of it *)
(* is saved, or is none of Saving's.                                       *)
THEOREM StepsOfSaving ==
  ASSUME \A j \in Jobs : j.target = "connection" => j.append \/ ~j.bom
  PROVE  Spec => /\ Output!Init
                 /\ [][Output!Write \/ Output!Return]_<<Document, Saved, pc = "done">>
<1>1. Init => Output!Init
  BY DEF Init, Output!Init
<1>2. IInv /\ InOrder /\ OutputIsDocument /\ OutputIsDocument' /\ [Next]_vars =>
        [Output!Write \/ Output!Return]_<<Document, Saved, pc = "done">>
  <2> SUFFICES ASSUME IInv, InOrder, OutputIsDocument, OutputIsDocument', [Next]_vars,
                      <<Document, Saved, pc = "done">>' # <<Document, Saved, pc = "done">>
               PROVE  Output!Write \/ Output!Return
    OBVIOUS
  <2>1. job' = job
    BY DEF Next, Main, Convert, Open, Launch, StartWriting, Written, Return, FillSome, Fill,
       Write, Done, vars
  <2>2. Document' = Document
    BY <2>1 DEF Document, Kept, Existing, Bom, Header, FillBuf, Row
  <2>3. CASE Return
    <3>1. pc = "last" /\ pc' = "done" /\ out' = out
      BY <2>3 DEF Return
    <3>2. out = Document
      BY <2>2, <3>1 DEF OutputIsDocument
    <3>3. QED  BY <2>2, <3>1, <3>2 DEF Output!Return
  <2>4. CASE ~Return
    <3>1. (pc' = "done") = (pc = "done")
      BY <2>4 DEF Next, Main, Convert, Open, Launch, StartWriting, Written, Loop, FillSome, Fill,
         Write, Done, vars
    <3>2. Saved' # Saved
      BY <2>2, <3>1
    <3>3. /\ IsPrefix(Saved, Saved')
          /\ pc # "done" /\ pc' \notin {"convert", "open"}
      BY <3>2, SavedAscends
    <3>4. IsPrefix(Saved', Document')
      <4>1. PICK n \in 0 .. job.rows : out' = Begun' \o (FillBuf(0, n)')
        BY <2>1, <3>3 DEF OutputIsDocument
      <4>2. Begun' = Begun /\ FillBuf(0, n)' = FillBuf(0, n)
        BY <2>1 DEF Begun, Kept, Existing, Bom, Header, FillBuf, Row
      <4>3. n \in Nat /\ job.rows \in Nat /\ n <= job.rows
        BY Types
      <4>4. Document = Begun \o FillBuf(0, job.rows)
        BY DEF Document, Begun
      <4>5. Saved' = Begun \o FillBuf(0, n)
        BY <3>3, <4>1, <4>2 DEF Saved
      <4>6. QED  BY <2>2, <4>3, <4>4, <4>5, MoreRows
    <3>5. QED
      BY <2>2, <3>1, <3>2, <3>3, <3>4
      DEF Output!Write, Output!IsStrictPrefix, Output!IsPrefix, IsPrefix, Saved
  <2>5. QED  BY <2>3, <2>4
<1>3. QED
  BY <1>1, <1>2, InitInOrder, NextInOrder, Invariant, OutputAlwaysDocument, PTL DEF Spec
=============================================================================
