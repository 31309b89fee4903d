-------------------------- MODULE AsyncWriterProofs --------------------------
(***************************************************************************)
(* Proofs about AsyncWriter, and about the reader of its files              *)
(* (SessionRecovery), for every capacity, flush interval, number of results, *)
(* layout of the file and choice of failures.                              *)
(***************************************************************************)
EXTENDS SessionRecovery, SequenceTheorems, WellFoundedInduction, TLAPS

(* The worker is writing: neither waiting to be joined nor failed.         *)
Live == worker \in {"wait", "append", "csv", "flush", "count"}

(* Nothing accepted has been given up so far.                              *)
Healthy == open /\ ~faulted /\ worker # "fault"

(* Which program counters and flags go together.                           *)
Lifecycle ==
    /\ worker # "none" =>
           /\ open /\ streamOpen /\ csvOpen /\ manifest = "recording"
           /\ caller \in {"idle", "join"}
           /\ status = "none" \/ caller = "join"
    /\ Live => ~faulted /\ ~badStream
    /\ Live /\ worker # "flush" => sinceFlush < FlushEvery
    /\ accepting => caller = "idle" /\ ~stopRequested /\ worker # "none"
    /\ accepting => worker # "done"
    /\ worker = "done" => faulted \/ queue = <<>>
    /\ open /\ worker = "none" => faulted \/ queue = <<>>
    /\ caller # "idle" => open /\ status # "none"
    /\ caller \in {"manifest", "rename"} => csvOpen
    /\ caller = "finish" => ~csvOpen
    /\ caller = "rename" => manifest = "none"
    /\ caller \in {"csv", "manifest", "rename", "finish"} => ~streamOpen
    /\ streamOpen => open /\ manifest = "recording"
    /\ csvOpen => open /\ manifest \in {"recording", "none"}
    /\ open /\ status = "none" => streamOpen
    /\ caller \in {"join", "flush"} /\ status = "complete" => streamOpen
    /\ faulted /\ caller \in {"flush", "csv", "manifest", "rename", "finish"}
           => closeError
    /\ open /\ caller = "idle" /\ worker = "none" => status # "none"

Base == TypeOK /\ Lifecycle

(* What has left the queue.                                                *)
Taken == Len(records) + B2N(worker = "append")

(* Where the results are: each in its place.                               *)
Contents ==
    /\ \A i \in 1 .. Len(records) : records[i] = i
    /\ Len(records) <= enqueued
    /\ Live => Taken <= enqueued
    /\ worker = "append" => result = Len(records) + 1
    /\ Healthy => enqueued = Taken + Len(queue)
    /\ Healthy => \A i \in 1 .. Len(queue) : queue[i] = Taken + i
    /\ Healthy /\ CsvEnabled => rows = Len(records) - B2N(worker = "csv")

(* How far the disk lags behind.                                           *)
Lag ==
    /\ written < durable + FlushEvery
    /\ Live => /\ Len(records)
                      = written + B2N(worker \in {"csv", "flush", "count"})
               /\ Len(records)
                      <= durable + sinceFlush + B2N(worker = "csv")

(* What a close that has seen no error has achieved.                       *)
Closing ==
    /\ torn /\ streamOpen => badStream
    /\ badStream /\ streamOpen => worker = "fault" \/ faulted
    /\ manifest = "complete" =>
           /\ durable = enqueued /\ ~torn /\ ~streamOpen /\ ~csvOpen
           /\ worker = "none"
           /\ CsvEnabled => rows = enqueued
    /\ caller \in {"csv", "manifest", "rename"} /\ ~closeError
       /\ status = "complete" =>
           /\ durable = enqueued /\ ~torn
           /\ CsvEnabled => rows = enqueued

(* Nothing has been opened yet.                                            *)
LEMMA InitBase == Init => Base
  <1> SUFFICES ASSUME Init PROVE Base
    OBVIOUS
  <1>1. <<>> \in Seq(Nat) /\ Len(<<>>) = 0
    OBVIOUS
  <1>2. TypeOK
    <2>1. /\ queue \in Seq(Nat) /\ Len(queue) = 0
          /\ records \in Seq(Nat) /\ Len(records) = 0
      BY <1>1 DEF Init
    <2>n. /\ durable = 0
          /\ enqueued \in Nat /\ overruns \in Nat /\ written \in Nat
          /\ result \in Nat /\ sinceFlush \in 0 .. FlushEvery /\ rows \in Nat
      BY ConfigAssumption DEF Init
    <2>2. /\ torn \in BOOLEAN /\ open \in BOOLEAN /\ accepting \in BOOLEAN
          /\ stopRequested \in BOOLEAN /\ faulted \in BOOLEAN
          /\ badStream \in BOOLEAN /\ streamOpen \in BOOLEAN
          /\ badCsv \in BOOLEAN /\ csvOpen \in BOOLEAN
          /\ closeError \in BOOLEAN
      BY ConfigAssumption DEF Init
    <2>s. /\ worker \in WorkerPC /\ caller \in CallerPC
          /\ manifest \in FinalStatus \cup {"none", "recording"}
          /\ status \in FinalStatus \cup {"none"}
      BY DEF Init, WorkerPC, CallerPC
    <2>3. QED
      BY <2>1, <2>2, <2>n, <2>s, ConfigAssumption DEF TypeOK
  <1>3. Lifecycle
    BY DEF Init, Lifecycle, Live
  <1>4. QED
    BY <1>2, <1>3 DEF Base

(* The queue, the file and their lengths stay what they are said to be.    *)
LEMMA NextKeepsTypes == Base /\ [Next]_vars => TypeOK'
  <1> SUFFICES ASSUME Base, [Next]_vars PROVE TypeOK'
    OBVIOUS
  <1> USE ConfigAssumption DEF control, counters, binary, csv, close
  <1>a. <<>> \in Seq(Nat) /\ Len(<<>>) = 0
    OBVIOUS
  <1>b. /\ records \in Seq(Nat) /\ Len(records) \in Nat
        /\ durable \in Nat /\ durable <= Len(records)
    BY DEF Base, TypeOK
  <1>1. CASE Open
    <2>1. /\ queue' = <<>> /\ records' = <<>>
          /\ enqueued' = 0 /\ overruns' = 0 /\ written' = 0
          /\ result' = 0 /\ sinceFlush' = 0 /\ durable' = 0 /\ rows' = 0
      BY <1>1 DEF NewSession, Open
    <2>2. /\ queue' \in Seq(Nat) /\ Len(queue') = 0
          /\ records' \in Seq(Nat) /\ Len(records') = 0
      BY <1>a, <2>1
    <2>3. /\ enqueued' = 0 /\ overruns' = 0 /\ written' = 0
          /\ result' = 0 /\ sinceFlush' = 0 /\ durable' = 0 /\ rows' = 0
      BY <2>1
    <2>4. /\ open' \in BOOLEAN /\ accepting' \in BOOLEAN
          /\ stopRequested' \in BOOLEAN /\ faulted' \in BOOLEAN
          /\ worker' \in WorkerPC /\ torn' \in BOOLEAN
          /\ badStream' \in BOOLEAN /\ streamOpen' \in BOOLEAN
          /\ badCsv' \in BOOLEAN /\ csvOpen' \in BOOLEAN
          /\ manifest' \in FinalStatus \cup {"none", "recording"}
          /\ caller' \in CallerPC /\ status' \in FinalStatus \cup {"none"}
          /\ closeError' \in BOOLEAN
      BY <1>1 DEF NewSession, Open, Base, TypeOK, WorkerPC, CallerPC, FinalStatus
    <2>5. QED
      BY <2>2, <2>3, <2>4 DEF TypeOK
  <1>2. CASE OpenFails
    <2>1. /\ queue' = <<>> /\ records' = <<>>
          /\ enqueued' = 0 /\ overruns' = 0 /\ written' = 0
          /\ result' = 0 /\ sinceFlush' = 0 /\ durable' = 0 /\ rows' = 0
      BY <1>2 DEF NewSession, OpenFails
    <2>2. /\ queue' \in Seq(Nat) /\ Len(queue') = 0
          /\ records' \in Seq(Nat) /\ Len(records') = 0
      BY <1>a, <2>1
    <2>3. /\ enqueued' = 0 /\ overruns' = 0 /\ written' = 0
          /\ result' = 0 /\ sinceFlush' = 0 /\ durable' = 0 /\ rows' = 0
      BY <2>1
    <2>4. /\ open' \in BOOLEAN /\ accepting' \in BOOLEAN
          /\ stopRequested' \in BOOLEAN /\ faulted' \in BOOLEAN
          /\ worker' \in WorkerPC /\ torn' \in BOOLEAN
          /\ badStream' \in BOOLEAN /\ streamOpen' \in BOOLEAN
          /\ badCsv' \in BOOLEAN /\ csvOpen' \in BOOLEAN
          /\ manifest' \in FinalStatus \cup {"none", "recording"}
          /\ caller' \in CallerPC /\ status' \in FinalStatus \cup {"none"}
          /\ closeError' \in BOOLEAN
      BY <1>2 DEF NewSession, OpenFails, Base, TypeOK, WorkerPC, CallerPC, FinalStatus
    <2>5. QED
      BY <2>2, <2>3, <2>4 DEF TypeOK
  <1>3. CASE CloseBegins
    BY <1>3 DEF Base, TypeOK, Lifecycle, Live, WorkerPC, CallerPC,
       FinalStatus, CloseBegins
  <1>4. CASE Enqueue
    BY <1>4 DEF Base, TypeOK, Lifecycle, Live, WorkerPC, CallerPC,
       FinalStatus, Enqueue
  <1>5. CASE Overrun
    BY <1>5 DEF Base, TypeOK, Lifecycle, Live, WorkerPC, CallerPC,
       FinalStatus, Overrun
  <1>6. CASE Take
    BY <1>6 DEF Base, TypeOK, Lifecycle, Live, WorkerPC, CallerPC,
       FinalStatus, Take
  <1>7. CASE WorkerExit
    BY <1>7 DEF Base, TypeOK, Lifecycle, Live, WorkerPC, CallerPC,
       FinalStatus, WorkerExit
  <1>8. CASE AppendRecord
    BY <1>8 DEF Base, TypeOK, Lifecycle, Live, WorkerPC, CallerPC,
       FinalStatus, SpillOf, AppendRecord
  <1>9. CASE AppendFails
    BY <1>9 DEF Base, TypeOK, Lifecycle, Live, WorkerPC, CallerPC,
       FinalStatus, SpillOf, AppendFails
  <1>10. CASE AppendRows
    BY <1>10 DEF Base, TypeOK, Lifecycle, Live, WorkerPC, CallerPC,
       FinalStatus, AppendRows
  <1>11. CASE AppendRowsFails
    BY <1>11 DEF Base, TypeOK, Lifecycle, Live, WorkerPC, CallerPC,
       FinalStatus, AppendRowsFails
  <1>12. CASE FlushRecords
    BY <1>12 DEF Base, TypeOK, Lifecycle, Live, WorkerPC, CallerPC,
       FinalStatus, FlushRecords
  <1>13. CASE FlushFails
    <2>1. records' = records
      BY <1>13 DEF FlushFails
    <2>2. durable' \in 0 .. Len(records')
      BY <1>13, <1>b, <2>1 DEF SpillOf, FlushFails
    <2>3. records' \in Seq(Nat)
      BY <1>b, <2>1
    <2>4. /\ queue' \in Seq(Nat) /\ Len(queue') <= QueueCapacity
          /\ torn' \in BOOLEAN
          /\ enqueued' \in Nat /\ overruns' \in Nat /\ written' \in Nat
          /\ result' \in Nat /\ sinceFlush' \in 0 .. FlushEvery /\ rows' \in Nat
          /\ open' \in BOOLEAN /\ accepting' \in BOOLEAN
          /\ stopRequested' \in BOOLEAN /\ faulted' \in BOOLEAN
          /\ badStream' \in BOOLEAN /\ streamOpen' \in BOOLEAN
          /\ badCsv' \in BOOLEAN /\ csvOpen' \in BOOLEAN
          /\ closeError' \in BOOLEAN
      BY <1>13 DEF FlushFails, Base, TypeOK
    <2>s. /\ worker' \in WorkerPC /\ caller' \in CallerPC
          /\ manifest' \in FinalStatus \cup {"none", "recording"}
          /\ status' \in FinalStatus \cup {"none"}
      BY <1>13 DEF FlushFails, Base, TypeOK, WorkerPC, CallerPC
    <2>5. QED
      BY <2>2, <2>3, <2>4, <2>s DEF TypeOK
  <1>14. CASE CountWritten
    BY <1>14 DEF Base, TypeOK, Lifecycle, Live, WorkerPC, CallerPC,
       FinalStatus, CountWritten
  <1>15. CASE ReportFault
    BY <1>15 DEF Base, TypeOK, Lifecycle, Live, WorkerPC, CallerPC,
       FinalStatus, ReportFault
  <1>16. CASE Join
    BY <1>16 DEF Base, TypeOK, Lifecycle, Live, WorkerPC, CallerPC,
       FinalStatus, Join
  <1>17. CASE CloseStream
    <2>1. records' = records
      BY <1>17 DEF CloseStream
    <2>2. durable' \in 0 .. Len(records')
      BY <1>17, <1>b, <2>1 DEF CloseStream
    <2>3. records' \in Seq(Nat)
      BY <1>b, <2>1
    <2>4. /\ queue' \in Seq(Nat) /\ Len(queue') <= QueueCapacity
          /\ torn' \in BOOLEAN
          /\ enqueued' \in Nat /\ overruns' \in Nat /\ written' \in Nat
          /\ result' \in Nat /\ sinceFlush' \in 0 .. FlushEvery /\ rows' \in Nat
          /\ open' \in BOOLEAN /\ accepting' \in BOOLEAN
          /\ stopRequested' \in BOOLEAN /\ faulted' \in BOOLEAN
          /\ badStream' \in BOOLEAN /\ streamOpen' \in BOOLEAN
          /\ badCsv' \in BOOLEAN /\ csvOpen' \in BOOLEAN
          /\ closeError' \in BOOLEAN
      BY <1>17 DEF CloseStream, Base, TypeOK
    <2>s. /\ worker' \in WorkerPC /\ caller' \in CallerPC
          /\ manifest' \in FinalStatus \cup {"none", "recording"}
          /\ status' \in FinalStatus \cup {"none"}
      BY <1>17 DEF CloseStream, Base, TypeOK, WorkerPC, CallerPC
    <2>5. QED
      BY <2>2, <2>3, <2>4, <2>s DEF TypeOK
  <1>18. CASE CloseStreamFails
    <2>1. records' = records
      BY <1>18 DEF CloseStreamFails
    <2>2. durable' \in 0 .. Len(records')
      BY <1>18, <1>b, <2>1 DEF SpillOf, CloseStreamFails
    <2>3. records' \in Seq(Nat)
      BY <1>b, <2>1
    <2>4. /\ queue' \in Seq(Nat) /\ Len(queue') <= QueueCapacity
          /\ torn' \in BOOLEAN
          /\ enqueued' \in Nat /\ overruns' \in Nat /\ written' \in Nat
          /\ result' \in Nat /\ sinceFlush' \in 0 .. FlushEvery /\ rows' \in Nat
          /\ open' \in BOOLEAN /\ accepting' \in BOOLEAN
          /\ stopRequested' \in BOOLEAN /\ faulted' \in BOOLEAN
          /\ badStream' \in BOOLEAN /\ streamOpen' \in BOOLEAN
          /\ badCsv' \in BOOLEAN /\ csvOpen' \in BOOLEAN
          /\ closeError' \in BOOLEAN
      BY <1>18 DEF CloseStreamFails, Base, TypeOK
    <2>s. /\ worker' \in WorkerPC /\ caller' \in CallerPC
          /\ manifest' \in FinalStatus \cup {"none", "recording"}
          /\ status' \in FinalStatus \cup {"none"}
      BY <1>18 DEF CloseStreamFails, Base, TypeOK, WorkerPC, CallerPC
    <2>5. QED
      BY <2>2, <2>3, <2>4, <2>s DEF TypeOK
  <1>19. CASE CloseCsv
    BY <1>19 DEF Base, TypeOK, Lifecycle, Live, WorkerPC, CallerPC,
       FinalStatus, CloseCsv
  <1>20. CASE CloseCsvFails
    BY <1>20 DEF Base, TypeOK, Lifecycle, Live, WorkerPC, CallerPC,
       FinalStatus, CloseCsvFails
  <1>21. CASE RemoveManifest
    BY <1>21 DEF Base, TypeOK, Lifecycle, Live, WorkerPC, CallerPC,
       FinalStatus, RemoveManifest
  <1>22. CASE WriteManifestFails
    BY <1>22 DEF Base, TypeOK, Lifecycle, Live, WorkerPC, CallerPC,
       FinalStatus, WriteManifestFails
  <1>23. CASE RenameManifest
    BY <1>23 DEF Base, TypeOK, Lifecycle, Live, WorkerPC, CallerPC,
       FinalStatus, RenameManifest
  <1>24. CASE RenameFails
    BY <1>24 DEF Base, TypeOK, Lifecycle, Live, WorkerPC, CallerPC,
       FinalStatus, RenameFails
  <1>25. CASE CloseEnds
    <2>1. queue' = <<>>
      BY <1>25 DEF CloseEnds
    <2>2. queue' \in Seq(Nat) /\ Len(queue') = 0
      BY <1>a, <2>1
    <2>r. records' \in Seq(Nat) /\ durable' \in 0 .. Len(records')
      BY <1>25 DEF CloseEnds, Base, TypeOK
    <2>t. torn' \in BOOLEAN
      BY <1>25 DEF CloseEnds, Base, TypeOK
    <2>n. /\ enqueued' \in Nat /\ overruns' \in Nat /\ written' \in Nat
          /\ result' \in Nat /\ sinceFlush' \in 0 .. FlushEvery /\ rows' \in Nat
      BY <1>25 DEF CloseEnds, Base, TypeOK
    <2>3. /\ open' \in BOOLEAN /\ accepting' \in BOOLEAN
          /\ stopRequested' \in BOOLEAN /\ faulted' \in BOOLEAN
          /\ badStream' \in BOOLEAN /\ streamOpen' \in BOOLEAN
          /\ badCsv' \in BOOLEAN /\ csvOpen' \in BOOLEAN
          /\ closeError' \in BOOLEAN
      BY <1>25 DEF CloseEnds, Base, TypeOK
    <2>s. /\ worker' \in WorkerPC /\ caller' \in CallerPC
          /\ manifest' \in FinalStatus \cup {"none", "recording"}
          /\ status' \in FinalStatus \cup {"none"}
      BY <1>25 DEF CloseEnds, Base, TypeOK, WorkerPC, CallerPC
    <2>4. QED
      BY <2>2, <2>3, <2>r, <2>t, <2>n, <2>s DEF TypeOK
  <1>26. CASE Crash
    <2>1. queue' = <<>>
      BY <1>26 DEF Crash
    <2>2. queue' \in Seq(Nat) /\ Len(queue') = 0
      BY <1>a, <2>1
    <2>r. records' \in Seq(Nat) /\ durable' \in 0 .. Len(records')
      BY <1>26 DEF Crash, Base, TypeOK
    <2>t. torn' \in BOOLEAN
      BY <1>26 DEF Crash, Base, TypeOK
    <2>n. /\ enqueued' \in Nat /\ overruns' \in Nat /\ written' \in Nat
          /\ result' \in Nat /\ sinceFlush' \in 0 .. FlushEvery /\ rows' \in Nat
      BY <1>26 DEF Crash, Base, TypeOK
    <2>3. /\ open' \in BOOLEAN /\ accepting' \in BOOLEAN
          /\ stopRequested' \in BOOLEAN /\ faulted' \in BOOLEAN
          /\ badStream' \in BOOLEAN /\ streamOpen' \in BOOLEAN
          /\ badCsv' \in BOOLEAN /\ csvOpen' \in BOOLEAN
          /\ closeError' \in BOOLEAN
      BY <1>26 DEF Crash, Base, TypeOK
    <2>s. /\ worker' \in WorkerPC /\ caller' \in CallerPC
          /\ manifest' \in FinalStatus \cup {"none", "recording"}
          /\ status' \in FinalStatus \cup {"none"}
      BY <1>26 DEF Crash, Base, TypeOK, WorkerPC, CallerPC
    <2>4. QED
      BY <2>2, <2>3, <2>r, <2>t, <2>n, <2>s DEF TypeOK
  <1>27. CASE UNCHANGED vars
    BY <1>27 DEF Base, TypeOK, vars
  <1>28. QED
    BY <1>1, <1>2, <1>3, <1>4, <1>5, <1>6, <1>7, <1>8, <1>9, <1>10, <1>11,
       <1>12, <1>13, <1>14, <1>15, <1>16, <1>17, <1>18, <1>19, <1>20, <1>21,
       <1>22, <1>23, <1>24, <1>25, <1>26, <1>27
       DEF Next, Produce, WorkerStep, CloseStep

(* The program counters of close and of the worker stay in step with the   *)
(* flags and with what is open.                                            *)
LEMMA NextKeepsLifecycle == Base /\ [Next]_vars => Lifecycle'
  <1> SUFFICES ASSUME Base, [Next]_vars PROVE Lifecycle'
    OBVIOUS
  <1> USE ConfigAssumption DEF control, counters, binary, csv, close
  <1>1. CASE Open
    BY <1>1 DEF Base, TypeOK, Lifecycle, Live, FinalStatus, WorkerPC,
       NewSession, Open
  <1>2. CASE OpenFails
    BY <1>2 DEF Base, TypeOK, Lifecycle, Live, FinalStatus, WorkerPC,
       NewSession, OpenFails
  <1>3. CASE CloseBegins
    BY <1>3 DEF Base, TypeOK, Lifecycle, Live, FinalStatus, WorkerPC,
       CloseBegins
  <1>4. CASE Enqueue
    BY <1>4 DEF Base, TypeOK, Lifecycle, Live, FinalStatus, WorkerPC,
       Enqueue
  <1>5. CASE Overrun
    BY <1>5 DEF Base, TypeOK, Lifecycle, Live, FinalStatus, WorkerPC,
       Overrun
  <1>6. CASE Take
    BY <1>6 DEF Base, TypeOK, Lifecycle, Live, FinalStatus, WorkerPC, Take
  <1>7. CASE WorkerExit
    BY <1>7 DEF Base, TypeOK, Lifecycle, Live, FinalStatus, WorkerPC,
       WorkerExit
  <1>8. CASE AppendRecord
    BY <1>8 DEF Base, TypeOK, Lifecycle, Live, FinalStatus, WorkerPC,
       SpillOf, AppendRecord
  <1>9. CASE AppendFails
    BY <1>9 DEF Base, TypeOK, Lifecycle, Live, FinalStatus, WorkerPC,
       SpillOf, AppendFails
  <1>10. CASE AppendRows
    BY <1>10 DEF Base, TypeOK, Lifecycle, Live, FinalStatus, WorkerPC,
       AppendRows
  <1>11. CASE AppendRowsFails
    BY <1>11 DEF Base, TypeOK, Lifecycle, Live, FinalStatus, WorkerPC,
       AppendRowsFails
  <1>12. CASE FlushRecords
    BY <1>12 DEF Base, TypeOK, Lifecycle, Live, FinalStatus, WorkerPC,
       FlushRecords
  <1>13. CASE FlushFails
    BY <1>13 DEF Base, TypeOK, Lifecycle, Live, FinalStatus, WorkerPC,
       SpillOf, FlushFails
  <1>14. CASE CountWritten
    BY <1>14 DEF Base, TypeOK, Lifecycle, Live, FinalStatus, WorkerPC,
       CountWritten
  <1>15. CASE ReportFault
    BY <1>15 DEF Base, TypeOK, Lifecycle, Live, FinalStatus, WorkerPC,
       ReportFault
  <1>16. CASE Join
    BY <1>16 DEF Base, TypeOK, Lifecycle, Live, FinalStatus, WorkerPC, Join
  <1>17. CASE CloseStream
    BY <1>17 DEF Base, TypeOK, Lifecycle, Live, FinalStatus, WorkerPC,
       CloseStream
  <1>18. CASE CloseStreamFails
    BY <1>18 DEF Base, TypeOK, Lifecycle, Live, FinalStatus, WorkerPC,
       SpillOf, CloseStreamFails
  <1>19. CASE CloseCsv
    BY <1>19 DEF Base, TypeOK, Lifecycle, Live, FinalStatus, WorkerPC,
       CloseCsv
  <1>20. CASE CloseCsvFails
    BY <1>20 DEF Base, TypeOK, Lifecycle, Live, FinalStatus, WorkerPC,
       CloseCsvFails
  <1>21. CASE RemoveManifest
    BY <1>21 DEF Base, TypeOK, Lifecycle, Live, FinalStatus, WorkerPC,
       RemoveManifest
  <1>22. CASE WriteManifestFails
    BY <1>22 DEF Base, TypeOK, Lifecycle, Live, FinalStatus, WorkerPC,
       WriteManifestFails
  <1>23. CASE RenameManifest
    BY <1>23 DEF Base, TypeOK, Lifecycle, Live, FinalStatus, WorkerPC,
       RenameManifest
  <1>24. CASE RenameFails
    BY <1>24 DEF Base, TypeOK, Lifecycle, Live, FinalStatus, WorkerPC,
       RenameFails
  <1>25. CASE CloseEnds
    BY <1>25 DEF Base, TypeOK, Lifecycle, Live, FinalStatus, WorkerPC,
       CloseEnds
  <1>26. CASE Crash
    BY <1>26 DEF Base, TypeOK, Lifecycle, Live, FinalStatus, WorkerPC, Crash
  <1>27. CASE UNCHANGED vars
    BY <1>27 DEF Base, Lifecycle, Live, vars
  <1>28. QED
    BY <1>1, <1>2, <1>3, <1>4, <1>5, <1>6, <1>7, <1>8, <1>9, <1>10, <1>11,
       <1>12, <1>13, <1>14, <1>15, <1>16, <1>17, <1>18, <1>19, <1>20, <1>21,
       <1>22, <1>23, <1>24, <1>25, <1>26, <1>27
       DEF Next, Produce, WorkerStep, CloseStep

(* Base is inductive.                                                      *)
LEMMA NextKeepsBase == Base /\ [Next]_vars => Base'
  BY NextKeepsTypes, NextKeepsLifecycle DEF Base

(* Types, program counters, flags and open files agree in every reachable  *)
(* state.                                                                  *)
THEOREM BaseInvariant == Spec => []Base
  BY InitBase, NextKeepsBase, PTL DEF Spec

(* Every variable keeps its type, and the queue its bound.                 *)
THEOREM WriterTypes == Spec => []TypeOK
  <1>1. Base => TypeOK
    BY DEF Base
  <1>2. QED
    BY <1>1, BaseInvariant, PTL

-----------------------------------------------------------------------------
(* The order of results.                                                   *)

(* Results are numbers and their positions too.                            *)
LEMMA Lengths ==
    ASSUME Base
    PROVE  /\ records \in Seq(Nat) /\ Len(records) \in Nat
           /\ queue \in Seq(Nat) /\ Len(queue) \in Nat
           /\ enqueued \in Nat /\ result \in Nat /\ written \in Nat
           /\ durable \in Nat /\ durable <= Len(records)
           /\ sinceFlush \in Nat /\ rows \in Nat
           /\ Taken \in Nat
           /\ Taken = Len(records) + (IF worker = "append" THEN 1 ELSE 0)
  BY ConfigAssumption DEF Base, TypeOK, Taken, B2N

(* A step that moves no result.                                            *)
LEMMA UnmovedResults ==
    ASSUME Contents, UNCHANGED <<records, queue, enqueued, rows>>,
           worker' = "append" <=> worker = "append",
           worker' = "csv" <=> worker = "csv",
           worker' = "append" => result' = result,
           Live' => Live, Healthy' => Healthy
    PROVE  Contents'
  <1>1. Taken' = Taken
    BY DEF Taken, B2N
  <1>2. B2N(worker = "csv")' = B2N(worker = "csv")
    BY DEF B2N
  <1>3. QED
    BY <1>1, <1>2 DEF Contents

(* A step after which the worker writes nothing any more.                  *)
LEMMA NoMoreResults ==
    ASSUME Contents, UNCHANGED <<records, enqueued>>, ~Live', ~Healthy'
    PROVE  Contents'
  <1>1. worker' # "append"
    BY DEF Live
  <1>2. QED
    BY <1>1 DEF Contents

(* Contents is inductive: enqueue adds the next number at the end of the   *)
(* queue, the worker takes its head, and what it takes is what the file    *)
(* lacks next.                                                             *)
LEMMA NextKeepsContents == Base /\ Contents /\ [Next]_vars => Contents'
  <1> SUFFICES ASSUME Base, Base', Contents, [Next]_vars PROVE Contents'
    BY NextKeepsBase
  <1> USE ConfigAssumption DEF control, counters, binary, csv, close
  <1>1. CASE Open
    <2>1. records' = <<>> /\ queue' = <<>> /\ enqueued' = 0 /\ rows' = 0
      BY <1>1 DEF NewSession, Open
    <2>2. Len(records') = 0 /\ Len(queue') = 0
      BY <2>1
    <2>3. worker' \in {"none", "wait"}
      BY <1>1 DEF Open
    <2>4. Taken' = 0 /\ B2N(worker = "csv")' = 0
      BY <2>2, <2>3 DEF Taken, B2N
    <2>5. QED
      BY <2>1, <2>2, <2>3, <2>4 DEF Contents
  <1>2. CASE OpenFails
    <2>1. records' = <<>> /\ queue' = <<>> /\ enqueued' = 0 /\ rows' = 0
      BY <1>2 DEF NewSession, OpenFails
    <2>2. Len(records') = 0 /\ Len(queue') = 0
      BY <2>1
    <2>3. worker' \in {"none", "wait"}
      BY <1>2 DEF OpenFails
    <2>4. Taken' = 0 /\ B2N(worker = "csv")' = 0
      BY <2>2, <2>3 DEF Taken, B2N
    <2>5. QED
      BY <2>1, <2>2, <2>3, <2>4 DEF Contents
  <1>3. CASE CloseBegins
    BY <1>3, UnmovedResults DEF Live, Healthy, Base, Lifecycle, CloseBegins
  <1>4. CASE Enqueue
    <2>1. /\ records' = records /\ rows' = rows /\ worker' = worker
          /\ result' = result /\ enqueued' = enqueued + 1
          /\ queue' = Append(queue, enqueued + 1)
          /\ open' = open /\ faulted' = faulted
      BY <1>4 DEF Enqueue
    <2>2. /\ queue \in Seq(Nat) /\ Len(queue) \in Nat /\ enqueued \in Nat
          /\ Taken \in Nat /\ Len(records) \in Nat
      BY Lengths
    <2>3. Taken' = Taken /\ Healthy' = Healthy /\ Live' = Live
          /\ B2N(worker = "csv")' = B2N(worker = "csv")
      BY <2>1 DEF Taken, Healthy, Live, B2N
    <2>4. Len(queue') = Len(queue) + 1
      BY <2>1, <2>2
    <2>5. ASSUME Healthy, NEW j \in 1 .. Len(queue')
          PROVE  queue'[j] = Taken + j
      <3>1. enqueued = Taken + Len(queue)
        BY <2>5 DEF Contents
      <3>2. CASE j \in 1 .. Len(queue)
        <4>1. queue'[j] = queue[j]
          BY <3>2, <2>1, <2>2
        <4>2. QED
          BY <4>1, <3>2, <2>5 DEF Contents
      <3>3. CASE j = Len(queue) + 1
        <4>1. queue'[j] = enqueued + 1
          BY <3>3, <2>1, <2>2
        <4>2. QED
          BY <4>1, <3>1, <3>3, <2>2
      <3>4. QED
        BY <2>2, <2>4, <2>5, <3>2, <3>3
    <2>6. Healthy => enqueued' = Taken' + Len(queue')
      BY <2>1, <2>2, <2>3, <2>4 DEF Contents
    <2>7. Len(records') <= enqueued' /\ (Live' => Taken' <= enqueued')
      BY <2>1, <2>2, <2>3 DEF Contents
    <2>8. QED
      BY <2>1, <2>3, <2>5, <2>6, <2>7 DEF Contents
  <1>5. CASE Overrun
    BY <1>5, UnmovedResults DEF Live, Healthy, Base, Lifecycle, Overrun
  <1>6. CASE Take
    <2>1. /\ records' = records /\ rows' = rows /\ enqueued' = enqueued
          /\ worker = "wait" /\ worker' = "append" /\ queue # <<>>
          /\ result' = Head(queue) /\ queue' = Tail(queue)
          /\ open' = open /\ faulted' = faulted
      BY <1>6 DEF Take
    <2>2. /\ queue \in Seq(Nat) /\ Len(queue) \in Nat /\ enqueued \in Nat
          /\ Len(records) \in Nat
      BY Lengths
    <2>3. Taken = Len(records) /\ Taken' = Len(records) + 1
      BY <2>1, <2>2 DEF Taken, B2N
    <2>4. Healthy' /\ Healthy
      BY <2>1 DEF Healthy, Base, Lifecycle, Live
    <2>5. /\ Len(queue) >= 1 /\ Len(queue') = Len(queue) - 1
          /\ result' = queue[1]
          /\ \A j \in 1 .. Len(queue') : queue'[j] = queue[j + 1]
      BY <2>1, <2>2
    <2>6. ASSUME NEW j \in 1 .. Len(queue') PROVE queue'[j] = Taken' + j
      <3>1. j + 1 \in 1 .. Len(queue) /\ queue'[j] = queue[j + 1]
        BY <2>2, <2>5
      <3>2. queue[j + 1] = Taken + (j + 1)
        BY <3>1, <2>4 DEF Contents
      <3>3. QED
        BY <3>1, <3>2, <2>2, <2>3
    <2>7. result' = Len(records') + 1
      <3>1. 1 \in 1 .. Len(queue)
        BY <2>2, <2>5
      <3>2. queue[1] = Taken + 1
        BY <3>1, <2>4 DEF Contents
      <3>3. QED
        BY <3>2, <2>1, <2>3, <2>5
    <2>8. enqueued' = Taken' + Len(queue') /\ Taken' <= enqueued'
          /\ Len(records') <= enqueued'
      BY <2>1, <2>2, <2>3, <2>4, <2>5 DEF Contents
    <2>9. CsvEnabled => rows' = Len(records') - B2N(worker = "csv")'
      BY <2>1, <2>2, <2>4 DEF Contents, B2N
    <2>10. QED
      BY <2>1, <2>6, <2>7, <2>8, <2>9 DEF Contents
  <1>7. CASE WorkerExit
    BY <1>7, UnmovedResults DEF Live, Healthy, Base, Lifecycle, WorkerExit
  <1>8. CASE AppendRecord
    <2>1. /\ records' = Append(records, result) /\ rows' = rows
          /\ enqueued' = enqueued /\ queue' = queue
          /\ worker = "append" /\ worker' = "csv"
          /\ open' = open /\ faulted' = faulted
      BY <1>8 DEF AppendRecord
    <2>2. /\ records \in Seq(Nat) /\ Len(records) \in Nat /\ enqueued \in Nat
          /\ Len(queue) \in Nat /\ result \in Nat /\ rows \in Nat
      BY Lengths
    <2>3. Len(records') = Len(records) + 1
      BY <2>1, <2>2
    <2>4. Taken' = Taken /\ Taken = Len(records) + 1 /\ Live
      BY <2>1, <2>2, <2>3 DEF Taken, B2N, Live
    <2>5. ASSUME NEW j \in 1 .. Len(records') PROVE records'[j] = j
      <3>1. CASE j \in 1 .. Len(records)
        <4>1. records'[j] = records[j]
          BY <3>1, <2>1, <2>2
        <4>2. QED
          BY <4>1, <3>1 DEF Contents
      <3>2. CASE j = Len(records) + 1
        <4>1. records'[j] = result
          BY <3>2, <2>1, <2>2
        <4>2. QED
          BY <4>1, <3>2, <2>1 DEF Contents
      <3>3. QED
        BY <2>2, <2>3, <3>1, <3>2
    <2>6. Healthy' => Healthy
      BY <2>1 DEF Healthy
    <2>7. Len(records') <= enqueued' /\ Taken' <= enqueued'
      BY <2>1, <2>2, <2>3, <2>4 DEF Contents
    <2>8. Healthy' /\ CsvEnabled =>
              rows' = Len(records') - B2N(worker = "csv")'
      BY <2>1, <2>2, <2>3, <2>6 DEF Contents, B2N
    <2>9. Healthy' => enqueued' = Taken' + Len(queue')
      BY <2>1, <2>4, <2>6 DEF Contents
    <2>10. Healthy' => \A j \in 1 .. Len(queue') : queue'[j] = Taken' + j
      BY <2>1, <2>4, <2>6 DEF Contents
    <2>11. QED
      BY <2>1, <2>5, <2>7, <2>8, <2>9, <2>10 DEF Contents
  <1>9. CASE AppendFails
    BY <1>9, NoMoreResults DEF Live, Healthy, Base, Lifecycle, AppendFails
  <1>10. CASE AppendRows
    <2>1. /\ records' = records /\ queue' = queue /\ enqueued' = enqueued
          /\ worker = "csv" /\ worker' \in {"flush", "count"}
          /\ rows' = IF CsvEnabled THEN rows + 1 ELSE rows
          /\ open' = open /\ faulted' = faulted
      BY <1>10 DEF AppendRows
    <2>2. Len(records) \in Nat /\ rows \in Nat
      BY Lengths
    <2>3. Taken' = Taken
      BY <2>1 DEF Taken, B2N
    <2>4. Live /\ (Healthy' => Healthy)
      BY <2>1 DEF Live, Healthy
    <2>5. Healthy' /\ CsvEnabled =>
              rows' = Len(records') - B2N(worker = "csv")'
      BY <2>1, <2>2, <2>4 DEF Contents, B2N
    <2>6. QED
      BY <2>1, <2>3, <2>4, <2>5 DEF Contents
  <1>11. CASE AppendRowsFails
    BY <1>11, NoMoreResults DEF Live, Healthy, Base, Lifecycle,
       AppendRowsFails
  <1>12. CASE FlushRecords
    BY <1>12, UnmovedResults DEF Live, Healthy, Base, Lifecycle,
       FlushRecords
  <1>13. CASE FlushFails
    BY <1>13, NoMoreResults DEF Live, Healthy, Base, Lifecycle, FlushFails
  <1>14. CASE CountWritten
    BY <1>14, UnmovedResults DEF Live, Healthy, Base, Lifecycle,
       CountWritten
  <1>15. CASE ReportFault
    BY <1>15, UnmovedResults DEF Live, Healthy, Base, Lifecycle, ReportFault
  <1>16. CASE Join
    BY <1>16, UnmovedResults DEF Live, Healthy, Base, Lifecycle, Join
  <1>17. CASE CloseStream
    BY <1>17, UnmovedResults DEF Live, Healthy, Base, Lifecycle, CloseStream
  <1>18. CASE CloseStreamFails
    BY <1>18, UnmovedResults DEF Live, Healthy, Base, Lifecycle,
       CloseStreamFails
  <1>19. CASE CloseCsv
    BY <1>19, UnmovedResults DEF Live, Healthy, Base, Lifecycle, CloseCsv
  <1>20. CASE CloseCsvFails
    BY <1>20, UnmovedResults DEF Live, Healthy, Base, Lifecycle,
       CloseCsvFails
  <1>21. CASE RemoveManifest
    BY <1>21, UnmovedResults DEF Live, Healthy, Base, Lifecycle,
       RemoveManifest
  <1>22. CASE WriteManifestFails
    BY <1>22, UnmovedResults DEF Live, Healthy, Base, Lifecycle,
       WriteManifestFails
  <1>23. CASE RenameManifest
    BY <1>23, UnmovedResults DEF Live, Healthy, Base, Lifecycle,
       RenameManifest
  <1>24. CASE RenameFails
    BY <1>24, UnmovedResults DEF Live, Healthy, Base, Lifecycle, RenameFails
  <1>25. CASE CloseEnds
    BY <1>25, NoMoreResults DEF Live, Healthy, Base, Lifecycle, CloseEnds
  <1>26. CASE Crash
    BY <1>26, NoMoreResults DEF Live, Healthy, Base, Lifecycle, Crash
  <1>27. CASE UNCHANGED vars
    BY <1>27, UnmovedResults DEF Live, Healthy, vars
  <1>28. QED
    BY <1>1, <1>2, <1>3, <1>4, <1>5, <1>6, <1>7, <1>8, <1>9, <1>10, <1>11,
       <1>12, <1>13, <1>14, <1>15, <1>16, <1>17, <1>18, <1>19, <1>20, <1>21,
       <1>22, <1>23, <1>24, <1>25, <1>26, <1>27
       DEF Next, Produce, WorkerStep, CloseStep

(* Contents holds in every reachable state.                                *)
THEOREM ContentsInvariant == Spec => [](Base /\ Contents)
  <1>1. Init => Contents
    <2> SUFFICES ASSUME Init PROVE Contents
      OBVIOUS
    <2>1. /\ Len(records) = 0 /\ enqueued = 0 /\ worker = "none" /\ ~open
      BY DEF Init
    <2>2. QED
      BY <2>1 DEF Contents, Live, Healthy
  <1>2. QED
    BY <1>1, InitBase, NextKeepsBase, NextKeepsContents, PTL DEF Spec

(* The file is always a prefix of what was accepted.                       *)
THEOREM FileStaysPrefix == Spec => []FileIsPrefix
  <1>1. Contents => FileIsPrefix
    BY DEF Contents, FileIsPrefix
  <1>2. QED
    BY <1>1, ContentsInvariant, PTL

(* Until the worker fails, no accepted result is missing.                  *)
THEOREM NothingIsLostSilently == Spec => []NothingLostSilently
  <1>1. Base /\ Contents => NothingLostSilently
    BY DEF Contents, NothingLostSilently, Healthy, Taken
  <1>2. QED
    BY <1>1, ContentsInvariant, PTL

-----------------------------------------------------------------------------
(* What is on disk.                                                        *)

(* A step that writes and counts nothing keeps the lag; the disk may only  *)
(* catch up.                                                               *)
LEMMA SettledLag ==
    ASSUME Base, Base', Lag, written' = written, durable' >= durable,
           Live' => /\ Live
                    /\ UNCHANGED <<records, sinceFlush>>
                    /\ worker' = "csv" <=> worker = "csv"
                    /\ worker' \in {"csv", "flush", "count"}
                           <=> worker \in {"csv", "flush", "count"}
    PROVE  Lag'
  <1>1. /\ written \in Nat /\ durable \in Nat /\ durable' \in Nat
        /\ Len(records) \in Nat /\ sinceFlush \in Nat
    BY Lengths, Lengths DEF Base, TypeOK
  <1>2. written' < durable' + FlushEvery
    <2>1. \A a, b, c, d \in Nat : a < b + d /\ c >= b => a < c + d
      OBVIOUS
    <2>2. FlushEvery \in Nat /\ written < durable + FlushEvery
      BY ConfigAssumption DEF Lag
    <2>3. QED
      BY <1>1, <2>1, <2>2
  <1>3. ASSUME Live'
        PROVE  /\ Len(records')
                      = written' + B2N(worker \in {"csv", "flush", "count"})'
               /\ Len(records')
                      <= durable' + sinceFlush' + B2N(worker = "csv")'
    BY <1>1, <1>3 DEF Lag, B2N
  <1>4. QED
    BY <1>2, <1>3 DEF Lag

(* Lag is inductive: the counter since the last flush bounds what the disk *)
(* lacks, and it is reset only by a flush.                                 *)
LEMMA NextKeepsLag == Base /\ Lag /\ [Next]_vars => Lag'
  <1> SUFFICES ASSUME Base, Base', Lag, [Next]_vars PROVE Lag'
    BY NextKeepsBase
  <1> USE ConfigAssumption DEF control, counters, binary, csv, close
  <1>a. /\ written \in Nat /\ durable \in Nat /\ Len(records) \in Nat
        /\ sinceFlush \in Nat /\ records \in Seq(Nat) /\ result \in Nat
        /\ durable <= Len(records)
    BY Lengths
  <1>1. CASE Open
    <2>1. records' = <<>> /\ written' = 0 /\ durable' = 0 /\ sinceFlush' = 0
      BY <1>1 DEF NewSession, Open
    <2>2. Len(records') = 0
      BY <2>1
    <2>3. worker' \in {"none", "wait"}
      BY <1>1 DEF Open
    <2>4. QED
      BY <2>1, <2>2, <2>3 DEF Lag, B2N
  <1>2. CASE OpenFails
    <2>1. records' = <<>> /\ written' = 0 /\ durable' = 0 /\ sinceFlush' = 0
      BY <1>2 DEF NewSession, OpenFails
    <2>2. Len(records') = 0
      BY <2>1
    <2>3. worker' \in {"none", "wait"}
      BY <1>2 DEF OpenFails
    <2>4. QED
      BY <2>1, <2>2, <2>3 DEF Lag, B2N
  <1>3. CASE CloseBegins
    BY <1>3, <1>a, SettledLag DEF Live, CloseBegins
  <1>4. CASE Enqueue
    BY <1>4, <1>a, SettledLag DEF Live, Enqueue
  <1>5. CASE Overrun
    BY <1>5, <1>a, SettledLag DEF Live, Overrun
  <1>6. CASE Take
    BY <1>6, <1>a, SettledLag DEF Live, Take
  <1>7. CASE WorkerExit
    BY <1>7, <1>a, SettledLag DEF Live, WorkerExit
  <1>8. CASE AppendRecord
    <2>1. /\ worker = "append" /\ worker' = "csv" /\ written' = written
          /\ sinceFlush' = sinceFlush /\ records' = Append(records, result)
      BY <1>8 DEF AppendRecord
    <2>2. Len(records') = Len(records) + 1
      BY <1>a, <2>1
    <2>3. durable' \in Nat /\ durable' >= durable
      BY <1>8, <1>a, <2>2 DEF SpillOf, AppendRecord
    <2>4. /\ written < durable + FlushEvery /\ Len(records) = written
          /\ Len(records) <= durable + sinceFlush
      BY <1>a, <2>1 DEF Lag, Live, B2N
    <2>5. /\ written' < durable' + FlushEvery
          /\ Len(records') <= durable' + sinceFlush' + 1
      <3>1. \A a, b, c, d \in Nat : c >= b =>
                /\ a < b + d => a < c + d
                /\ a <= b + d => a + 1 <= c + d + 1
        OBVIOUS
      <3>2. FlushEvery \in Nat
        BY ConfigAssumption
      <3>3. written \in Nat /\ durable \in Nat /\ sinceFlush \in Nat /\ Len(records) \in Nat
        BY <1>a
      <3>4. written < durable' + FlushEvery
        BY <2>3, <2>4, <3>1, <3>2, <3>3
      <3>5. Len(records) + 1 <= durable' + sinceFlush + 1
        BY <2>3, <2>4, <3>1, <3>2, <3>3
      <3>6. QED
        BY <2>1, <2>2, <3>4, <3>5
    <2>6. QED
      BY <2>1, <2>2, <2>4, <2>5 DEF Lag, B2N
  <1>9. CASE AppendFails
    <2>1. written' = written /\ ~Live'
      BY <1>9 DEF AppendFails, Live, Base, Lifecycle
    <2>2. durable' >= durable
      BY <1>9, <1>a DEF SpillOf, AppendFails
    <2>3. QED
      BY <2>1, <2>2, SettledLag
  <1>10. CASE AppendRows
    <2>1. /\ worker = "csv" /\ worker' \in {"flush", "count"}
          /\ sinceFlush' = sinceFlush + 1
          /\ UNCHANGED <<records, durable, written>>
      BY <1>10 DEF AppendRows
    <2>2. QED
      BY <1>a, <2>1 DEF Lag, Live, B2N
  <1>11. CASE AppendRowsFails
    BY <1>11, <1>a, SettledLag DEF Live, AppendRowsFails
  <1>12. CASE FlushRecords
    <2>1. /\ worker = "flush" /\ worker' = "count" /\ sinceFlush' = 0
          /\ durable' = Len(records) /\ UNCHANGED <<records, written>>
      BY <1>12 DEF FlushRecords
    <2>2. QED
      BY <1>a, <2>1 DEF Lag, Live, B2N
  <1>13. CASE FlushFails
    <2>1. written' = written /\ ~Live'
      BY <1>13 DEF FlushFails, Live, Base, Lifecycle
    <2>2. durable' >= durable
      BY <1>13, <1>a DEF SpillOf, FlushFails
    <2>3. QED
      BY <2>1, <2>2, SettledLag
  <1>14. CASE CountWritten
    <2>1. /\ worker = "count" /\ worker' = "wait" /\ written' = written + 1
          /\ UNCHANGED <<records, durable, sinceFlush>>
      BY <1>14 DEF CountWritten
    <2>2. Live /\ sinceFlush < FlushEvery
      BY <2>1 DEF Live, Base, Lifecycle
    <2>3. QED
      BY <1>a, <2>1, <2>2 DEF Lag, Live, B2N
  <1>15. CASE ReportFault
    BY <1>15, <1>a, SettledLag DEF Live, ReportFault
  <1>16. CASE Join
    BY <1>16, <1>a, SettledLag DEF Live, Join
  <1>17. CASE CloseStream
    <2>1. written' = written /\ ~Live'
      BY <1>17 DEF CloseStream, Live, Base, Lifecycle
    <2>2. durable' >= durable
      BY <1>17, <1>a DEF CloseStream
    <2>3. QED
      BY <2>1, <2>2, SettledLag
  <1>18. CASE CloseStreamFails
    <2>1. written' = written /\ ~Live'
      BY <1>18 DEF CloseStreamFails, Live, Base, Lifecycle
    <2>2. durable' >= durable
      BY <1>18, <1>a DEF SpillOf, CloseStreamFails
    <2>3. QED
      BY <2>1, <2>2, SettledLag
  <1>19. CASE CloseCsv
    BY <1>19, <1>a, SettledLag DEF Live, CloseCsv
  <1>20. CASE CloseCsvFails
    BY <1>20, <1>a, SettledLag DEF Live, CloseCsvFails
  <1>21. CASE RemoveManifest
    BY <1>21, <1>a, SettledLag DEF Live, RemoveManifest
  <1>22. CASE WriteManifestFails
    BY <1>22, <1>a, SettledLag DEF Live, WriteManifestFails
  <1>23. CASE RenameManifest
    BY <1>23, <1>a, SettledLag DEF Live, RenameManifest
  <1>24. CASE RenameFails
    BY <1>24, <1>a, SettledLag DEF Live, RenameFails
  <1>25. CASE CloseEnds
    BY <1>25, <1>a, SettledLag DEF Live, CloseEnds
  <1>26. CASE Crash
    BY <1>26, <1>a, SettledLag DEF Live, Crash
  <1>27. CASE UNCHANGED vars
    BY <1>27, <1>a, SettledLag DEF Live, vars
  <1>28. QED
    BY <1>1, <1>2, <1>3, <1>4, <1>5, <1>6, <1>7, <1>8, <1>9, <1>10, <1>11,
       <1>12, <1>13, <1>14, <1>15, <1>16, <1>17, <1>18, <1>19, <1>20, <1>21,
       <1>22, <1>23, <1>24, <1>25, <1>26, <1>27
       DEF Next, Produce, WorkerStep, CloseStep

(* A crash never costs FlushEvery or more results counted as written.      *)
THEOREM CrashLossIsBounded == Spec => []LossWindow
  <1>1. Init => Lag
    BY ConfigAssumption DEF Init, Lag, Live
  <1>2. Lag => LossWindow
    BY DEF Lag, LossWindow
  <1>3. QED
    BY <1>1, <1>2, InitBase, NextKeepsBase, NextKeepsLag, PTL DEF Spec

(* Closing is inductive: only a close that saw no error, of a session      *)
(* whose every accepted result was written and flushed, gets as far as     *)
(* marking it complete; and nothing is written after that.                 *)
LEMMA NextKeepsClosing == Base /\ Contents /\ Closing /\ [Next]_vars => Closing'
  <1> SUFFICES ASSUME Base, Base', Contents, Closing, [Next]_vars
               PROVE  Closing'
    BY NextKeepsBase
  <1> USE ConfigAssumption DEF control, counters, binary, csv, close
  <1>a. /\ enqueued \in Nat /\ durable \in Nat /\ Len(records) \in Nat
        /\ rows \in Nat /\ durable <= Len(records) /\ Len(records) <= enqueued
    BY Lengths DEF Contents
  <1>1. CASE Open
    BY <1>1, <1>a DEF Closing, Base, Lifecycle, Live, NewSession, Open
  <1>2. CASE OpenFails
    BY <1>2, <1>a DEF Closing, Base, Lifecycle, Live, NewSession, OpenFails
  <1>3. CASE CloseBegins
    BY <1>3, <1>a DEF Closing, Base, Lifecycle, Live, CloseBegins
  <1>4. CASE Enqueue
    BY <1>4, <1>a DEF Closing, Base, Lifecycle, Live, Enqueue
  <1>5. CASE Overrun
    BY <1>5, <1>a DEF Closing, Base, Lifecycle, Live, Overrun
  <1>6. CASE Take
    BY <1>6, <1>a DEF Closing, Base, Lifecycle, Live, Take
  <1>7. CASE WorkerExit
    BY <1>7, <1>a DEF Closing, Base, Lifecycle, Live, WorkerExit
  <1>8. CASE AppendRecord
    BY <1>8, <1>a DEF Closing, Base, Lifecycle, Live, SpillOf, AppendRecord
  <1>9. CASE AppendFails
    BY <1>9, <1>a DEF Closing, Base, Lifecycle, Live, SpillOf, AppendFails
  <1>10. CASE AppendRows
    BY <1>10, <1>a DEF Closing, Base, Lifecycle, Live, AppendRows
  <1>11. CASE AppendRowsFails
    BY <1>11, <1>a DEF Closing, Base, Lifecycle, Live, AppendRowsFails
  <1>12. CASE FlushRecords
    BY <1>12, <1>a DEF Closing, Base, Lifecycle, Live, FlushRecords
  <1>13. CASE FlushFails
    BY <1>13, <1>a DEF Closing, Base, Lifecycle, Live, SpillOf, FlushFails
  <1>14. CASE CountWritten
    BY <1>14, <1>a DEF Closing, Base, Lifecycle, Live, CountWritten
  <1>15. CASE ReportFault
    BY <1>15, <1>a DEF Closing, Base, Lifecycle, Live, ReportFault
  <1>16. CASE Join
    BY <1>16, <1>a DEF Closing, Base, Lifecycle, Live, Join
  <1>17. CASE CloseStream
    <2>1. /\ caller = "flush" /\ caller' = "csv" /\ ~streamOpen'
          /\ (streamOpen => ~badStream)
          /\ durable' = (IF streamOpen THEN Len(records) ELSE durable)
          /\ UNCHANGED <<records, enqueued, torn, rows, worker, manifest,
                         csvOpen, closeError, status>>
      BY <1>17 DEF CloseStream
    <2>2. worker = "none" /\ open
      BY <2>1 DEF Base, Lifecycle
    <2>3. manifest = "complete" => ~streamOpen
      BY DEF Closing
    <2>4. ASSUME ~closeError, status = "complete"
          PROVE  /\ durable' = enqueued /\ ~torn
                 /\ CsvEnabled => rows = enqueued
      <3>1. streamOpen /\ ~faulted /\ queue = <<>>
        BY <2>1, <2>2, <2>4 DEF Base, Lifecycle
      <3>2. Healthy /\ Len(queue) = 0
        BY <2>2, <3>1 DEF Healthy
      <3>3. Taken = Len(records) /\ B2N(worker = "csv") = 0
        BY <2>2, <1>a DEF Taken, B2N
      <3>4. enqueued = Len(records) /\ (CsvEnabled => rows = Len(records))
        BY <1>a, <3>2, <3>3 DEF Contents
      <3>5. ~torn
        BY <2>1, <3>1 DEF Closing
      <3>6. QED
        BY <2>1, <3>1, <3>4, <3>5
    <2>5. QED
      BY <2>1, <2>3, <2>4 DEF Closing
  <1>18. CASE CloseStreamFails
    BY <1>18, <1>a DEF Closing, Base, Lifecycle, Live, SpillOf,
       CloseStreamFails
  <1>19. CASE CloseCsv
    BY <1>19, <1>a DEF Closing, Base, Lifecycle, Live, CloseCsv
  <1>20. CASE CloseCsvFails
    BY <1>20, <1>a DEF Closing, Base, Lifecycle, Live, CloseCsvFails
  <1>21. CASE RemoveManifest
    BY <1>21, <1>a DEF Closing, Base, Lifecycle, Live, RemoveManifest
  <1>22. CASE WriteManifestFails
    BY <1>22, <1>a DEF Closing, Base, Lifecycle, Live, WriteManifestFails
  <1>23. CASE RenameManifest
    BY <1>23, <1>a DEF Closing, Base, Lifecycle, Live, RenameManifest
  <1>24. CASE RenameFails
    BY <1>24, <1>a DEF Closing, Base, Lifecycle, Live, RenameFails
  <1>25. CASE CloseEnds
    BY <1>25, <1>a DEF Closing, Base, Lifecycle, Live, CloseEnds
  <1>26. CASE Crash
    BY <1>26, <1>a DEF Closing, Base, Lifecycle, Live, Crash
  <1>27. CASE UNCHANGED vars
    BY <1>27 DEF Closing, vars
  <1>28. QED
    BY <1>1, <1>2, <1>3, <1>4, <1>5, <1>6, <1>7, <1>8, <1>9, <1>10, <1>11,
       <1>12, <1>13, <1>14, <1>15, <1>16, <1>17, <1>18, <1>19, <1>20, <1>21,
       <1>22, <1>23, <1>24, <1>25, <1>26, <1>27
       DEF Next, Produce, WorkerStep, CloseStep

(* Closing holds in every reachable state.                                 *)
THEOREM ClosingInvariant == Spec => [](Base /\ Contents /\ Closing)
  <1>1. Init => Closing
    BY DEF Init, Closing
  <1>2. QED
    BY <1>1, ContentsInvariant, NextKeepsClosing, PTL DEF Spec

(* A session that says it is complete is on disk completely.               *)
THEOREM CompleteIsDurable == Spec => []CompleteMeansDurable
  <1>1. Closing => CompleteMeansDurable
    BY DEF Closing, CompleteMeansDurable
  <1>2. QED
    BY <1>1, ClosingInvariant, PTL

-----------------------------------------------------------------------------
(* What the reader of the file finds.  It starts at the header and goes on  *)
(* from record to record: that it finds those from the place of the i-th    *)
(* last on is shown for the least i for which it might not be so.          *)

(* A byte is the record it was written for and its place in it.            *)
Byte == Nat \X Nat

(* Sizes are positive.                                                     *)
LEMMA Sizes ==
    /\ FileHeaderSize \in Nat /\ FileHeaderSize > 0 /\ RecordSize \in Nat
    /\ RecordHeaderSize \in 1 .. RecordSize - 1 /\ RecordHeaderSize \in Nat
    /\ PayloadSize \in Nat /\ PayloadSize > 0 /\ RecordSize = RecordHeaderSize + PayloadSize
BY ScanSizesAssumption DEF RecordSize

(* Quotient and remainder, which the prover uses only when they are named. *)
LEMMA QuotientAndRest ==
    \A n \in Nat, c \in Nat \ {0} : n = (n \div c) * c + (n % c) /\ n \div c \in Nat /\ n % c \in 0 .. c - 1
<1>1. \A n \in Nat, c \in Nat \ {0} : n = (n \div c) * c + (n % c)
  BY Z3
<1>2. \A n \in Nat, c \in Nat \ {0} : n % c \in 0 .. c - 1 /\ n \div c \in Int
  OBVIOUS
<1>3. \A n \in Nat, c \in Nat \ {0}, d \in Int : \A r \in 0 .. c - 1 : n = d * c + r => d \in Nat
  OBVIOUS
<1>4. ASSUME NEW n \in Nat, NEW c \in Nat \ {0}
      PROVE  n = (n \div c) * c + (n % c) /\ n \div c \in Nat /\ n % c \in 0 .. c - 1
  <2>1. n = (n \div c) * c + (n % c) /\ n % c \in 0 .. c - 1 /\ n \div c \in Int
    BY <1>1, <1>2
  <2>2. QED  BY <1>3, <2>1
<1>5. QED  BY <1>4

(* A position in the records is the record and the place in it.             *)
LEMMA PlaceInRecords ==
    ASSUME NEW R \in Nat \ {0}, NEW i \in Nat, NEW j \in 1 .. R
    PROVE  (i * R + j - 1) \div R = i /\ (i * R + j - 1) % R = j - 1
<1> DEFINE r == j - 1
<1>1. r \in 0 .. R - 1 /\ i * R \in Nat
  OBVIOUS
<1> HIDE DEF r
<1>2. \A c \in Nat \ {0}, q \in Nat : \A x \in 0 .. c - 1 : (q * c + x) % c = x /\ (q * c + x) \div c = q
  BY Z3
<1>3. i * R + j - 1 = i * R + r
  BY <1>1 DEF r
<1>4. (i * R + r) \div R = i /\ (i * R + r) % R = r
  BY <1>1, <1>2
<1>5. QED  BY <1>3, <1>4 DEF r

(* The bytes that append writes.                                           *)
LEMMA RecordBytesAre ==
    ASSUME NEW ns \in Seq(Nat)
    PROVE  /\ RecordBytes(ns) \in Seq(Byte) /\ Len(RecordBytes(ns)) = Len(ns) * RecordSize
           /\ Len(ns) * RecordSize \in Nat
           /\ \A i \in 0 .. Len(ns) - 1 : \A j \in 1 .. RecordSize :
                /\ i * RecordSize + j \in 1 .. Len(ns) * RecordSize
                /\ RecordBytes(ns)[i * RecordSize + j] = <<ns[i + 1], j>>
<1> DEFINE R == RecordSize
           n == Len(ns)
<1>1. R \in Nat \ {0} /\ n \in Nat /\ n * R \in Nat
  BY Sizes
<1>2. \A i \in 0 .. n - 1 : \A j \in 1 .. R : i * R + j \in 1 .. n * R
  <2> SUFFICES ASSUME NEW i \in 0 .. n - 1, NEW j \in 1 .. R PROVE i * R + j \in 1 .. n * R
    OBVIOUS
  <2>1. i * R \in Nat /\ i * R + R = (i + 1) * R
    BY <1>1
  <2>2. \A a, b, c \in Nat : a <= b => a * c <= b * c
    BY Z3
  <2>3. (i + 1) * R <= n * R
    BY <1>1, <2>2
  <2>4. QED  BY <1>1, <2>1, <2>3
<1>3. ASSUME NEW i \in 0 .. n - 1, NEW j \in 1 .. R
      PROVE  RecordBytes(ns)[i * R + j] = <<ns[i + 1], j>>
  <2>1. i \in Nat /\ i * R \in Nat
    BY <1>1
  <2>2. (i * R + j - 1) \div R = i /\ (i * R + j - 1) % R = j - 1
    <3> HIDE DEF R
    <3>1. QED  BY <1>1, <2>1, PlaceInRecords
  <2>3. PICK k \in 1 .. n * R : k = i * R + j
    BY <1>2
  <2>4. RecordBytes(ns)[k] = Record(ns[((k - 1) \div R) + 1])[((k - 1) % R) + 1]
    BY <2>3 DEF RecordBytes
  <2>5. k - 1 = i * R + j - 1
    <3> HIDE DEF R
    <3>1. QED  BY <2>1, <2>3, <1>1
  <2>6. (k - 1) \div R = i /\ (k - 1) % R = j - 1
    <3> HIDE DEF R
    <3>1. QED  BY <2>2, <2>5
  <2>7. RecordBytes(ns)[k] = Record(ns[i + 1])[j - 1 + 1]
    BY <2>4, <2>6
  <2>8. j - 1 + 1 = j
    OBVIOUS
  <2>9. RecordBytes(ns)[k] = <<ns[i + 1], j>>
    BY <2>7, <2>8 DEF Record
  <2>10. QED  BY <2>3, <2>9
<1>4. ASSUME NEW k \in 1 .. n * R
      PROVE  Record(ns[((k - 1) \div R) + 1])[((k - 1) % R) + 1] \in Byte
  <2> DEFINE q == (k - 1) \div R
             r == (k - 1) % R
  <2>1. k - 1 \in Nat
    BY <1>1
  <2>3. k - 1 = q * R + r /\ q \in Nat /\ r \in 0 .. R - 1
    <3> HIDE DEF R
    <3>1. QED  BY <1>1, <2>1, QuotientAndRest
  <2> HIDE DEF q, r
  <2>4. q < n
    <3>1. \A a, b, c \in Nat : b <= a => b * c <= a * c
      BY Z3
    <3>2. q * R <= k - 1 /\ k - 1 < n * R /\ q * R \in Nat
      BY <1>1, <2>3
    <3>3. ~(n * R <= q * R)
      BY <1>1, <3>2
    <3>4. QED  BY <1>1, <2>3, <3>1, <3>3
  <2>5. ns[q + 1] \in Nat /\ r + 1 \in 1 .. R
    BY <1>1, <2>3, <2>4
  <2>6. Record(ns[q + 1])[r + 1] = <<ns[q + 1], r + 1>>
    BY <2>5 DEF Record
  <2>7. QED  BY <2>5, <2>6, <1>1 DEF Byte, q, r
<1>5. RecordBytes(ns) \in Seq(Byte) /\ Len(RecordBytes(ns)) = n * R
  BY <1>1, <1>4 DEF RecordBytes
<1>6. QED  BY <1>1, <1>2, <1>3, <1>5

(* The n bytes after two positions agree.                                   *)
Agree(s, a, t, b, n) == \A j \in 1 .. n : s[a + j] = t[b + j]

(* Two pieces of as many bytes that agree are the same.                     *)
LEMMA SameSlice ==
    ASSUME NEW s \in Seq(Byte), NEW t \in Seq(Byte), NEW a \in Nat, NEW b \in Nat, NEW n \in Nat,
           a + n <= Len(s), b + n <= Len(t), Agree(s, a, t, b, n)
    PROVE  SubSeq(s, a + 1, a + n) = SubSeq(t, b + 1, b + n)
<1>1. \A i \in (a + 1) .. (a + n) : s[i] \in Byte
  OBVIOUS
<1>2. \A i \in (b + 1) .. (b + n) : t[i] \in Byte
  OBVIOUS
<1> DEFINE u == SubSeq(s, a + 1, a + n)
           v == SubSeq(t, b + 1, b + n)
<1>3. u \in Seq(Byte) /\ Len(u) = n /\ \A j \in 1 .. n : u[j] = s[a + j]
  <2>1. /\ u \in Seq(Byte) /\ Len(u) = IF a + 1 <= a + n THEN a + n - (a + 1) + 1 ELSE 0
        /\ \A j \in 1 .. a + n - (a + 1) + 1 : u[j] = s[a + 1 + j - 1]
    BY <1>1, SubSeqProperties
  <2> HIDE DEF u
  <2>2. a + n - (a + 1) + 1 = n /\ Len(u) = n /\ \A j \in 1 .. n : a + 1 + j - 1 = a + j
    BY <2>1
  <2>3. QED  BY <2>1, <2>2
<1>4. v \in Seq(Byte) /\ Len(v) = n /\ \A j \in 1 .. n : v[j] = t[b + j]
  <2>1. /\ v \in Seq(Byte) /\ Len(v) = IF b + 1 <= b + n THEN b + n - (b + 1) + 1 ELSE 0
        /\ \A j \in 1 .. b + n - (b + 1) + 1 : v[j] = t[b + 1 + j - 1]
    BY <1>2, SubSeqProperties
  <2> HIDE DEF v
  <2>2. b + n - (b + 1) + 1 = n /\ Len(v) = n /\ \A j \in 1 .. n : b + 1 + j - 1 = b + j
    BY <2>1
  <2>3. QED  BY <2>1, <2>2
<1> HIDE DEF u, v
<1>5. u = v
  BY <1>3, <1>4, SeqEqual DEF Agree
<1>6. QED  BY <1>5 DEF u, v

(* The bytes of a record are.                                              *)
LEMMA RecordIs ==
    ASSUME NEW n \in Nat
    PROVE  Record(n) \in Seq(Byte) /\ Len(Record(n)) = RecordSize
             /\ \A j \in 1 .. RecordSize : Record(n)[j] = <<n, j>>
BY Sizes DEF Record, Byte

(* A record all of whose bytes are there is found.                          *)
LEMMA WholeRecordIsFound ==
    ASSUME NEW file \in Seq(Byte), NEW at \in Nat, NEW n \in Nat \ {0},
           at + RecordSize <= Len(file),
           \A j \in 1 .. RecordSize : file[at + j] = <<n, j>>
    PROVE  WholeRecordAt(file, at) /\ file[at + 1][1] = n
<1>1. file[at + 1][1] = n
  BY Sizes
<1>2. ReadExact(file, at, RecordHeaderSize) /\ ReadExact(file, at + RecordHeaderSize, PayloadSize)
  BY Sizes DEF ReadExact
<1>3. SubSeq(file, at + 1, at + RecordHeaderSize) = SubSeq(Record(n), 1, RecordHeaderSize)
  <2>1. \A j \in 1 .. RecordHeaderSize : file[at + j] = Record(n)[0 + j]
    <3> SUFFICES ASSUME NEW j \in 1 .. RecordHeaderSize PROVE file[at + j] = Record(n)[0 + j]
      OBVIOUS
    <3>1. j \in 1 .. RecordSize /\ 0 + j = j
      BY Sizes
    <3>2. QED  BY <3>1, RecordIs
  <2>2. at + RecordHeaderSize <= Len(file) /\ 0 + RecordHeaderSize <= Len(Record(n))
    BY Sizes, RecordIs
  <2>3. SubSeq(file, at + 1, at + RecordHeaderSize) = SubSeq(Record(n), 0 + 1, 0 + RecordHeaderSize)
    BY <2>1, <2>2, Sizes, RecordIs, SameSlice DEF Agree
  <2>4. QED  BY <2>3, Sizes
<1>4. SubSeq(file, at + RecordHeaderSize + 1, at + RecordSize)
        = SubSeq(Record(n), RecordHeaderSize + 1, RecordSize)
  <2> DEFINE h == RecordHeaderSize
             p == PayloadSize
  <2>1. \A j \in 1 .. p : file[at + h + j] = Record(n)[h + j]
    <3> SUFFICES ASSUME NEW j \in 1 .. p PROVE file[at + h + j] = Record(n)[h + j]
      OBVIOUS
    <3>1. h + j \in 1 .. RecordSize /\ at + h + j = at + (h + j)
      BY Sizes
    <3>2. QED  BY <3>1, RecordIs
  <2>2. at + h \in Nat /\ h \in Nat /\ p \in Nat /\ at + h + p <= Len(file) /\ h + p <= Len(Record(n))
          /\ at + h + p = at + RecordSize /\ h + p = RecordSize
    BY Sizes, RecordIs
  <2>3. Record(n) \in Seq(Byte)
    BY RecordIs
  <2> HIDE DEF h, p
  <2>4. SubSeq(file, at + h + 1, at + h + p) = SubSeq(Record(n), h + 1, h + p)
    <3> DEFINE c == at + h
    <3>1. c \in Nat /\ c + p <= Len(file) /\ Agree(file, c, Record(n), h, p)
      BY <2>1, <2>2 DEF Agree
    <3> HIDE DEF c
    <3>2. SubSeq(file, c + 1, c + p) = SubSeq(Record(n), h + 1, h + p)
      BY <2>2, <2>3, <3>1, SameSlice
    <3>3. QED  BY <3>2 DEF c
  <2>5. QED  BY <2>2, <2>4 DEF h
<1>5. QED  BY <1>1, <1>2, <1>3, <1>4 DEF WholeRecordAt, HeaderAt, PayloadAt

(* One of which bytes are missing is not.                                   *)
LEMMA CutRecordIsNotFound ==
    ASSUME NEW file \in Seq(Byte), NEW at \in Nat, Len(file) < at + RecordSize
    PROVE  ~WholeRecordAt(file, at)
BY Sizes DEF WholeRecordAt, ReadExact

(* A set of naturals has a least one.                                      *)
LEMMA LeastNumber ==
    ASSUME NEW N \in SUBSET Nat, N # {}
    PROVE  \E m \in N : \A k \in N : m <= k
<1>1. PICK m \in N : \A k \in N : ~(<<k, m>> \in OpToRel(<, Nat))
  BY NatLessThanWellFounded, WFMin
<1>2. \A k \in N : ~(k < m)
  BY <1>1 DEF OpToRel
<1>3. QED  BY <1>2

(* What the scan returns from a position on, of what it returns further on. *)
From(g, file, at) ==
    IF at = Len(file) THEN Recovered(<<>>, at, FALSE)
    ELSE IF WholeRecordAt(file, at)
    THEN [g[at + RecordSize] EXCEPT !.results = <<file[at + 1][1]>> \o @]
    ELSE Recovered(<<>>, at, TRUE)
Scans(g, file) == g = [at \in 0 .. Len(file) |-> From(g, file, at)]

(* There is such a function: on the positions up to n bytes before the end  *)
(* it gives the one on those up to n + 1 before it.                        *)
LEMMA ScansExist ==
    ASSUME NEW file \in Seq(Byte)
    PROVE  \E g : Scans(g, file)
<1> DEFINE L == Len(file)
           Upto(n) == {at \in 0 .. L : L - at <= n}
           Good(n) == \E g : g = [at \in Upto(n) |-> From(g, file, at)]
           bad == {n \in Nat : ~Good(n)}
<1>1. L \in Nat
  OBVIOUS
<1>2. Good(0)
  <2> DEFINE g == [at \in Upto(0) |-> Recovered(<<>>, at, FALSE)]
  <2>1. \A at \in Upto(0) : at = L
    OBVIOUS
  <2>2. g = [at \in Upto(0) |-> From(g, file, at)]
    BY <2>1 DEF From
  <2>3. QED  BY <2>2
<1>3. ASSUME NEW n \in Nat, Good(n) PROVE Good(n + 1)
  <2>1. PICK g : g = [at \in Upto(n) |-> From(g, file, at)]
    BY <1>3
  <2> DEFINE h == [at \in Upto(n + 1) |-> From(g, file, at)]
  <2>2. ASSUME NEW at \in Upto(n + 1), WholeRecordAt(file, at)
        PROVE  h[at + RecordSize] = g[at + RecordSize]
    <3> DEFINE t == at + RecordSize
    <3>1. t \in Nat /\ t <= L /\ L - t <= n
      BY <2>2, Sizes DEF WholeRecordAt, ReadExact
    <3>2. t \in Upto(n) /\ t \in Upto(n + 1)
      BY <3>1
    <3> HIDE DEF t, Upto
    <3>3. h[t] = From(g, file, t) /\ g[t] = From(g, file, t)
      BY <2>1, <3>2
    <3>4. QED  BY <3>3 DEF t
  <2>3. h = [at \in Upto(n + 1) |-> From(h, file, at)]
    <3> HIDE DEF Upto
    <3>1. \A at \in Upto(n + 1) : From(g, file, at) = From(h, file, at)
      <4> HIDE DEF h
      <4>1. QED  BY <2>2 DEF From
    <3>2. QED  BY <3>1
  <2>4. QED  BY <2>3
<1> HIDE DEF Good
<1>4. bad = {}
  <2> SUFFICES ASSUME bad # {} PROVE FALSE
    OBVIOUS
  <2>1. PICK m \in bad : \A k \in bad : m <= k
    BY LeastNumber
  <2>2. m \in Nat /\ m # 0
    BY <1>2
  <2>3. m - 1 \in Nat /\ m - 1 \notin bad
    BY <2>1, <2>2
  <2>4. Good(m - 1)
    BY <2>3
  <2>5. Good(m - 1 + 1) /\ m - 1 + 1 = m
    BY <1>3, <2>2, <2>3, <2>4
  <2>6. Good(m)
    BY <2>5
  <2>7. QED  BY <2>1, <2>6
<1>5. Good(L)
  BY <1>1, <1>4
<1>6. Upto(L) = 0 .. L
  BY <1>1
<1>7. QED  BY <1>5, <1>6 DEF Good, Scans

(* Behind a whole header, the scan is that function.                        *)
LEMMA ScanIs ==
    ASSUME NEW file \in Seq(Byte), FileHeaderSize <= Len(file),
           SubSeq(file, 1, FileHeaderSize) = FileHeader
    PROVE  \E g : Scans(g, file) /\ Scan(file) = g[FileHeaderSize]
<1> DEFINE g == CHOOSE h : h = [at \in 0 .. Len(file) |->
                    IF at = Len(file) THEN Recovered(<<>>, at, FALSE)
                    ELSE IF WholeRecordAt(file, at)
                    THEN [h[at + RecordSize] EXCEPT !.results = <<file[at + 1][1]>> \o @]
                    ELSE Recovered(<<>>, at, TRUE)]
<1>1. ReadExact(file, 0, FileHeaderSize)
  BY Sizes DEF ReadExact
<1>2. Scan(file) = g[FileHeaderSize]
  BY <1>1 DEF Scan
<1>3. \E h : h = [at \in 0 .. Len(file) |->
                    IF at = Len(file) THEN Recovered(<<>>, at, FALSE)
                    ELSE IF WholeRecordAt(file, at)
                    THEN [h[at + RecordSize] EXCEPT !.results = <<file[at + 1][1]>> \o @]
                    ELSE Recovered(<<>>, at, TRUE)]
  BY ScansExist DEF Scans, From
<1>4. Scans(g, file)
  BY <1>3 DEF Scans, From
<1>5. QED  BY <1>2, <1>4

(* Without one nothing is.                                                 *)
LEMMA NothingWithoutHeader ==
    ASSUME NEW file \in Seq(Byte), Len(file) < FileHeaderSize
    PROVE  Scan(file) = Recovered(<<>>, 0, TRUE)
<1>1. ~ReadExact(file, 0, FileHeaderSize)
  BY Sizes DEF ReadExact
<1>2. QED  BY <1>1 DEF Scan

(* What a scan from a position returns accounts for the rest of the file.   *)
Accounts(r, file, at) ==
    /\ r.results \in Seq(Nat) /\ r.damaged \in BOOLEAN
    /\ r.validBytes = at + Len(r.results) * RecordSize
    /\ r.validBytes <= Len(file)
    /\ r.damaged <=> r.validBytes < Len(file)
    /\ r.damaged => ~WholeRecordAt(file, r.validBytes)
    /\ \A i \in 1 .. Len(r.results) :
         /\ WholeRecordAt(file, at + (i - 1) * RecordSize)
         /\ r.results[i] = file[at + (i - 1) * RecordSize + 1][1]

(* A record in front of what is accounted for is, too.                      *)
LEMMA OneMoreAccounted ==
    ASSUME NEW file \in Seq(Byte), NEW at \in Nat, NEW r, WholeRecordAt(file, at),
           r = Recovered(r.results, r.validBytes, r.damaged),
           Accounts(r, file, at + RecordSize)
    PROVE  LET s == [r EXCEPT !.results = <<file[at + 1][1]>> \o @]
           IN  s = Recovered(s.results, s.validBytes, s.damaged) /\ Accounts(s, file, at)
<1> DEFINE R == RecordSize
           first == file[at + 1][1]
           more == <<first>> \o r.results
           n == Len(r.results)
           s == Recovered(more, r.validBytes, r.damaged)
<1>1. R \in Nat \ {0} /\ at + R <= Len(file)
  BY Sizes DEF WholeRecordAt, ReadExact
<1>2. first \in Nat
  <2>1. at + 1 \in 1 .. Len(file)
    BY <1>1
  <2>2. file[at + 1] \in Nat \X Nat
    BY <2>1 DEF Byte
  <2>3. QED  BY <2>2
<1>3. r.results \in Seq(Nat) /\ n \in Nat /\ r.validBytes = at + R + n * R
  BY DEF Accounts
<1> HIDE DEF first
<1>4. /\ more \in Seq(Nat) /\ Len(more) = n + 1
      /\ \A i \in 1 .. n + 1 : more[i] = IF i = 1 THEN first ELSE r.results[i - 1]
  <2>1. <<first>> \in Seq(Nat) /\ Len(<<first>>) = 1 /\ <<first>>[1] = first
    BY <1>2
  <2>2. more \in Seq(Nat) /\ Len(more) = 1 + n
    BY <1>3, <2>1, ConcatProperties
  <2>3. \A i \in 1 .. 1 + n : more[i] = IF i <= 1 THEN <<first>>[i] ELSE r.results[i - 1]
    BY <1>3, <2>1, ConcatProperties
  <2> HIDE DEF more
  <2>4. QED  BY <1>3, <2>1, <2>2, <2>3
<1> HIDE DEF more
<1>5. s.results = more /\ s.validBytes = r.validBytes /\ s.damaged = r.damaged
  BY DEF Recovered
<1>6. (n + 1) * R = R + n * R
  BY <1>1, <1>3
<1>7. ASSUME NEW i \in 1 .. n + 1
      PROVE  WholeRecordAt(file, at + (i - 1) * R) /\ more[i] = file[at + (i - 1) * R + 1][1]
  <2>1. CASE i = 1
    <3>1. (i - 1) * R = 0
      BY <1>1, <2>1
    <3>2. at + (i - 1) * R = at
      BY <3>1
    <3>3. more[i] = first
      BY <1>4, <2>1
    <3>4. QED  BY <3>2, <3>3 DEF first
  <2>2. CASE i # 1
    <3>1. i - 1 \in 1 .. n
      BY <1>3, <2>2
    <3>2. PICK k \in 1 .. n : k = i - 1
      BY <3>1
    <3>3. WholeRecordAt(file, at + R + (k - 1) * R) /\ r.results[k] = file[at + R + (k - 1) * R + 1][1]
      BY <1>3 DEF Accounts
    <3>4. R + (k - 1) * R = k * R
      BY <1>1
    <3>5. (k - 1) * R \in Int /\ k * R \in Int
      BY <1>1
    <3>6. at + R + (k - 1) * R = at + k * R
      BY <1>1, <3>4, <3>5
    <3>7. more[i] = r.results[k]
      BY <1>4, <2>2, <3>2
    <3>8. QED  BY <3>2, <3>3, <3>6, <3>7
  <2>3. QED  BY <2>1, <2>2
<1>8. s.validBytes = at + Len(s.results) * R
  <2>1. Len(s.results) = n + 1
    BY <1>4, <1>5
  <2>2. Len(s.results) * R = R + n * R
    BY <1>6, <2>1
  <2>3. s.validBytes = at + R + n * R
    BY <1>3, <1>5
  <2>4. \A q \in Int : at + (R + q) = at + R + q
    BY <1>1
  <2>5. n * R \in Int
    BY <1>1, <1>3
  <2> HIDE DEF s
  <2>6. QED  BY <2>2, <2>3, <2>4, <2>5
<1>9. Accounts(s, file, at)
  <2>1. s.results \in Seq(Nat) /\ s.damaged \in BOOLEAN /\ s.validBytes <= Len(file)
          /\ (s.damaged <=> s.validBytes < Len(file))
          /\ (s.damaged => ~WholeRecordAt(file, s.validBytes))
    BY <1>4, <1>5 DEF Accounts
  <2>2. \A i \in 1 .. Len(s.results) :
          WholeRecordAt(file, at + (i - 1) * R) /\ s.results[i] = file[at + (i - 1) * R + 1][1]
    BY <1>4, <1>5, <1>7
  <2> HIDE DEF s
  <2>3. QED  BY <1>8, <2>1, <2>2 DEF Accounts
<1>10. [r EXCEPT !.results = <<file[at + 1][1]>> \o @] = s
  <2>1. \A y, z, v, w : [Recovered(y, v, w) EXCEPT !.results = z] = Recovered(z, v, w)
    BY DEF Recovered
  <2>2. [r EXCEPT !.results = <<file[at + 1][1]>> \o @] = [r EXCEPT !.results = more]
    BY DEF more, first
  <2>3. QED  BY <2>1, <2>2
<1>11. s = Recovered(s.results, s.validBytes, s.damaged)
  BY <1>5
<1> HIDE DEF s
<1>12. QED  BY <1>9, <1>10, <1>11

(* Of any file behind a header, whatever its bytes, the scan returns the    *)
(* whole records from the header on, each from its own place, and the byte  *)
(* after them; it reports damage exactly when bytes are left over, and the  *)
(* bytes there are then no whole record.                                   *)
THEOREM ScanAccountsForTheFile ==
    ASSUME NEW file \in Seq(Byte), FileHeaderSize <= Len(file),
           SubSeq(file, 1, FileHeaderSize) = FileHeader
    PROVE  Accounts(Scan(file), file, FileHeaderSize)
<1> DEFINE L == Len(file)
<1>1. L \in Nat /\ FileHeaderSize \in 0 .. L
  BY Sizes
<1>2. PICK g : Scans(g, file) /\ Scan(file) = g[FileHeaderSize]
  BY ScanIs
<1> DEFINE Good(at) == /\ g[at] = Recovered(g[at].results, g[at].validBytes, g[at].damaged)
                       /\ Accounts(g[at], file, at)
           bad == {n \in 0 .. L : ~Good(L - n)}
<1>3. \A at \in 0 .. L : g[at] = From(g, file, at)
  BY <1>2 DEF Scans
<1>4. ASSUME NEW at \in 0 .. L, NEW b \in BOOLEAN, g[at] = Recovered(<<>>, at, b),
             b <=> at < L, b => ~WholeRecordAt(file, at)
      PROVE  Good(at)
  <2>1. g[at].results = <<>> /\ g[at].validBytes = at /\ g[at].damaged = b
    BY <1>4 DEF Recovered
  <2>2. \A s \in {<<>>} : s \in Seq(Nat) /\ Len(s) = 0
    OBVIOUS
  <2>3. g[at].results \in Seq(Nat) /\ Len(g[at].results) = 0
    BY <2>1, <2>2
  <2>4. Len(g[at].results) * RecordSize = 0
    BY <2>3, Sizes
  <2>5. at = at + Len(g[at].results) * RecordSize
    BY <2>4
  <2>6. QED  BY <1>4, <2>1, <2>3, <2>5 DEF Accounts
<1>5. ASSUME NEW at \in 0 .. L, at + RecordSize <= L => Good(at + RecordSize)
      PROVE  Good(at)
  <2>1. CASE at = L
    <3>1. g[at] = Recovered(<<>>, at, FALSE)
      BY <1>3, <2>1 DEF From
    <3>2. ~(at < L)
      BY <1>1, <2>1
    <3> HIDE DEF Good
    <3>3. QED  BY <1>4, <3>1, <3>2
  <2>2. CASE at # L /\ ~WholeRecordAt(file, at)
    <3>1. g[at] = Recovered(<<>>, at, TRUE)
      BY <1>3, <2>2 DEF From
    <3>2. at < L
      BY <1>1, <2>2
    <3> HIDE DEF Good
    <3>3. QED  BY <1>4, <2>2, <3>1, <3>2
  <2>3. CASE at # L /\ WholeRecordAt(file, at)
    <3>1. at + RecordSize <= L
      BY <2>3, Sizes DEF WholeRecordAt, ReadExact
    <3>2. g[at] = [g[at + RecordSize] EXCEPT !.results = <<file[at + 1][1]>> \o @]
      BY <1>3, <2>3 DEF From
    <3>3. Good(at + RecordSize)
      BY <1>5, <3>1
    <3>4. at \in Nat
      OBVIOUS
    <3> DEFINE r == g[at + RecordSize]
               s == [r EXCEPT !.results = <<file[at + 1][1]>> \o @]
    <3>5. r = Recovered(r.results, r.validBytes, r.damaged) /\ Accounts(r, file, at + RecordSize)
      BY <3>3
    <3>6. g[at] = s
      BY <3>2
    <3> HIDE DEF r
    <3>7. s = Recovered(s.results, s.validBytes, s.damaged) /\ Accounts(s, file, at)
      BY <2>3, <3>4, <3>5, OneMoreAccounted
    <3> HIDE DEF s
    <3>8. QED  BY <3>6, <3>7
  <2>4. QED  BY <2>1, <2>2, <2>3
<1> HIDE DEF Good
<1>6. bad = {}
  <2> SUFFICES ASSUME bad # {} PROVE FALSE
    OBVIOUS
  <2>1. bad \in SUBSET Nat
    OBVIOUS
  <2>2. PICK m \in bad : \A k \in bad : m <= k
    BY <2>1, LeastNumber
  <2>3. m \in 0 .. L /\ ~Good(L - m)
    OBVIOUS
  <2>4. ASSUME L - m + RecordSize <= L PROVE Good(L - m + RecordSize)
    <3>1. PICK k \in 0 .. L : k = m - RecordSize
      BY <1>1, <2>3, <2>4, Sizes
    <3>2. k < m
      BY <2>3, <3>1, Sizes
    <3>3. k \notin bad
      BY <2>2, <2>3, <3>2
    <3>4. Good(L - k)
      BY <3>3
    <3>5. L - k = L - m + RecordSize
      BY <1>1, <2>3, <3>1, Sizes
    <3>6. QED  BY <3>4, <3>5
  <2>5. L - m \in 0 .. L
    BY <1>1, <2>3
  <2>6. Good(L - m)
    BY <1>5, <2>4, <2>5
  <2>7. QED  BY <2>3, <2>6
<1>7. Good(FileHeaderSize)
  <2>1. L - FileHeaderSize \in 0 .. L /\ L - (L - FileHeaderSize) = FileHeaderSize
    BY <1>1
  <2>2. Good(L - (L - FileHeaderSize))
    BY <1>6, <2>1
  <2>3. QED  BY <2>1, <2>2
<1>8. QED  BY <1>2, <1>7 DEF Good

(* The first numbers, and the last i of the first d.                        *)
First(d) == [m \in 1 .. d |-> m]
LastOf(d, i) == [m \in 1 .. i |-> d - i + m]

(* A file that holds records 1 to d and then less than one.                 *)
Holds(file, d, t) ==
    /\ Len(file) = FileHeaderSize + d * RecordSize + t
    /\ \A i \in 0 .. d - 1 : \A j \in 1 .. RecordSize :
         file[FileHeaderSize + i * RecordSize + j] = <<i + 1, j>>

(* From the place of each of its records on the scan finds the records from *)
(* there on, by induction from the last.                                   *)
LEMMA ScanFinds ==
    ASSUME NEW file \in Seq(Byte), NEW d \in Nat, NEW t \in 0 .. RecordSize - 1, NEW g,
           Holds(file, d, t), Scans(g, file)
    PROVE  g[FileHeaderSize] = Recovered(First(d), FileHeaderSize + d * RecordSize, t # 0)
<1> DEFINE H == FileHeaderSize
           R == RecordSize
           At(i) == H + (d - i) * R
           Good(i) == g[At(i)] = Recovered(LastOf(d, i), H + d * R, t # 0)
           bad == {i \in 0 .. d : ~Good(i)}
<1>1. H \in Nat \ {0} /\ R \in Nat \ {0} /\ d * R \in Nat /\ t \in Nat /\ t < R
  BY Sizes
<1>2. Len(file) = H + d * R + t
  BY DEF Holds
<1>3. \A at \in 0 .. Len(file) : g[at] = From(g, file, at)
  BY DEF Scans
<1>4. Good(0)
  <2> DEFINE e == H + d * R
  <2>1. At(0) = e
    BY <1>1
  <2>2. e \in Nat /\ Len(file) = e + t /\ e \in 0 .. Len(file)
    BY <1>1, <1>2
  <2>3. LastOf(d, 0) = <<>>
    BY DEF LastOf
  <2> HIDE DEF e
  <2>4. From(g, file, e) = Recovered(<<>>, e, t # 0)
    <3>1. CASE t = 0
      <4>1. e = Len(file)
        BY <3>1, <2>2
      <4>2. QED  BY <3>1, <4>1 DEF From
    <3>2. CASE t # 0
      <4>1. e # Len(file) /\ Len(file) < e + R
        BY <3>2, <1>1, <2>2
      <4>2. ~WholeRecordAt(file, e)
        BY <4>1, <2>2, CutRecordIsNotFound
      <4>3. QED  BY <3>2, <4>1, <4>2 DEF From
    <3>3. QED  BY <3>1, <3>2
  <2>5. QED  BY <1>3, <2>1, <2>2, <2>3, <2>4 DEF e
<1>5. ASSUME NEW i \in 0 .. d - 1, Good(i) PROVE Good(i + 1)
  <2> DEFINE k == d - (i + 1)
             at == H + k * R
  <2>1. k \in 0 .. d - 1 /\ k + 1 = d - i /\ k + 1 \in Nat \ {0} /\ k \in Nat
    OBVIOUS
  <2>2. k * R \in Nat /\ (k + 1) * R = k * R + R
    BY <1>1, <2>1
  <2>3. (k + 1) * R <= d * R
    <3>1. \A a, b, c \in Nat : a <= b => a * c <= b * c
      BY Z3
    <3>2. k + 1 <= d
      BY <2>1
    <3>3. QED  BY <1>1, <2>1, <3>1, <3>2
  <2>4. At(i + 1) = at /\ At(i) = at + R
    <3>1. At(i) = H + (k + 1) * R
      BY <2>1
    <3> HIDE DEF k
    <3>2. QED  BY <3>1, <2>2, <1>1 DEF k
  <2> HIDE DEF k
  <2>5. at \in Nat /\ at + R <= Len(file) /\ at \in 0 .. Len(file) /\ at # Len(file)
    BY <1>1, <1>2, <2>2, <2>3
  <2>6. \A j \in 1 .. R : file[at + j] = <<k + 1, j>>
    BY <2>1 DEF Holds
  <2> HIDE DEF at
  <2>7. WholeRecordAt(file, at) /\ file[at + 1][1] = k + 1
    BY <2>1, <2>5, <2>6, WholeRecordIsFound
  <2>8. g[at] = [g[at + R] EXCEPT !.results = <<k + 1>> \o @]
    BY <1>3, <2>5, <2>7 DEF From
  <2>9. g[at + R] = Recovered(LastOf(d, i), H + d * R, t # 0)
    BY <1>5, <2>4
  <2>10. g[at] = Recovered(<<k + 1>> \o LastOf(d, i), H + d * R, t # 0)
    <3>1. \A y, z, v, w : [Recovered(y, v, w) EXCEPT !.results = z] = Recovered(z, v, w)
                             /\ Recovered(y, v, w).results = y
      BY DEF Recovered
    <3>2. g[at] = [g[at + R] EXCEPT !.results = <<k + 1>> \o g[at + R].results]
      BY <2>8
    <3> DEFINE L == LastOf(d, i)
               more == <<k + 1>> \o L
    <3>3. g[at + R].results = L
      BY <2>9, <3>1
    <3> HIDE DEF L
    <3>4. g[at] = [Recovered(L, H + d * R, t # 0) EXCEPT !.results = more]
      BY <2>9, <3>2, <3>3 DEF L
    <3> HIDE DEF more
    <3>5. g[at] = Recovered(more, H + d * R, t # 0)
      BY <3>1, <3>4
    <3>6. QED  BY <3>5 DEF L, more
  <2>11. <<k + 1>> \o LastOf(d, i) = LastOf(d, i + 1)
    <3>1. k + 1 = d - i /\ i \in Nat /\ d - i \in Nat
      BY <2>1
    <3>2. LastOf(d, i) \in Seq(Nat) /\ Len(LastOf(d, i)) = i
      BY <3>1 DEF LastOf
    <3>3. LastOf(d, i + 1) \in Seq(Nat) /\ Len(LastOf(d, i + 1)) = i + 1
      BY <3>1 DEF LastOf
    <3>4. <<k + 1>> \in Seq(Nat) /\ Len(<<k + 1>>) = 1 /\ <<k + 1>>[1] = k + 1
      BY <2>1
    <3>5. /\ <<k + 1>> \o LastOf(d, i) \in Seq(Nat) /\ Len(<<k + 1>> \o LastOf(d, i)) = i + 1
          /\ \A m \in 1 .. i + 1 : (<<k + 1>> \o LastOf(d, i))[m]
                                      = IF m <= 1 THEN <<k + 1>>[m] ELSE LastOf(d, i)[m - 1]
      BY <3>1, <3>2, <3>4, ConcatProperties
    <3>6. \A m \in 1 .. i + 1 : LastOf(d, i + 1)[m] = d - (i + 1) + m
      BY DEF LastOf
    <3>7. \A m \in 2 .. i + 1 : LastOf(d, i)[m - 1] = d - i + (m - 1)
      BY DEF LastOf
    <3>8. \A m \in 1 .. i + 1 : (<<k + 1>> \o LastOf(d, i))[m] = LastOf(d, i + 1)[m]
      BY <3>1, <3>4, <3>5, <3>6, <3>7
    <3>9. QED  BY <3>3, <3>5, <3>8, SeqEqual
  <2>12. QED  BY <2>4, <2>10, <2>11
<1> HIDE DEF Good
<1>6. bad = {}
  <2> SUFFICES ASSUME bad # {} PROVE FALSE
    OBVIOUS
  <2>1. bad \in SUBSET Nat
    OBVIOUS
  <2>2. PICK m \in bad : \A k \in bad : m <= k
    BY <2>1, LeastNumber
  <2>3. m \in 0 .. d /\ m # 0
    BY <1>4
  <2>4. m - 1 \in 0 .. d - 1 /\ m - 1 \notin bad /\ m - 1 + 1 = m
    BY <2>2, <2>3
  <2>5. Good(m - 1)
    BY <2>4
  <2>6. Good(m - 1 + 1)
    BY <1>5, <2>4, <2>5
  <2>7. QED  BY <2>2, <2>4, <2>6
<1>7. Good(d)
  BY <1>6
<1>8. LastOf(d, d) = First(d)
  BY DEF LastOf, First
<1>9. (d - d) * R = 0
  BY <1>1
<1>10. At(d) = H
  BY <1>1, <1>9
<1>11. QED  BY <1>7, <1>8, <1>10 DEF Good

(* The header, records 1 to d, and the bytes that follow.                   *)
LEMMA ScanOfFile ==
    ASSUME NEW d \in Nat, NEW tail \in Seq(Byte), Len(tail) < RecordSize
    PROVE  Scan((FileHeader \o RecordBytes(First(d))) \o tail)
             = Recovered(First(d), FileHeaderSize + d * RecordSize, Len(tail) # 0)
<1> DEFINE whole == RecordBytes(First(d))
           head == FileHeader \o whole
           file == head \o tail
           H == FileHeaderSize
           R == RecordSize
<1>1. FileHeader \in Seq(Byte) /\ Len(FileHeader) = H /\ H \in Nat \ {0}
  BY Sizes DEF FileHeader, Byte
<1>2. First(d) \in Seq(Nat) /\ Len(First(d)) = d /\ \A i \in 0 .. d - 1 : First(d)[i + 1] = i + 1
  BY DEF First
<1>3. /\ whole \in Seq(Byte) /\ Len(whole) = d * R /\ d * R \in Nat
      /\ \A i \in 0 .. d - 1 : \A j \in 1 .. R :
           i * R + j \in 1 .. d * R /\ whole[i * R + j] = <<i + 1, j>>
  BY <1>2, RecordBytesAre
<1> HIDE DEF whole
<1>4. /\ head \in Seq(Byte) /\ Len(head) = H + d * R
      /\ \A k \in 1 .. H + d * R : head[k] = IF k <= H THEN FileHeader[k] ELSE whole[k - H]
  <2>1. /\ head \in Seq(Byte) /\ Len(head) = Len(FileHeader) + Len(whole)
        /\ \A k \in 1 .. Len(FileHeader) + Len(whole) :
             head[k] = IF k <= Len(FileHeader) THEN FileHeader[k] ELSE whole[k - Len(FileHeader)]
    BY <1>1, <1>3, ConcatProperties
  <2>2. Len(FileHeader) = H /\ Len(whole) = d * R
    BY <1>1, <1>3
  <2> HIDE DEF head
  <2>3. QED  BY <2>1, <2>2
<1> HIDE DEF head
<1>5. /\ file \in Seq(Byte) /\ Len(file) = H + d * R + Len(tail)
      /\ \A k \in 1 .. H + d * R : file[k] = head[k]
  <2>1. Len(head) \in Nat /\ Len(tail) \in Nat
    BY <1>4
  <2>2. file \in Seq(Byte) /\ Len(file) = Len(head) + Len(tail)
    BY <1>4, ConcatProperties
  <2>3. \A k \in 1 .. Len(head) + Len(tail) : file[k] = IF k <= Len(head) THEN head[k] ELSE tail[k - Len(head)]
    BY <1>4, ConcatProperties
  <2> HIDE DEF file
  <2>4. QED  BY <1>1, <1>3, <1>4, <2>1, <2>2, <2>3
<1> HIDE DEF file
<1>6. Holds(file, d, Len(tail))
  <2>1. ASSUME NEW i \in 0 .. d - 1, NEW j \in 1 .. R
        PROVE  file[H + i * R + j] = <<i + 1, j>>
    <3>1. PICK k \in 1 .. d * R : k = i * R + j /\ whole[k] = <<i + 1, j>>
      BY <1>3
    <3>2. i * R \in Nat
      BY Sizes
    <3>3. H + k \in 1 .. H + d * R /\ k \in Nat \ {0}
      BY <1>1, <1>3, <3>1
    <3>4. PICK m \in 1 .. H + d * R : m = H + k
      BY <3>3
    <3>5. ~(m <= H) /\ m - H = k
      <4> HIDE DEF H
      <4>1. QED  BY <1>1, <3>3, <3>4
    <3>6. file[m] = head[m] /\ head[m] = whole[m - H]
      BY <1>4, <1>5, <3>5
    <3>7. H + i * R + j = H + k
      BY <1>1, <3>1, <3>2
    <3>8. QED  BY <3>1, <3>4, <3>5, <3>6, <3>7
  <2>2. QED  BY <1>5, <2>1 DEF Holds
<1>7. SubSeq(file, 1, H) = FileHeader
  <2>1. \A k \in 1 .. H : k \in 1 .. H + d * R /\ file[k] = FileHeader[k]
    BY <1>1, <1>3, <1>4, <1>5
  <2>2. \A k \in 1 .. H : file[k] \in Byte
    BY <1>1, <2>1
  <2>3. /\ SubSeq(file, 1, H) \in Seq(Byte) /\ Len(SubSeq(file, 1, H)) = H
        /\ \A k \in 1 .. H : SubSeq(file, 1, H)[k] = file[k]
    BY <1>1, <2>2, SubSeqProperties
  <2>4. QED  BY <1>1, <2>1, <2>3, SeqEqual
<1>8. H <= Len(file) /\ Len(tail) \in 0 .. R - 1
  BY <1>1, <1>3, <1>5, Sizes
<1>9. PICK g : Scans(g, file) /\ Scan(file) = g[H]
  BY <1>5, <1>7, <1>8, ScanIs
<1>10. g[H] = Recovered(First(d), H + d * R, Len(tail) # 0)
  BY <1>5, <1>6, <1>8, <1>9, ScanFinds
<1>11. QED  BY <1>9, <1>10 DEF file, head, whole

(* What the reader finds in each of the files that may be on disk.          *)
LEMMA FilesAreRead ==
    ASSUME Base, \A i \in 1 .. Len(records) : records[i] = i
    PROVE  \A file \in FilesOnDisk :
             \/ Scan(file) = Recovered(First(durable), FileHeaderSize + durable * RecordSize, torn)
             \/ durable = 0 /\ Scan(file) = Recovered(First(durable), 0, TRUE)
<1> DEFINE whole == FileHeader \o RecordBytes(SubSeq(records, 1, durable))
<1>1. records \in Seq(Nat) /\ durable \in Nat /\ durable <= Len(records) /\ torn \in BOOLEAN
  BY DEF Base, TypeOK
<1>2. SubSeq(records, 1, durable) = First(durable)
  <2>1. \A i \in 1 .. durable : records[i] \in Nat /\ records[i] = i
    BY <1>1
  <2>2. /\ SubSeq(records, 1, durable) \in Seq(Nat) /\ Len(SubSeq(records, 1, durable)) = durable
        /\ \A i \in 1 .. durable : SubSeq(records, 1, durable)[i] = records[i]
    BY <1>1, <2>1, SubSeqProperties
  <2>3. First(durable) \in Seq(Nat) /\ Len(First(durable)) = durable
          /\ \A i \in 1 .. durable : First(durable)[i] = i
    BY <1>1 DEF First
  <2>4. QED  BY <2>1, <2>2, <2>3, SeqEqual
<1>3. \A tail \in Seq(Byte) : Len(tail) < RecordSize =>
        Scan(whole \o tail)
          = Recovered(First(durable), FileHeaderSize + durable * RecordSize, Len(tail) # 0)
  BY <1>1, <1>2, ScanOfFile
<1>4. FileHeader \in Seq(Byte) /\ Len(FileHeader) = FileHeaderSize
  BY Sizes DEF FileHeader, Byte
<1>5. whole \in Seq(Byte)
  <2>1. First(durable) \in Seq(Nat)
    BY <1>1 DEF First
  <2>2. RecordBytes(First(durable)) \in Seq(Byte)
    BY <2>1, RecordBytesAre
  <2>3. QED  BY <1>2, <1>4, <2>2, ConcatProperties
<1> HIDE DEF whole
<1>6. ASSUME NEW file \in FilesOnDisk, torn
      PROVE  Scan(file) = Recovered(First(durable), FileHeaderSize + durable * RecordSize, TRUE)
  <2>1. PICK c \in 1 .. RecordSize - 1 : file = whole \o SubSeq(Record(CutRecord), 1, c)
    BY <1>6 DEF FilesOnDisk, whole
  <2>2. CutRecord \in Nat
    BY <1>1 DEF CutRecord
  <2> DEFINE tail == SubSeq(Record(CutRecord), 1, c)
  <2>3. tail \in Seq(Byte) /\ Len(tail) = c
    <3>1. Record(CutRecord) \in Seq(Byte) /\ Len(Record(CutRecord)) = RecordSize
      BY <2>2, RecordIs
    <3>2. c \in Nat /\ c <= RecordSize /\ 1 <= c
      BY Sizes
    <3>3. \A i \in 1 .. c : Record(CutRecord)[i] \in Byte
      BY <3>1, <3>2, Sizes
    <3>4. QED  BY <3>2, <3>3, SubSeqProperties
  <2> HIDE DEF tail
  <2>4. Len(tail) < RecordSize /\ Len(tail) # 0
    BY <2>3, Sizes
  <2>5. QED  BY <1>3, <2>1, <2>3, <2>4 DEF tail
<1>7. ASSUME NEW file \in FilesOnDisk, ~torn
      PROVE  \/ Scan(file) = Recovered(First(durable), FileHeaderSize + durable * RecordSize, FALSE)
             \/ durable = 0 /\ Scan(file) = Recovered(First(durable), 0, TRUE)
  <2>1. file = whole \/ (durable = 0 /\ file \in {SubSeq(FileHeader, 1, FileHeaderSize - 1), <<>>})
    BY <1>7 DEF FilesOnDisk, whole
  <2>2. CASE file = whole
    <3>1. whole \o <<>> = whole
      BY <1>5, ConcatEmptySeq
    <3>2. <<>> \in Seq(Byte) /\ Len(<<>>) < RecordSize /\ ~(Len(<<>>) # 0)
      BY Sizes
    <3>3. QED  BY <1>3, <2>2, <3>1, <3>2
  <2>3. CASE durable = 0 /\ file \in {SubSeq(FileHeader, 1, FileHeaderSize - 1), <<>>}
    <3>1. SubSeq(FileHeader, 1, FileHeaderSize - 1) \in Seq(Byte)
            /\ Len(SubSeq(FileHeader, 1, FileHeaderSize - 1)) = FileHeaderSize - 1
      <4>1. \A i \in 1 .. FileHeaderSize - 1 : FileHeader[i] \in Byte
        BY <1>4, Sizes
      <4>2. QED  BY <4>1, Sizes, SubSeqProperties
    <3>2. \A s \in {<<>>} : s \in Seq(Byte) /\ Len(s) = 0
      OBVIOUS
    <3>3. file \in Seq(Byte) /\ Len(file) \in {0, FileHeaderSize - 1}
      BY <2>3, <3>1, <3>2
    <3>4. Len(file) < FileHeaderSize
      BY <3>3, Sizes
    <3>5. First(0) = <<>>
      BY DEF First
    <3>6. QED  BY <2>3, <3>3, <3>4, <3>5, NothingWithoutHeader
  <2>4. QED  BY <2>1, <2>2, <2>3
<1>8. QED  BY <1>1, <1>6, <1>7

(* What the reader needs of the writer.                                    *)
LEMMA PrefixIsFound ==
    ASSUME Base, \A i \in 1 .. Len(records) : records[i] = i, Len(records) <= enqueued,
           written < durable + FlushEvery
    PROVE  RecoveryFindsPrefix
<1>1. durable \in Nat /\ Len(First(durable)) = durable /\ torn \in BOOLEAN /\ enqueued \in Nat
        /\ durable <= enqueued
  BY DEF Base, TypeOK, First
<1>2. First(durable) = [i \in 1 .. durable |-> i]
  BY DEF First
<1>3. ASSUME NEW file \in FilesOnDisk
      PROVE  LET found == Scan(file)
             IN  /\ found.results = [i \in 1 .. durable |-> i]
                 /\ durable <= enqueued
                 /\ written < Len(found.results) + FlushEvery
                 /\ found.validBytes # 0 =>
                      /\ found.damaged <=> torn
                      /\ found.validBytes = FileHeaderSize + durable * RecordSize
  <2>1. \/ Scan(file) = Recovered(First(durable), FileHeaderSize + durable * RecordSize, torn)
        \/ Scan(file) = Recovered(First(durable), 0, TRUE)
    BY FilesAreRead
  <2>2. Scan(file).results = First(durable)
    BY <2>1 DEF Recovered
  <2>3. Scan(file).validBytes # 0 =>
          /\ Scan(file).damaged = torn
          /\ Scan(file).validBytes = FileHeaderSize + durable * RecordSize
    BY <2>1 DEF Recovered
  <2>4. QED  BY <1>1, <1>2, <2>2, <2>3
<1>4. QED  BY <1>3 DEF RecoveryFindsPrefix

(* Whatever has been written, has failed or has been killed, the scan of    *)
(* what is on disk finds the first results, each once and in order, all but *)
(* the last FlushEvery of those counted as written, and tells of a part of  *)
(* a record exactly when there is one.                                     *)
THEOREM ReaderFindsThePrefix == Spec => []RecoveryFindsPrefix
  <1>1. Base /\ Contents /\ LossWindow => RecoveryFindsPrefix
    BY PrefixIsFound DEF Contents, LossWindow
  <1>2. QED
    BY <1>1, ContentsInvariant, CrashLossIsBounded, PTL

-----------------------------------------------------------------------------
(* The refinement.                                                         *)

(* What the directory says, as ResultLog sees it.                          *)
LogStatus == IF manifest = "none" THEN "recording" ELSE manifest

(* A step that writes nothing to the directory.                            *)
LEMMA LogUntouched ==
    ASSUME UNCHANGED <<enqueued, durable, manifest>>
    PROVE  UNCHANGED Log!logVars
  BY DEF Log!logVars

(* A step that only moves records to the disk.                             *)
LEMMA LogPersists ==
    ASSUME LogStatus = "recording", UNCHANGED <<enqueued, manifest>>,
           durable' \in durable .. enqueued
    PROVE  Log!Persist
  BY DEF Log!Persist, LogStatus

(* Every step of the writer is a step of the log, or none.                 *)
LEMMA StepOfLog ==
    Base /\ Contents /\ Closing /\ [Next]_vars => [Log!LogNext]_(Log!logVars)
  <1> SUFFICES ASSUME Base, Base', Contents, Contents', Closing, [Next]_vars
               PROVE  [Log!LogNext]_(Log!logVars)
    BY NextKeepsBase, NextKeepsContents
  <1> USE ConfigAssumption DEF control, counters, binary, csv, close
  <1>a. /\ enqueued \in Nat /\ durable \in Nat /\ Len(records) \in Nat
        /\ durable <= Len(records) /\ Len(records) <= enqueued
        /\ records \in Seq(Nat)
    BY Lengths DEF Contents
  <1>b. worker # "none" => LogStatus = "recording"
    BY DEF Base, Lifecycle, LogStatus
  <1>c. streamOpen => LogStatus = "recording"
    BY DEF Base, Lifecycle, LogStatus
  <1>1. CASE Open
    <2>1. /\ enqueued' = 0 /\ durable' = 0
          /\ manifest' \in {"recording", "faulted"}
      BY <1>1 DEF NewSession, Open
    <2>2. Log!Begin
      BY <2>1 DEF Log!Begin
    <2>3. QED
      BY <2>2 DEF Log!LogNext
  <1>2. CASE OpenFails
    <2>1. /\ enqueued' = 0 /\ durable' = 0
          /\ manifest' \in {"recording", "faulted"}
      BY <1>2 DEF NewSession, OpenFails
    <2>2. Log!Begin
      BY <2>1 DEF Log!Begin
    <2>3. QED
      BY <2>2 DEF Log!LogNext
  <1>3. CASE CloseBegins
    BY <1>3, LogUntouched DEF CloseBegins
  <1>4. CASE Enqueue
    <2>1. /\ worker # "none" /\ enqueued' = enqueued + 1
          /\ UNCHANGED <<durable, manifest>>
      BY <1>4 DEF Enqueue, Base, Lifecycle
    <2>2. Log!Accept
      BY <1>b, <2>1 DEF Log!Accept, LogStatus
    <2>3. QED
      BY <2>2 DEF Log!LogNext
  <1>5. CASE Overrun
    BY <1>5, LogUntouched DEF Overrun
  <1>6. CASE Take
    BY <1>6, LogUntouched DEF Take
  <1>7. CASE WorkerExit
    BY <1>7, LogUntouched DEF WorkerExit
  <1>8. CASE AppendRecord
    <2>1. worker # "none" /\ UNCHANGED <<enqueued, manifest>>
      BY <1>8 DEF AppendRecord
    <2>2. durable' \in durable .. Len(records')
      BY <1>8, <1>a DEF SpillOf, AppendRecord
    <2>3. Len(records') \in Nat /\ Len(records') <= enqueued
      BY <2>1, Lengths DEF Contents, Base, TypeOK
    <2>4. durable' \in durable .. enqueued
      BY <1>a, <2>2, <2>3
    <2>5. QED
      BY <1>b, <2>1, <2>4, LogPersists DEF Log!LogNext
  <1>9. CASE AppendFails
    <2>1. worker # "none" /\ UNCHANGED <<enqueued, manifest>>
      BY <1>9 DEF AppendFails
    <2>2. durable' \in durable .. Len(records')
      BY <1>9, <1>a DEF SpillOf, AppendFails
    <2>3. Len(records') \in Nat /\ Len(records') <= enqueued
      BY <2>1, Lengths DEF Contents, Base, TypeOK
    <2>4. durable' \in durable .. enqueued
      BY <1>a, <2>2, <2>3
    <2>5. QED
      BY <1>b, <2>1, <2>4, LogPersists DEF Log!LogNext
  <1>10. CASE AppendRows
    BY <1>10, LogUntouched DEF AppendRows
  <1>11. CASE AppendRowsFails
    BY <1>11, LogUntouched DEF AppendRowsFails
  <1>12. CASE FlushRecords
    <2>1. worker # "none" /\ UNCHANGED <<enqueued, manifest>>
      BY <1>12 DEF FlushRecords
    <2>2. durable' \in durable .. Len(records')
      BY <1>12, <1>a DEF FlushRecords
    <2>3. Len(records') \in Nat /\ Len(records') <= enqueued
      BY <2>1, Lengths DEF Contents, Base, TypeOK
    <2>4. durable' \in durable .. enqueued
      BY <1>a, <2>2, <2>3
    <2>5. QED
      BY <1>b, <2>1, <2>4, LogPersists DEF Log!LogNext
  <1>13. CASE FlushFails
    <2>1. worker # "none" /\ UNCHANGED <<enqueued, manifest>>
      BY <1>13 DEF FlushFails
    <2>2. durable' \in durable .. Len(records')
      BY <1>13, <1>a DEF SpillOf, FlushFails
    <2>3. Len(records') \in Nat /\ Len(records') <= enqueued
      BY <2>1, Lengths DEF Contents, Base, TypeOK
    <2>4. durable' \in durable .. enqueued
      BY <1>a, <2>2, <2>3
    <2>5. QED
      BY <1>b, <2>1, <2>4, LogPersists DEF Log!LogNext
  <1>14. CASE CountWritten
    BY <1>14, LogUntouched DEF CountWritten
  <1>15. CASE ReportFault
    BY <1>15, LogUntouched DEF ReportFault
  <1>16. CASE Join
    BY <1>16, LogUntouched DEF Join
  <1>17. CASE CloseStream
    <2>1. /\ UNCHANGED <<records, enqueued, manifest>>
          /\ durable' = (IF streamOpen THEN Len(records) ELSE durable)
      BY <1>17 DEF CloseStream
    <2>2. CASE streamOpen
      <3>1. durable' \in durable .. enqueued
        BY <1>a, <2>1, <2>2
      <3>2. QED
        BY <1>c, <2>1, <2>2, <3>1, LogPersists DEF Log!LogNext
    <2>3. CASE ~streamOpen
      BY <2>1, <2>3, LogUntouched
    <2>4. QED
      BY <2>2, <2>3
  <1>18. CASE CloseStreamFails
    <2>1. streamOpen /\ UNCHANGED <<records, enqueued, manifest>>
      BY <1>18 DEF CloseStreamFails
    <2>2. durable' \in durable .. Len(records)
      BY <1>18, <1>a DEF SpillOf, CloseStreamFails
    <2>3. durable' \in durable .. enqueued
      BY <1>a, <2>2
    <2>4. QED
      BY <1>c, <2>1, <2>3, LogPersists DEF Log!LogNext
  <1>19. CASE CloseCsv
    BY <1>19, LogUntouched DEF CloseCsv
  <1>20. CASE CloseCsvFails
    BY <1>20, LogUntouched DEF CloseCsvFails
  <1>21. CASE RemoveManifest
    <2>1. /\ manifest \in {"recording", "none"} /\ manifest' = "none"
          /\ UNCHANGED <<enqueued, durable>>
      BY <1>21 DEF RemoveManifest, Base, Lifecycle
    <2>2. QED
      BY <2>1 DEF Log!logVars
  <1>22. CASE WriteManifestFails
    BY <1>22, LogUntouched DEF WriteManifestFails
  <1>23. CASE RenameManifest
    <2>1. /\ caller = "rename" /\ manifest = "none"
          /\ UNCHANGED <<enqueued, durable>>
          /\ manifest' = (IF closeError THEN "faulted" ELSE status)
      BY <1>23 DEF RenameManifest, Base, Lifecycle
    <2>2. status \in FinalStatus
      BY <2>1 DEF Base, TypeOK, Lifecycle
    <2>3. manifest' \in FinalStatus
      BY <2>1, <2>2 DEF FinalStatus
    <2>4. manifest' = "complete" => durable = enqueued
      BY <2>1 DEF Closing
    <2>5. Log!Finish
      BY <2>1, <2>3, <2>4 DEF Log!Finish, Log!Final, FinalStatus
    <2>6. QED
      BY <2>5 DEF Log!LogNext
  <1>24. CASE RenameFails
    BY <1>24, LogUntouched DEF RenameFails
  <1>25. CASE CloseEnds
    BY <1>25, LogUntouched DEF CloseEnds
  <1>26. CASE Crash
    BY <1>26, LogUntouched DEF Crash
  <1>27. CASE UNCHANGED vars
    BY <1>27, LogUntouched DEF vars
  <1>28. QED
    BY <1>1, <1>2, <1>3, <1>4, <1>5, <1>6, <1>7, <1>8, <1>9, <1>10, <1>11,
       <1>12, <1>13, <1>14, <1>15, <1>16, <1>17, <1>18, <1>19, <1>20, <1>21,
       <1>22, <1>23, <1>24, <1>25, <1>26, <1>27
       DEF Next, Produce, WorkerStep, CloseStep

(* The writer implements the log: whatever fails and whenever it is        *)
(* killed, the directory of a session is an append-only log whose durable  *)
(* part never shrinks and whose final status is the truth.                 *)
THEOREM WriterImplementsLog == Spec => ImplementsLog
  <1>1. Init => Log!LogInit
    BY DEF Init, Log!LogInit
  <1>2. QED
    BY <1>1, StepOfLog, ClosingInvariant, PTL
       DEF Spec, ImplementsLog, Log!LogSpec

------------------------------------------------------------------------------
(***************************************************************************)
(* The writer implements the machine its owner sees, StorageContract,      *)
(* under the mapping of AsyncWriter's Owner: every step of the writer is a *)
(* step of the contract or leaves what the owner sees alone.               *)
(***************************************************************************)

(* Something is broken only where the disk may fail; the worker has a      *)
(* result in hand only when one was accepted; and only close tells it to   *)
(* stop.                                                                   *)
Causes ==
    /\ badStream \/ badCsv \/ worker = "fault" => DiskMayFail
    /\ worker \in {"append", "csv", "flush", "count", "fault"} => enqueued > 0
    /\ stopRequested => status # "none"

(* A failure keeps its cause.                                              *)
LEMMA NextKeepsCauses == Base /\ Contents /\ Causes /\ [Next]_vars => Causes'
  <1> SUFFICES ASSUME Base, Contents, Causes, [Next]_vars PROVE Causes'
    OBVIOUS
  <1> USE DEF Causes, control, counters, binary, csv, close
  <1>a. enqueued \in Nat /\ status \in FinalStatus \cup {"none"}
    BY DEF Base, TypeOK
  <1>1. CASE Open \/ OpenFails
    BY <1>1 DEF Open, OpenFails, NewSession
  <1>2. CASE CloseBegins
    BY <1>2 DEF CloseBegins, FinalStatus
  <1>3. CASE Produce
    BY <1>3, <1>a DEF Produce, Enqueue, Overrun
  <1>4. CASE Take
    <2>1. enqueued > 0
      <3>1. Healthy /\ Len(queue) > 0 /\ Len(queue) \in Nat
            /\ Len(records) \in Nat
        BY <1>4 DEF Take, Base, Lifecycle, Live, Healthy, TypeOK
      <3>2. enqueued = Len(records) + Len(queue)
        BY <1>4, <3>1 DEF Contents, Taken, Take, B2N
      <3>3. QED
        BY <3>1, <3>2
    <2>2. QED
      BY <1>4, <2>1 DEF Take
  <1>5. CASE WorkerExit \/ AppendRecord \/ AppendFails \/ AppendRows
             \/ AppendRowsFails \/ FlushRecords \/ FlushFails \/ CountWritten
             \/ ReportFault
    BY <1>5 DEF WorkerExit, AppendRecord, AppendFails, AppendRows,
       AppendRowsFails, FlushRecords, FlushFails, CountWritten, ReportFault
  <1>6. CASE CloseStep
    BY <1>6 DEF CloseStep, Join, CloseStream, CloseStreamFails, CloseCsv,
       CloseCsvFails, RemoveManifest, WriteManifestFails, RenameManifest,
       RenameFails, CloseEnds
  <1>7. CASE Crash \/ UNCHANGED vars
    BY <1>7 DEF Crash, vars
  <1>8. QED
    BY <1>1, <1>2, <1>3, <1>4, <1>5, <1>6, <1>7 DEF Next, WorkerStep

(* The causes of failures are known in every reachable state.              *)
LEMMA CausesInvariant == Spec => [](Base /\ Contents /\ Causes)
  <1>1. Init => Causes
    BY DEF Init, Causes
  <1>2. QED
    BY <1>1, ContentsInvariant, NextKeepsCauses, PTL DEF Spec

(* How far close has come and where the worker is, to its owner.           *)
CallSeen ==
    CASE caller = "idle" -> "idle"
      [] caller = "join" -> "join"
      [] caller = "finish" -> "end"
      [] OTHER -> "finish"
WorkerSeen == IF worker \in {"none", "done"} THEN worker ELSE "run"

(* The steps that move the queue and the files only do not show.           *)
LEMMA NothingShows ==
    ASSUME UNCHANGED <<open, accepting, faulted, enqueued, WorkerSeen, csvOpen,
                       manifest, CallSeen, status, closeError>>
    PROVE  UNCHANGED Owner!storageVars
  BY DEF Owner!storageVars, CallSeen, WorkerSeen

(* Every step of the writer is a step of the contract, or none.            *)
LEMMA StepOfContract ==
    Base /\ Causes /\ [Next]_vars => [Owner!Next]_(Owner!storageVars)
  <1> SUFFICES ASSUME Base, Causes, [Next]_vars
               PROVE  [Owner!Next]_(Owner!storageVars)
    OBVIOUS
  <1> USE DEF Base, Lifecycle, Causes, CallSeen, WorkerSeen, control, counters,
          binary, csv, close
  <1>a. /\ enqueued \in Nat /\ worker \in WorkerPC /\ caller \in CallerPC
        /\ status \in FinalStatus \cup {"none"}
    BY DEF TypeOK
  <1>1. CASE Open
    <2>1. Owner!Open
      BY <1>1, <1>a DEF Open, Owner!Open, NewSession
    <2>2. QED
      BY <2>1 DEF Owner!Next
  <1>2. CASE OpenFails
    <2>1. CallSeen = "idle" /\ ~open /\ UNCHANGED <<open, CallSeen, closeError>>
      BY <1>2 DEF OpenFails, NewSession, TypeOK
    <2>2. /\ accepting' = FALSE /\ faulted' = FALSE /\ (enqueued > 0)' = FALSE
          /\ WorkerSeen' = "none" /\ csvOpen' = FALSE
          /\ manifest' = "faulted" /\ status' = "none"
      BY <1>2 DEF OpenFails, NewSession
    <2>3. Owner!OpenFails
      BY <2>1, <2>2 DEF Owner!OpenFails
    <2>4. QED
      BY <2>3 DEF Owner!Next
  <1>3. CASE CloseBegins
    <2>1. status' \in Owner!FinalStatus
      BY <1>3 DEF CloseBegins, FinalStatus, Owner!FinalStatus
    <2>2. Owner!CloseBegins(status')
      BY <1>3 DEF CloseBegins, Owner!CloseBegins
    <2>3. QED
      BY <2>1, <2>2 DEF Owner!Next
  <1>4. CASE Enqueue
    <2>1. Owner!Accept
      BY <1>4, <1>a DEF Enqueue, Owner!Accept, Owner!Accepts
    <2>2. QED
      BY <2>1 DEF Owner!Next
  <1>5. CASE Overrun
    BY <1>5, NothingShows DEF Overrun
  <1>6. CASE Take
    BY <1>6, NothingShows DEF Take
  <1>7. CASE WorkerExit
    <2>1. Owner!WorkerEnds
      BY <1>7, <1>a DEF WorkerExit, Owner!WorkerEnds
    <2>2. QED
      BY <2>1 DEF Owner!Next
  <1>8. CASE AppendRecord
    BY <1>8, NothingShows DEF AppendRecord
  <1>9. CASE AppendFails
    BY <1>9, NothingShows DEF AppendFails
  <1>10. CASE AppendRows
    BY <1>10, NothingShows DEF AppendRows
  <1>11. CASE AppendRowsFails
    BY <1>11, NothingShows DEF AppendRowsFails
  <1>12. CASE FlushRecords
    BY <1>12, NothingShows DEF FlushRecords
  <1>13. CASE FlushFails
    BY <1>13, NothingShows DEF FlushFails
  <1>14. CASE CountWritten
    BY <1>14, NothingShows DEF CountWritten
  <1>15. CASE ReportFault
    <2>1. Owner!WorkerFault
      BY <1>15, <1>a DEF ReportFault, Owner!WorkerFault
    <2>2. QED
      BY <2>1 DEF Owner!Next
  <1>16. CASE Join
    <2>1. Owner!Join
      BY <1>16, <1>a DEF Join, Owner!Join
    <2>2. QED
      BY <2>1 DEF Owner!Next
  <1>17. CASE CloseStream
    BY <1>17, NothingShows DEF CloseStream
  <1>18. CASE CloseStreamFails
    <2>1. Owner!FlushFails
      BY <1>18, <1>a DEF CloseStreamFails, Owner!FlushFails
    <2>2. QED
      BY <2>1 DEF Owner!Next
  <1>19. CASE CloseCsv
    <2>1. CASE csvOpen
      BY <1>19, <2>1, NothingShows DEF CloseCsv
    <2>2. CASE ~csvOpen
      <3>1. Owner!SkipStatus
        BY <1>19, <2>2 DEF CloseCsv, Owner!SkipStatus
      <3>2. QED
        BY <3>1 DEF Owner!Next
    <2>3. QED
      BY <2>1, <2>2
  <1>20. CASE CloseCsvFails
    <2>1. Owner!CloseThrows
      BY <1>20, <1>a DEF CloseCsvFails, Owner!CloseThrows
    <2>2. QED
      BY <2>1 DEF Owner!Next
  <1>21. CASE RemoveManifest
    <2>1. Owner!RemoveManifest
      BY <1>21, <1>a DEF RemoveManifest, Owner!RemoveManifest
    <2>2. QED
      BY <2>1 DEF Owner!Next
  <1>22. CASE WriteManifestFails
    <2>1. Owner!CloseThrows
      BY <1>22, <1>a DEF WriteManifestFails, Owner!CloseThrows
    <2>2. QED
      BY <2>1 DEF Owner!Next
  <1>23. CASE RenameManifest
    <2>1. Owner!WriteStatus
      BY <1>23, <1>a DEF RenameManifest, Owner!WriteStatus
    <2>2. QED
      BY <2>1 DEF Owner!Next
  <1>24. CASE RenameFails
    <2>1. Owner!CloseThrows
      BY <1>24, <1>a DEF RenameFails, Owner!CloseThrows
    <2>2. QED
      BY <2>1 DEF Owner!Next
  <1>25. CASE CloseEnds
    <2>1. Owner!CloseEnds
      BY <1>25, <1>a DEF CloseEnds, Owner!CloseEnds
    <2>2. QED
      BY <2>1 DEF Owner!Next
  <1>26. CASE Crash
    <2>1. Owner!Crash
      BY <1>26, <1>a DEF Crash, Owner!Crash
    <2>2. QED
      BY <2>1 DEF Owner!Next
  <1>27. CASE UNCHANGED vars
    BY <1>27, NothingShows DEF vars
  <1>28. QED
    BY <1>1, <1>2, <1>3, <1>4, <1>5, <1>6, <1>7, <1>8, <1>9, <1>10, <1>11,
       <1>12, <1>13, <1>14, <1>15, <1>16, <1>17, <1>18, <1>19, <1>20,
       <1>21, <1>22, <1>23, <1>24, <1>25, <1>26, <1>27
       DEF Next, Produce, WorkerStep, CloseStep

(* The owner of a writer can rely on the contract: whatever the queue, the *)
(* worker and the files do, it sees the calls, faults, ends and manifests  *)
(* of StorageContract.                                                     *)
THEOREM WriterKeepsContract == Spec => KeepsContract
  <1>1. Init => Owner!Init
    BY DEF Init, Owner!Init
  <1>2. QED
    BY <1>1, StepOfContract, CausesInvariant, PTL
       DEF Spec, KeepsContract, Owner!Contract

=============================================================================
