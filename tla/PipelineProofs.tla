--------------------------- MODULE PipelineProofs ---------------------------
(***************************************************************************)
(* Proofs about Pipeline for every pool size, queue capacity, number of    *)
(* frames and choice of failures.  Lifecycle relates the program counters  *)
(* of the three threads to the flags and the mutex; with the type          *)
(* invariant and the conservation of buffers it is inductive.              *)
(***************************************************************************)
EXTENDS Pipeline, SequenceTheorems, TLAPS

(* A stop is under way: its flag is set, and it has not returned.           *)
Stopping ==
    caller \in {"closeQueue", "closePool", "stopCamera", "joinCapture",
                "joinProcessing"}

(* Which program counters, flags and locks go together.                    *)
Lifecycle ==
    /\ state = "stopped" =>
           /\ caller = "idle" /\ capture = "none" /\ processing = "none"
           /\ queue = <<>> /\ ~streaming /\ "caller" \notin waiting
    /\ caller = "spawnCapture" => capture = "none"
    /\ caller \in {"spawnCapture", "spawnProcessing"} => processing = "none"
    /\ caller = "joinProcessing" => capture = "none" /\ ~streaming
    /\ Stopping => stopRequested /\ state # "stopped"
    /\ caller \in {"closePool", "stopCamera", "joinCapture",
                   "joinProcessing"} => queueClosed
    /\ caller = "joinCapture" => ~streaming
    /\ queueClosed => queue = <<>>
    /\ pauseMutex = "caller" <=> caller = "pauseBlock"
    /\ pauseMutex = "processing" <=> processing = "block"
    /\ "caller" \in waiting => caller = "pauseTest"
    /\ "processing" \in waiting => processing = "gate"
    /\ active <=> processing \in {"take", "deliver"}
    /\ capture = "push" => captured > 0

Core == TypeOK /\ Lifecycle /\ PoolConserved

(* Making room in the queue and appending keeps it within its capacity;    *)
(* what is evicted is what is over.                                        *)
LEMMA EvictionMakesRoom ==
    ASSUME TypeOK, NEW f \in Frame
    PROVE  LET q == Append(SubSeq(queue, Evicted + 1, Len(queue)), f)
           IN  /\ q \in Seq(Frame)
               /\ Len(q) = Len(queue) - Evicted + 1
               /\ Len(q) <= QueueCapacity
               /\ Evicted \in {0, 1}
               /\ Evicted <= Len(queue)
  <1>1. queue \in Seq(Frame) /\ Len(queue) \in Nat /\ Len(queue) <= QueueCapacity
    BY DEF TypeOK
  <1>2. Evicted \in {0, 1} /\ Evicted <= Len(queue)
        /\ Len(queue) - Evicted + 1 <= QueueCapacity
    BY <1>1, SizesAssumption DEF Evicted
  <1>3. SubSeq(queue, Evicted + 1, Len(queue)) \in Seq(Frame)
        /\ Len(SubSeq(queue, Evicted + 1, Len(queue))) = Len(queue) - Evicted
    BY <1>1, <1>2
  <1>4. QED
    BY <1>1, <1>2, <1>3

(* A pipeline that was never started satisfies the core invariant.         *)
LEMMA InitCore == Init => Core
  <1> SUFFICES ASSUME Init PROVE Core
    OBVIOUS
  <1> USE SizesAssumption DEF Init
  <1>1. queue = <<>> /\ queue \in Seq(Frame) /\ Len(queue) = 0
    OBVIOUS
  <1>2. TypeOK
    <2>1. /\ stopRequested \in BOOLEAN /\ paused \in BOOLEAN
          /\ active \in BOOLEAN /\ queueClosed \in BOOLEAN
          /\ poolClosed \in BOOLEAN /\ streaming \in BOOLEAN
      OBVIOUS
    <2>2. /\ available \in 0 .. PoolSize /\ captured \in 0 .. MaxFrames
          /\ processed \in Nat /\ dropped \in Nat
          /\ skipped \in 0 .. (QueueCapacity - 1)
          /\ Len(queue) <= QueueCapacity
      BY <1>1
    <2>3. /\ waiting \subseteq {"caller", "processing"}
          /\ pauseMutex \in {"free", "caller", "processing"}
          /\ state \in PipelineState /\ caller \in CallerPC
          /\ capture \in CapturePC /\ processing \in ProcessingPC
      BY DEF PipelineState, CallerPC, CapturePC, ProcessingPC
    <2>4. QED
      BY <1>1, <2>1, <2>2, <2>3 DEF TypeOK
  <1>3. Lifecycle
    BY DEF Lifecycle, Stopping
  <1>4. PoolConserved
    BY <1>1 DEF PoolConserved, B2N, CaptureHolds, ProcessingHolds
  <1>5. QED
    BY <1>2, <1>3, <1>4 DEF Core

(* Core is inductive: start, pause, resume and stop keep it, also when an  *)
(* exception ends them half way.                                           *)
LEMMA CallerKeepsCore ==
    ASSUME Core, CallerAsks \/ CallerContinues
    PROVE  Core'
  <1> USE SizesAssumption DEF Core, flags, gateVars, queueVars, poolVars,
          counters, work
  <1>1. CASE Start
    <2>1. /\ UNCHANGED <<pauseMutex, waiting, available, item, skipped,
                          capture, processing>>
          /\ state' = "starting" /\ stopRequested' = FALSE
          /\ paused' = FALSE /\ active' = FALSE
          /\ poolClosed' = FALSE /\ queue' = <<>> /\ queueClosed' = FALSE
          /\ reference' = NoFrame /\ last' = NoFrame
          /\ captured' = 0 /\ processed' = 0 /\ dropped' = 0
          /\ streaming' = TRUE /\ caller' = "spawnCapture"
      BY <1>1 DEF Start, ResetSession
    <2>2. queue' \in Seq(Frame) /\ Len(queue') = 0
      BY <2>1
    <2>3. TypeOK'
      <3>1. /\ state' \in PipelineState /\ caller' \in CallerPC
            /\ captured' \in 0 .. MaxFrames /\ processed' \in Nat
            /\ dropped' \in Nat
        BY <2>1 DEF PipelineState, CallerPC
      <3>2. /\ stopRequested' \in BOOLEAN /\ paused' \in BOOLEAN
            /\ active' \in BOOLEAN /\ poolClosed' \in BOOLEAN
            /\ queueClosed' \in BOOLEAN /\ streaming' \in BOOLEAN
        BY <2>1
      <3>3. /\ reference' \in Frame \cup {NoFrame}
            /\ last' \in Frame \cup {NoFrame}
            /\ Len(queue') <= QueueCapacity
        BY <2>1, <2>2
      <3>4. UNCHANGED <<pauseMutex, waiting, available, item, skipped,
                        capture, processing>>
        BY <2>1
      <3>5. QED
        BY <2>2, <3>1, <3>2, <3>3, <3>4 DEF TypeOK
    <2>4. Lifecycle'
      BY <1>1, <2>1 DEF Start, TypeOK, Lifecycle, Stopping
    <2>5. PoolConserved'
      BY <1>1, <2>1, <2>2
         DEF Start, TypeOK, PoolConserved, B2N, CaptureHolds,
             ProcessingHolds, Lifecycle
    <2>6. QED
      BY <2>3, <2>4, <2>5
  <1>2. CASE StartFails
    <2>1. /\ UNCHANGED <<pauseMutex, waiting, available, item, skipped,
                          caller, capture, processing>>
          /\ state' = "faulted" /\ stopRequested' = TRUE
          /\ paused' = FALSE /\ active' = FALSE /\ streaming' = FALSE
      BY <1>2 DEF StartFails, ResetSession
    <2>2. \/ /\ poolClosed' = FALSE /\ queueClosed' = FALSE
             /\ reference' = NoFrame /\ last' = NoFrame
             /\ captured' = 0 /\ processed' = 0 /\ dropped' = 0
          \/ UNCHANGED <<poolClosed, queueClosed, reference, last, captured,
                         processed, dropped>>
      BY <1>2 DEF StartFails, ResetSession
    <2>3. queue' = <<>> /\ queue = <<>>
      BY <1>2 DEF StartFails, ResetSession, Lifecycle
    <2>4. queue' \in Seq(Frame) /\ Len(queue') = 0 /\ Len(queue) = 0
      BY <2>3
    <2>5. TypeOK'
      <3>1. /\ state' \in PipelineState
            /\ captured' \in 0 .. MaxFrames /\ processed' \in Nat
            /\ dropped' \in Nat
        BY <2>1, <2>2 DEF PipelineState, TypeOK
      <3>2. QED
        BY <2>1, <2>2, <2>4, <3>1 DEF TypeOK
    <2>6. Lifecycle'
      BY <1>2, <2>1, <2>3 DEF StartFails, TypeOK, Lifecycle, Stopping
    <2>7. PoolConserved'
      BY <1>2, <2>1, <2>4
         DEF StartFails, TypeOK, PoolConserved, B2N, CaptureHolds,
             ProcessingHolds, Lifecycle
    <2>8. QED
      BY <2>5, <2>6, <2>7
  <1>3. CASE SpawnCapture
    <2>1. TypeOK'
      BY <1>3 DEF SpawnCapture, TypeOK, CallerPC, CapturePC
    <2>2. Lifecycle'
      BY <1>3 DEF SpawnCapture, TypeOK, Lifecycle, Stopping
    <2>3. PoolConserved'
      BY <1>3 DEF SpawnCapture, TypeOK, PoolConserved, B2N, CaptureHolds,
         ProcessingHolds, Lifecycle
    <2>4. QED
      BY <2>1, <2>2, <2>3
  <1>4. CASE SpawnProcessing
    <2>1. TypeOK'
      BY <1>4 DEF SpawnProcessing, TypeOK, CallerPC, ProcessingPC
    <2>2. Lifecycle'
      BY <1>4 DEF SpawnProcessing, TypeOK, Lifecycle, Stopping
    <2>3. PoolConserved'
      BY <1>4 DEF SpawnProcessing, TypeOK, PoolConserved, B2N, CaptureHolds,
         ProcessingHolds, Lifecycle
    <2>4. QED
      BY <2>1, <2>2, <2>3
  <1>5. CASE SpawnFails
    <2>1. TypeOK'
      BY <1>5 DEF SpawnFails, TypeOK, CallerPC, PipelineState
    <2>2. Lifecycle'
      BY <1>5 DEF SpawnFails, TypeOK, Lifecycle, Stopping
    <2>3. PoolConserved'
      BY <1>5 DEF SpawnFails, TypeOK, PoolConserved, B2N, CaptureHolds,
         ProcessingHolds, Lifecycle
    <2>4. QED
      BY <2>1, <2>2, <2>3
  <1>6. CASE PublishRunning
    <2>1. TypeOK'
      BY <1>6 DEF PublishRunning, TypeOK, CallerPC, PipelineState
    <2>2. Lifecycle'
      BY <1>6 DEF PublishRunning, TypeOK, Lifecycle, Stopping
    <2>3. PoolConserved'
      BY <1>6 DEF PublishRunning, TypeOK, PoolConserved, B2N, CaptureHolds,
         ProcessingHolds, Lifecycle
    <2>4. QED
      BY <2>1, <2>2, <2>3
  <1>7. CASE Pause
    <2>1. TypeOK'
      BY <1>7 DEF Pause, TypeOK, CallerPC, PipelineState
    <2>2. Lifecycle'
      BY <1>7 DEF Pause, TypeOK, Lifecycle, Stopping
    <2>3. PoolConserved'
      BY <1>7 DEF Pause, TypeOK, PoolConserved, B2N, CaptureHolds,
         ProcessingHolds, Lifecycle
    <2>4. QED
      BY <2>1, <2>2, <2>3
  <1>8. CASE PauseTest
    <2>1. TypeOK'
      BY <1>8 DEF PauseTest, TypeOK, CallerPC
    <2>2. Lifecycle'
      BY <1>8 DEF PauseTest, TypeOK, Lifecycle, Stopping
    <2>3. PoolConserved'
      BY <1>8 DEF PauseTest, TypeOK, PoolConserved, B2N, CaptureHolds,
         ProcessingHolds, Lifecycle
    <2>4. QED
      BY <2>1, <2>2, <2>3
  <1>9. CASE PauseBlock
    <2>1. TypeOK'
      BY <1>9 DEF PauseBlock, TypeOK, CallerPC
    <2>2. Lifecycle'
      BY <1>9 DEF PauseBlock, TypeOK, Lifecycle, Stopping
    <2>3. PoolConserved'
      BY <1>9 DEF PauseBlock, TypeOK, PoolConserved, B2N, CaptureHolds,
         ProcessingHolds, Lifecycle
    <2>4. QED
      BY <2>1, <2>2, <2>3
  <1>10. CASE Resume
    <2>1. TypeOK'
      BY <1>10 DEF Resume, TypeOK, CallerPC, PipelineState
    <2>2. Lifecycle'
      BY <1>10 DEF Resume, TypeOK, Lifecycle, Stopping
    <2>3. PoolConserved'
      BY <1>10 DEF Resume, TypeOK, PoolConserved, B2N, CaptureHolds,
         ProcessingHolds, Lifecycle
    <2>4. QED
      BY <2>1, <2>2, <2>3
  <1>11. CASE StopSignal
    <2>1. TypeOK'
      BY <1>11 DEF StopSignal, TypeOK, CallerPC, PipelineState
    <2>2. Lifecycle'
      BY <1>11 DEF StopSignal, TypeOK, Lifecycle, Stopping
    <2>3. PoolConserved'
      BY <1>11 DEF StopSignal, TypeOK, PoolConserved, B2N, CaptureHolds,
         ProcessingHolds, Lifecycle
    <2>4. QED
      BY <2>1, <2>2, <2>3
  <1>12. CASE CloseQueue
    <2>1. PoolConserved'
      BY <1>12 DEF CloseQueue, TypeOK, PoolConserved, B2N, CaptureHolds,
         ProcessingHolds, Lifecycle
    <2>2. available' \in 0 .. PoolSize
      BY <1>12 DEF CloseQueue, TypeOK, PoolConserved, B2N, CaptureHolds,
         ProcessingHolds
    <2>3. TypeOK'
      BY <1>12, <2>2 DEF CloseQueue, TypeOK, CallerPC
    <2>4. Lifecycle'
      BY <1>12 DEF CloseQueue, TypeOK, Lifecycle, Stopping
    <2>5. QED
      BY <2>1, <2>3, <2>4
  <1>13. CASE ClosePool
    <2>1. TypeOK'
      BY <1>13 DEF ClosePool, TypeOK, CallerPC
    <2>2. Lifecycle'
      BY <1>13 DEF ClosePool, TypeOK, Lifecycle, Stopping
    <2>3. PoolConserved'
      BY <1>13 DEF ClosePool, TypeOK, PoolConserved, B2N, CaptureHolds,
         ProcessingHolds, Lifecycle
    <2>4. QED
      BY <2>1, <2>2, <2>3
  <1>14. CASE StopCamera
    <2>1. TypeOK'
      BY <1>14 DEF StopCamera, TypeOK, CallerPC
    <2>2. Lifecycle'
      BY <1>14 DEF StopCamera, TypeOK, Lifecycle, Stopping
    <2>3. PoolConserved'
      BY <1>14 DEF StopCamera, TypeOK, PoolConserved, B2N, CaptureHolds,
         ProcessingHolds, Lifecycle
    <2>4. QED
      BY <2>1, <2>2, <2>3
  <1>15. CASE JoinCapture
    <2>1. TypeOK'
      BY <1>15 DEF JoinCapture, TypeOK, CallerPC, CapturePC
    <2>2. Lifecycle'
      BY <1>15 DEF JoinCapture, TypeOK, Lifecycle, Stopping
    <2>3. PoolConserved'
      BY <1>15 DEF JoinCapture, TypeOK, PoolConserved, B2N, CaptureHolds,
         ProcessingHolds, Lifecycle
    <2>4. QED
      BY <2>1, <2>2, <2>3
  <1>16. CASE JoinProcessing
    <2>1. TypeOK'
      BY <1>16 DEF JoinProcessing, TypeOK, CallerPC, ProcessingPC, PipelineState
    <2>2. Lifecycle'
      BY <1>16 DEF JoinProcessing, TypeOK, Lifecycle, Stopping
    <2>3. PoolConserved'
      BY <1>16 DEF JoinProcessing, TypeOK, PoolConserved, B2N, CaptureHolds,
         ProcessingHolds, Lifecycle
    <2>4. QED
      BY <2>1, <2>2, <2>3
  <1>17. QED
    BY <1>1, <1>2, <1>3, <1>4, <1>5, <1>6, <1>7, <1>8, <1>9, <1>10, <1>11,
       <1>12, <1>13, <1>14, <1>15, <1>16
       DEF CallerAsks, CallerContinues

(* Every step of capture_loop keeps it.                                    *)
LEMMA CaptureKeepsCore ==
    ASSUME Core, CaptureStep
    PROVE  Core'
  <1> USE SizesAssumption DEF Core, flags, gateVars, queueVars, poolVars,
          counters, work
  <1>1. CASE AcquireFrame
    <2>1. PoolConserved'
      BY <1>1 DEF AcquireFrame, TypeOK, PoolConserved, B2N, CaptureHolds,
         ProcessingHolds, Lifecycle
    <2>2. available' \in 0 .. PoolSize
      BY <1>1 DEF AcquireFrame, TypeOK, PoolConserved, B2N, CaptureHolds,
         ProcessingHolds
    <2>3. TypeOK'
      BY <1>1, <2>2 DEF AcquireFrame, TypeOK, CapturePC
    <2>4. Lifecycle'
      BY <1>1 DEF AcquireFrame, TypeOK, Lifecycle, Stopping
    <2>5. QED
      BY <2>1, <2>3, <2>4
  <1>2. CASE CaptureExit
    <2>1. TypeOK'
      BY <1>2 DEF CaptureExit, TypeOK, CapturePC
    <2>2. Lifecycle'
      BY <1>2 DEF CaptureExit, TypeOK, Lifecycle, Stopping
    <2>3. PoolConserved'
      BY <1>2 DEF CaptureExit, TypeOK, PoolConserved, B2N, CaptureHolds,
         ProcessingHolds, Lifecycle
    <2>4. QED
      BY <2>1, <2>2, <2>3
  <1>3. CASE GrabFrame
    <2>1. TypeOK'
      BY <1>3 DEF GrabFrame, TypeOK, CapturePC
    <2>2. Lifecycle'
      BY <1>3 DEF GrabFrame, TypeOK, Lifecycle, Stopping
    <2>3. PoolConserved'
      BY <1>3 DEF GrabFrame, TypeOK, PoolConserved, B2N, CaptureHolds,
         ProcessingHolds, Lifecycle
    <2>4. QED
      BY <2>1, <2>2, <2>3
  <1>4. CASE GrabTimeout
    <2>1. PoolConserved'
      BY <1>4 DEF GrabTimeout, TypeOK, PoolConserved, B2N, CaptureHolds,
         ProcessingHolds, Lifecycle
    <2>2. available' \in 0 .. PoolSize
      BY <1>4 DEF GrabTimeout, TypeOK, PoolConserved, B2N, CaptureHolds,
         ProcessingHolds
    <2>3. TypeOK'
      BY <1>4, <2>2 DEF GrabTimeout, TypeOK, CapturePC
    <2>4. Lifecycle'
      BY <1>4 DEF GrabTimeout, TypeOK, Lifecycle, Stopping
    <2>5. QED
      BY <2>1, <2>3, <2>4
  <1>5. CASE GrabThrows
    <2>1. PoolConserved'
      BY <1>5 DEF GrabThrows, TypeOK, PoolConserved, B2N, CaptureHolds,
         ProcessingHolds, Lifecycle
    <2>2. available' \in 0 .. PoolSize
      BY <1>5 DEF GrabThrows, TypeOK, PoolConserved, B2N, CaptureHolds,
         ProcessingHolds
    <2>3. TypeOK'
      BY <1>5, <2>2 DEF GrabThrows, TypeOK, CapturePC
    <2>4. Lifecycle'
      BY <1>5 DEF GrabThrows, TypeOK, Lifecycle, Stopping
    <2>5. QED
      BY <2>1, <2>3, <2>4
  <1>6. CASE Push
    <2> DEFINE q == Append(SubSeq(queue, Evicted + 1, Len(queue)), captured - 1)
    <2>1. captured - 1 \in Frame
      BY <1>6 DEF Push, TypeOK, Lifecycle, Frame
    <2>2. /\ q \in Seq(Frame) /\ Len(q) = Len(queue) - Evicted + 1
          /\ Len(q) <= QueueCapacity
          /\ Evicted \in {0, 1} /\ Evicted <= Len(queue)
      BY <2>1, EvictionMakesRoom
    <2>3. /\ Len(queue) \in Nat /\ available \in Nat /\ dropped \in Nat
          /\ PoolSize \in Nat
      BY DEF TypeOK
    <2>4. CASE queueClosed
      <3>1. /\ available' = available + 1 /\ capture' = "loop"
            /\ UNCHANGED <<queue, dropped, processing>>
        BY <1>6, <2>4 DEF Push
      <3>2. PoolConserved'
        BY <1>6, <2>3, <3>1
           DEF Push, PoolConserved, B2N, CaptureHolds, ProcessingHolds
      <3>3. available' \in 0 .. PoolSize
        BY <2>3, <3>1, <3>2 DEF PoolConserved, B2N
      <3>4. TypeOK'
        BY <1>6, <3>1, <3>3 DEF Push, TypeOK, CapturePC
      <3>5. Lifecycle'
        BY <1>6, <3>1 DEF Push, TypeOK, Lifecycle, Stopping
      <3>6. QED
        BY <3>2, <3>4, <3>5
    <2>5. CASE ~queueClosed
      <3>1. /\ queue' = q /\ available' = available + Evicted
            /\ dropped' = dropped + Evicted /\ capture' = "loop"
            /\ UNCHANGED processing
        BY <1>6, <2>5 DEF Push
      <3> HIDE DEF q
      <3>2. PoolConserved'
        <4>1. capture = "push"
          BY <1>6 DEF Push
        <4>2. QED
          BY <4>1, <2>2, <2>3, <3>1
             DEF PoolConserved, B2N, CaptureHolds, ProcessingHolds
      <3>3. available' \in 0 .. PoolSize /\ dropped' \in Nat
        BY <2>2, <2>3, <3>1, <3>2 DEF PoolConserved, B2N
      <3>4. TypeOK'
        BY <1>6, <2>2, <3>1, <3>3 DEF Push, TypeOK, CapturePC
      <3>5. Lifecycle'
        BY <1>6, <2>5, <3>1 DEF Push, TypeOK, Lifecycle, Stopping
      <3>6. QED
        BY <3>2, <3>4, <3>5
    <2>6. QED
      BY <2>4, <2>5
  <1>7. CASE CaptureFault
    <2>1. TypeOK'
      BY <1>7 DEF CaptureFault, TypeOK, CapturePC, PipelineState
    <2>2. Lifecycle'
      BY <1>7 DEF CaptureFault, TypeOK, Lifecycle, Stopping
    <2>3. PoolConserved'
      BY <1>7 DEF CaptureFault, TypeOK, PoolConserved, B2N, CaptureHolds,
         ProcessingHolds, Lifecycle
    <2>4. QED
      BY <2>1, <2>2, <2>3
  <1>8. QED
    BY <1>1, <1>2, <1>3, <1>4, <1>5, <1>6, <1>7
       DEF CaptureStep

(* Every step of processing_loop keeps it.                                 *)
LEMMA ProcessingKeepsCore ==
    ASSUME Core, ProcessingStep
    PROVE  Core'
  <1> USE SizesAssumption DEF Core, flags, gateVars, queueVars, poolVars,
          counters, work
  <1>1. CASE PopNewest
    <2>1. PoolConserved'
      BY <1>1 DEF PopNewest, TypeOK, PoolConserved, B2N, CaptureHolds,
         ProcessingHolds, Lifecycle
    <2>2. available' \in 0 .. PoolSize
      BY <1>1 DEF PopNewest, TypeOK, PoolConserved, B2N, CaptureHolds,
         ProcessingHolds
    <2>3. TypeOK'
      BY <1>1, <2>2 DEF PopNewest, TypeOK, ProcessingPC
    <2>4. Lifecycle'
      BY <1>1 DEF PopNewest, TypeOK, Lifecycle, Stopping
    <2>5. QED
      BY <2>1, <2>3, <2>4
  <1>2. CASE ProcessingExit
    <2>1. TypeOK'
      BY <1>2 DEF ProcessingExit, TypeOK, ProcessingPC
    <2>2. Lifecycle'
      BY <1>2 DEF ProcessingExit, TypeOK, Lifecycle, Stopping
    <2>3. PoolConserved'
      BY <1>2 DEF ProcessingExit, TypeOK, PoolConserved, B2N, CaptureHolds,
         ProcessingHolds, Lifecycle
    <2>4. QED
      BY <2>1, <2>2, <2>3
  <1>3. CASE PassGate
    <2>1. TypeOK'
      BY <1>3 DEF AtGate, PassGate, TypeOK, ProcessingPC
    <2>2. Lifecycle'
      BY <1>3 DEF AtGate, PassGate, TypeOK, Lifecycle, Stopping
    <2>3. PoolConserved'
      BY <1>3 DEF AtGate, PassGate, TypeOK, PoolConserved, B2N, CaptureHolds,
         ProcessingHolds, Lifecycle
    <2>4. QED
      BY <2>1, <2>2, <2>3
  <1>4. CASE CloseGate
    <2>1. TypeOK'
      BY <1>4 DEF AtGate, CloseGate, TypeOK, ProcessingPC
    <2>2. Lifecycle'
      BY <1>4 DEF AtGate, CloseGate, TypeOK, Lifecycle, Stopping
    <2>3. PoolConserved'
      BY <1>4 DEF AtGate, CloseGate, TypeOK, PoolConserved, B2N, CaptureHolds,
         ProcessingHolds, Lifecycle
    <2>4. QED
      BY <2>1, <2>2, <2>3
  <1>5. CASE BlockAtGate
    <2>1. TypeOK'
      BY <1>5 DEF BlockAtGate, TypeOK, ProcessingPC
    <2>2. Lifecycle'
      BY <1>5 DEF BlockAtGate, TypeOK, Lifecycle, Stopping
    <2>3. PoolConserved'
      BY <1>5 DEF BlockAtGate, TypeOK, PoolConserved, B2N, CaptureHolds,
         ProcessingHolds, Lifecycle
    <2>4. QED
      BY <2>1, <2>2, <2>3
  <1>6. CASE LeaveAtGate
    <2>1. PoolConserved'
      BY <1>6 DEF AtGate, LeaveAtGate, TypeOK, PoolConserved, B2N, CaptureHolds,
         ProcessingHolds, Lifecycle
    <2>2. available' \in 0 .. PoolSize
      BY <1>6 DEF AtGate, LeaveAtGate, TypeOK, PoolConserved, B2N, CaptureHolds,
         ProcessingHolds
    <2>3. TypeOK'
      BY <1>6, <2>2 DEF AtGate, LeaveAtGate, TypeOK, ProcessingPC
    <2>4. Lifecycle'
      BY <1>6 DEF AtGate, LeaveAtGate, TypeOK, Lifecycle, Stopping
    <2>5. QED
      BY <2>1, <2>3, <2>4
  <1>7. CASE TakeReference
    <2>1. TypeOK'
      BY <1>7 DEF TakeReference, TypeOK, ProcessingPC
    <2>2. Lifecycle'
      BY <1>7 DEF TakeReference, TypeOK, Lifecycle, Stopping
    <2>3. PoolConserved'
      BY <1>7 DEF TakeReference, TypeOK, PoolConserved, B2N, CaptureHolds,
         ProcessingHolds, Lifecycle
    <2>4. QED
      BY <2>1, <2>2, <2>3
  <1>8. CASE ProcessFrame
    <2>1. TypeOK'
      BY <1>8 DEF ProcessFrame, TypeOK, ProcessingPC
    <2>2. Lifecycle'
      BY <1>8 DEF ProcessFrame, TypeOK, Lifecycle, Stopping
    <2>3. PoolConserved'
      BY <1>8 DEF ProcessFrame, TypeOK, PoolConserved, B2N, CaptureHolds,
         ProcessingHolds, Lifecycle
    <2>4. QED
      BY <2>1, <2>2, <2>3
  <1>9. CASE Deliver
    <2>1. TypeOK'
      BY <1>9 DEF Deliver, TypeOK, ProcessingPC
    <2>2. Lifecycle'
      BY <1>9 DEF Deliver, TypeOK, Lifecycle, Stopping
    <2>3. PoolConserved'
      BY <1>9 DEF Deliver, TypeOK, PoolConserved, B2N, CaptureHolds,
         ProcessingHolds, Lifecycle
    <2>4. QED
      BY <2>1, <2>2, <2>3
  <1>10. CASE NotifyDone
    <2>1. PoolConserved'
      BY <1>10 DEF NotifyDone, TypeOK, PoolConserved, B2N, CaptureHolds,
         ProcessingHolds, Lifecycle
    <2>2. available' \in 0 .. PoolSize
      BY <1>10 DEF NotifyDone, TypeOK, PoolConserved, B2N, CaptureHolds,
         ProcessingHolds
    <2>3. TypeOK'
      BY <1>10, <2>2 DEF NotifyDone, TypeOK, ProcessingPC
    <2>4. Lifecycle'
      BY <1>10 DEF NotifyDone, TypeOK, Lifecycle, Stopping
    <2>5. QED
      BY <2>1, <2>3, <2>4
  <1>11. CASE ProcessingThrows
    <2>1. PoolConserved'
      BY <1>11 DEF ProcessingThrows, TypeOK, PoolConserved, B2N, CaptureHolds,
         ProcessingHolds, Lifecycle
    <2>2. available' \in 0 .. PoolSize
      BY <1>11 DEF ProcessingThrows, TypeOK, PoolConserved, B2N, CaptureHolds,
         ProcessingHolds
    <2>3. TypeOK'
      BY <1>11, <2>2 DEF ProcessingThrows, TypeOK, ProcessingPC
    <2>4. Lifecycle'
      BY <1>11 DEF ProcessingThrows, TypeOK, Lifecycle, Stopping
    <2>5. QED
      BY <2>1, <2>3, <2>4
  <1>12. CASE NotifyFault
    <2>1. TypeOK'
      BY <1>12 DEF NotifyFault, TypeOK, ProcessingPC
    <2>2. Lifecycle'
      BY <1>12 DEF NotifyFault, TypeOK, Lifecycle, Stopping
    <2>3. PoolConserved'
      BY <1>12 DEF NotifyFault, TypeOK, PoolConserved, B2N, CaptureHolds,
         ProcessingHolds, Lifecycle
    <2>4. QED
      BY <2>1, <2>2, <2>3
  <1>13. CASE ProcessingFault
    <2>1. TypeOK'
      BY <1>13 DEF ProcessingFault, TypeOK, ProcessingPC, PipelineState
    <2>2. Lifecycle'
      BY <1>13 DEF ProcessingFault, TypeOK, Lifecycle, Stopping
    <2>3. PoolConserved'
      BY <1>13 DEF ProcessingFault, TypeOK, PoolConserved, B2N, CaptureHolds,
         ProcessingHolds, Lifecycle
    <2>4. QED
      BY <2>1, <2>2, <2>3
  <1>14. QED
    BY <1>1, <1>2, <1>3, <1>4, <1>5, <1>6, <1>7, <1>8, <1>9, <1>10, <1>11,
       <1>12, <1>13
       DEF ProcessingStep

(* A spurious wakeup only takes a thread out of the set of sleepers.        *)
LEMMA NextKeepsCore == Core /\ [Next]_vars => Core'
  <1> SUFFICES ASSUME Core, [Next]_vars PROVE Core'
    OBVIOUS
  <1>1. CASE CallerAsks \/ CallerContinues
    BY <1>1, CallerKeepsCore
  <1>2. CASE CaptureStep
    BY <1>2, CaptureKeepsCore
  <1>3. CASE ProcessingStep
    BY <1>3, ProcessingKeepsCore
  <1>4. CASE SpuriousWakeup
    <2> USE <1>4 DEF SpuriousWakeup, Core, flags, gateVars, queueVars,
            poolVars, counters, work
    <2>1. TypeOK'
      BY DEF TypeOK
    <2>2. Lifecycle'
      BY DEF Lifecycle, Stopping
    <2>3. PoolConserved'
      BY DEF PoolConserved, B2N, CaptureHolds, ProcessingHolds
    <2>4. QED
      BY <2>1, <2>2, <2>3
  <1>5. CASE UNCHANGED vars
    <2> USE <1>5 DEF Core, vars, flags, gateVars, queueVars, poolVars,
            counters, work
    <2>1. TypeOK'
      BY DEF TypeOK
    <2>2. Lifecycle'
      BY DEF Lifecycle, Stopping
    <2>3. PoolConserved'
      BY DEF PoolConserved, B2N, CaptureHolds, ProcessingHolds
    <2>4. QED
      BY <2>1, <2>2, <2>3
  <1>6. QED
    BY <1>1, <1>2, <1>3, <1>4, <1>5 DEF Next

(* The core invariant: program counters, flags, locks and buffers agree in *)
(* every reachable state.                                                  *)
THEOREM CoreInvariant == Spec => []Core
  <1>1. QED
    BY InitCore, NextKeepsCore, PTL DEF Spec

(* What follows from Core directly.                                        *)

(* The type invariant, for every choice of the constants.                  *)
THEOREM TypeSafety == Spec => []TypeOK
  <1>1. Core => TypeOK
    BY DEF Core
  <1>2. QED
    BY <1>1, CoreInvariant, PTL

(* Every buffer of FramePool is free, queued or held by one thread.        *)
THEOREM PoolSafety == Spec => []PoolConserved
  <1>1. Core => PoolConserved
    BY DEF Core
  <1>2. QED
    BY <1>1, CoreInvariant, PTL

(* RuntimeConfig::validate's bound keeps capture_loop from ever waiting    *)
(* for a buffer.                                                           *)
THEOREM PoolSuffices == Spec => []PoolNeverExhausted
  <1>1. Core => PoolNeverExhausted
    <2>1. ASSUME Core, capture = "loop" PROVE available >= 2
      BY <2>1, SizesAssumption
         DEF Core, TypeOK, PoolConserved, B2N, CaptureHolds, ProcessingHolds
    <2>2. QED
      BY <2>1 DEF PoolNeverExhausted
  <1>2. QED
    BY <1>1, CoreInvariant, PTL

(* Core contains what start relies on after a stop.                        *)
LEMMA CoreRestartable == Core => StoppedIsRestartable
  <1> SUFFICES ASSUME Core, caller = "idle", state = "stopped"
               PROVE  /\ capture = "none" /\ processing = "none"
                      /\ pauseMutex = "free" /\ waiting = {} /\ ~active
                      /\ available = PoolSize /\ queue = <<>> /\ ~streaming
    BY DEF StoppedIsRestartable
  <1>1. /\ capture = "none" /\ processing = "none" /\ queue = <<>>
        /\ ~streaming /\ ~active /\ "caller" \notin waiting
        /\ "processing" \notin waiting
        /\ pauseMutex # "caller" /\ pauseMutex # "processing"
    BY DEF Core, Lifecycle
  <1>2. pauseMutex = "free" /\ waiting = {}
    BY <1>1 DEF Core, TypeOK
  <1>3. available = PoolSize
    BY <1>1 DEF Core, TypeOK, PoolConserved, B2N, CaptureHolds,
       ProcessingHolds
  <1>4. QED
    BY <1>1, <1>2, <1>3

(* stop leaves nothing behind, so FramePool::reopen never throws in start. *)
THEOREM RestartAlwaysPossible == Spec => []StoppedIsRestartable
  BY CoreRestartable, CoreInvariant, PTL

-----------------------------------------------------------------------------
(* Pausing.                                                                *)

(* In the paused state paused_ is set, no start or stop is under way, and  *)
(* once pause has returned the processing thread is not active.            *)
PauseHeld ==
    state = "paused" =>
        /\ paused
        /\ caller \in {"idle", "pauseTest", "pauseBlock"}
        /\ caller = "idle" => ~active

(* PauseHeld is inductive: processing_active_ is set only while paused_ is *)
(* clear, and pause returns only when it is clear.                         *)
LEMMA NextKeepsPauseHeld == Core /\ PauseHeld /\ [Next]_vars => PauseHeld'
  <1> SUFFICES ASSUME Core, PauseHeld, [Next]_vars PROVE PauseHeld'
    OBVIOUS
  <1> USE DEF Core, TypeOK, Lifecycle, Stopping, PauseHeld, flags, gateVars,
          queueVars, poolVars, counters, work
  <1>1. CASE Start
    BY <1>1 DEF Start, ResetSession
  <1>2. CASE StartFails
    BY <1>2 DEF StartFails, ResetSession
  <1>3. CASE SpawnCapture
    BY <1>3 DEF SpawnCapture
  <1>4. CASE SpawnProcessing
    BY <1>4 DEF SpawnProcessing
  <1>5. CASE SpawnFails
    BY <1>5 DEF SpawnFails
  <1>6. CASE PublishRunning
    BY <1>6 DEF PublishRunning
  <1>7. CASE Pause
    BY <1>7 DEF Pause
  <1>8. CASE PauseTest
    BY <1>8 DEF PauseTest
  <1>9. CASE PauseBlock
    BY <1>9 DEF PauseBlock
  <1>10. CASE Resume
    BY <1>10 DEF Resume
  <1>11. CASE StopSignal
    BY <1>11 DEF StopSignal
  <1>12. CASE CloseQueue
    BY <1>12 DEF CloseQueue
  <1>13. CASE ClosePool
    BY <1>13 DEF ClosePool
  <1>14. CASE StopCamera
    BY <1>14 DEF StopCamera
  <1>15. CASE JoinCapture
    BY <1>15 DEF JoinCapture
  <1>16. CASE JoinProcessing
    BY <1>16 DEF JoinProcessing
  <1>17. CASE AcquireFrame
    BY <1>17 DEF AcquireFrame
  <1>18. CASE CaptureExit
    BY <1>18 DEF CaptureExit
  <1>19. CASE GrabFrame
    BY <1>19 DEF GrabFrame
  <1>20. CASE GrabTimeout
    BY <1>20 DEF GrabTimeout
  <1>21. CASE GrabThrows
    BY <1>21 DEF GrabThrows
  <1>22. CASE Push
    BY <1>22 DEF Push
  <1>23. CASE CaptureFault
    BY <1>23 DEF CaptureFault
  <1>24. CASE PopNewest
    BY <1>24 DEF PopNewest
  <1>25. CASE ProcessingExit
    BY <1>25 DEF ProcessingExit
  <1>26. CASE PassGate
    BY <1>26 DEF AtGate, PassGate
  <1>27. CASE CloseGate
    BY <1>27 DEF AtGate, CloseGate
  <1>28. CASE BlockAtGate
    BY <1>28 DEF BlockAtGate
  <1>29. CASE LeaveAtGate
    BY <1>29 DEF AtGate, LeaveAtGate
  <1>30. CASE TakeReference
    BY <1>30 DEF TakeReference
  <1>31. CASE ProcessFrame
    BY <1>31 DEF ProcessFrame
  <1>32. CASE Deliver
    BY <1>32 DEF Deliver
  <1>33. CASE NotifyDone
    BY <1>33 DEF NotifyDone
  <1>34. CASE ProcessingThrows
    BY <1>34 DEF ProcessingThrows
  <1>35. CASE NotifyFault
    BY <1>35 DEF NotifyFault
  <1>36. CASE ProcessingFault
    BY <1>36 DEF ProcessingFault
  <1>37. CASE SpuriousWakeup
    BY <1>37 DEF SpuriousWakeup
  <1>38. CASE UNCHANGED vars
    BY <1>38 DEF vars
  <1>39. QED
    BY <1>1, <1>2, <1>3, <1>4, <1>5, <1>6, <1>7, <1>8, <1>9, <1>10, <1>11,
       <1>12, <1>13, <1>14, <1>15, <1>16, <1>17, <1>18, <1>19, <1>20, <1>21,
       <1>22, <1>23, <1>24, <1>25, <1>26, <1>27, <1>28, <1>29, <1>30, <1>31,
       <1>32, <1>33, <1>34, <1>35, <1>36, <1>37, <1>38
       DEF Next, CallerAsks, CallerContinues, CaptureStep, ProcessingStep

(* PauseHeld holds in every reachable state.                               *)
THEOREM PauseInvariant == Spec => [](Core /\ PauseHeld)
  <1>1. Init => PauseHeld
    BY DEF Init, PauseHeld
  <1>2. QED
    BY <1>1, InitCore, NextKeepsCore, NextKeepsPauseHeld, PTL DEF Spec

(* Once pause has returned nothing is processed or delivered until resume  *)
(* or stop.                                                                *)
THEOREM PauseIsEffective == Spec => PauseFreezes
  <1>1. Core /\ PauseHeld /\ [Next]_vars =>
            [caller = "idle" /\ state = "paused" =>
                 UNCHANGED <<processed, last, reference>>]_vars
    <2> SUFFICES ASSUME Core, PauseHeld, Next,
                        caller = "idle", state = "paused"
                 PROVE  UNCHANGED <<processed, last, reference>>
      BY DEF vars
    <2>1. processing \notin {"take", "deliver"}
      BY DEF Core, Lifecycle, PauseHeld
    <2>2. CASE CallerAsks \/ CallerContinues
      BY <2>2 DEF CallerAsks, CallerContinues, Start, StartFails, SpawnCapture,
         SpawnProcessing, SpawnFails, PublishRunning, Pause, PauseTest,
         PauseBlock, Resume, StopSignal, CloseQueue, ClosePool, StopCamera,
         JoinCapture, JoinProcessing, counters, work
    <2>3. CASE CaptureStep
      BY <2>3 DEF CaptureStep, AcquireFrame, CaptureExit, GrabFrame,
         GrabTimeout, GrabThrows, Push, CaptureFault, counters, work
    <2>4. CASE ProcessingStep
      BY <2>1, <2>4 DEF ProcessingStep, PopNewest, ProcessingExit, PassGate,
         CloseGate, BlockAtGate, LeaveAtGate, TakeReference, ProcessFrame,
         Deliver, NotifyDone, ProcessingThrows, NotifyFault, ProcessingFault,
         counters, work
    <2>5. CASE SpuriousWakeup
      BY <2>5 DEF SpuriousWakeup, counters, work
    <2>6. QED
      BY <2>2, <2>3, <2>4, <2>5 DEF Next
  <1>2. QED
    BY <1>1, PauseInvariant, PTL DEF Spec, PauseFreezes

-----------------------------------------------------------------------------
(* The order of frames.                                                    *)

(* The first frame number that is not yet queued.                          *)
Horizon == captured - B2N(capture = "push")

(* FramesInOrder, and what makes it inductive: everything known is older   *)
(* than the frame being pushed, and item is set exactly while the          *)
(* processing thread holds a frame.                                        *)
Ordered ==
    /\ \A i, j \in 1 .. Len(queue) : i < j => queue[i] < queue[j]
    /\ \A i \in 1 .. Len(queue) :
           /\ queue[i] < Horizon
           /\ item < queue[i] /\ last < queue[i] /\ reference < queue[i]
    /\ item < Horizon /\ last < Horizon /\ reference < Horizon
    /\ processing \in {"gate", "block", "take", "deliver"} =>
           last < item /\ reference < item
    /\ item # NoFrame <=> ProcessingHolds

(* What a step that moves no frame leaves alone.                           *)
LEMMA UnmovedFrames ==
    ASSUME Ordered, UNCHANGED <<queue, captured, item, last, reference>>,
           B2N(capture = "push")' = B2N(capture = "push"),
           ProcessingHolds' <=> ProcessingHolds,
           processing' \in {"gate", "block", "take", "deliver"} =>
               processing \in {"gate", "block", "take", "deliver"}
    PROVE  Ordered'
  <1>1. Horizon' = Horizon
    BY DEF Horizon
  <1>2. QED
    BY <1>1 DEF Ordered

(* Queued frames are integers, so that they can be compared.               *)
LEMMA QueueOfFrames ==
    ASSUME Core
    PROVE  Len(queue) \in Nat /\ \A i \in 1 .. Len(queue) : queue[i] \in Int
  <1>1. queue \in Seq(Frame) /\ Len(queue) \in Nat
    BY DEF Core, TypeOK
  <1>2. ASSUME NEW i \in 1 .. Len(queue) PROVE queue[i] \in Int
    <2>1. queue[i] \in Frame
      BY <1>1
    <2>2. QED
      BY <2>1 DEF Frame
  <1>3. QED
    BY <1>1, <1>2

(* Ordered is inductive: push appends the newest frame, wait_pop takes it, *)
(* and eviction only shortens the queue at its old end.                    *)
LEMMA NextKeepsOrdered == Core /\ Ordered /\ [Next]_vars => Ordered'
  <1> SUFFICES ASSUME Core, Ordered, [Next]_vars PROVE Ordered'
    OBVIOUS
  <1> USE DEF flags, gateVars, queueVars, poolVars, counters, work
  <1>1. CASE Start
    <2>1. /\ queue' = <<>> /\ captured' = 0 /\ capture' = capture
          /\ last' = NoFrame /\ reference' = NoFrame /\ item' = item
          /\ processing' = processing
      BY <1>1, CoreRestartable DEF Start, ResetSession, StoppedIsRestartable
    <2>2. capture = "none" /\ processing = "none"
      BY <1>1 DEF Start, Core, Lifecycle
    <2>3. item = NoFrame
      BY <2>2 DEF Ordered, ProcessingHolds
    <2>4. Len(queue') = 0
      BY <2>1
    <2>5. Horizon' = 0
      BY <2>1, <2>2 DEF Horizon, B2N
    <2>6. QED
      BY <2>1, <2>2, <2>3, <2>4, <2>5 DEF Ordered, ProcessingHolds, NoFrame
  <1>2. CASE StartFails
    <2>1. /\ queue' = <<>> /\ captured' = 0 /\ capture' = capture
          /\ last' = NoFrame /\ reference' = NoFrame /\ item' = item
          /\ processing' = processing
      BY <1>2, CoreRestartable DEF StartFails, ResetSession, StoppedIsRestartable
    <2>2. capture = "none" /\ processing = "none"
      BY <1>2 DEF StartFails, Core, Lifecycle
    <2>3. item = NoFrame
      BY <2>2 DEF Ordered, ProcessingHolds
    <2>4. Len(queue') = 0
      BY <2>1
    <2>5. Horizon' = 0
      BY <2>1, <2>2 DEF Horizon, B2N
    <2>6. QED
      BY <2>1, <2>2, <2>3, <2>4, <2>5 DEF Ordered, ProcessingHolds, NoFrame
  <1>3. CASE SpawnCapture
    BY <1>3, UnmovedFrames DEF Core, Lifecycle, SpawnCapture, B2N,
       ProcessingHolds
  <1>4. CASE SpawnProcessing
    BY <1>4, UnmovedFrames DEF Core, Lifecycle, SpawnProcessing, B2N,
       ProcessingHolds
  <1>5. CASE SpawnFails
    BY <1>5, UnmovedFrames DEF Core, Lifecycle, SpawnFails, B2N,
       ProcessingHolds
  <1>6. CASE PublishRunning
    BY <1>6, UnmovedFrames DEF PublishRunning, B2N, ProcessingHolds
  <1>7. CASE Pause
    BY <1>7, UnmovedFrames DEF Pause, B2N, ProcessingHolds
  <1>8. CASE PauseTest
    BY <1>8, UnmovedFrames DEF PauseTest, B2N, ProcessingHolds
  <1>9. CASE PauseBlock
    BY <1>9, UnmovedFrames DEF PauseBlock, B2N, ProcessingHolds
  <1>10. CASE Resume
    BY <1>10, UnmovedFrames DEF Resume, B2N, ProcessingHolds
  <1>11. CASE StopSignal
    BY <1>11, UnmovedFrames DEF StopSignal, B2N, ProcessingHolds
  <1>12. CASE CloseQueue
    <2>1. /\ queue' = <<>> /\ Len(queue') = 0 /\ Horizon' = Horizon
          /\ UNCHANGED <<item, last, reference, processing>>
      BY <1>12 DEF CloseQueue, Horizon, work, counters
    <2>2. QED
      BY <2>1 DEF Ordered, ProcessingHolds
  <1>13. CASE ClosePool
    BY <1>13, UnmovedFrames DEF ClosePool, B2N, ProcessingHolds
  <1>14. CASE StopCamera
    BY <1>14, UnmovedFrames DEF StopCamera, B2N, ProcessingHolds
  <1>15. CASE JoinCapture
    BY <1>15, UnmovedFrames DEF JoinCapture, B2N, ProcessingHolds
  <1>16. CASE JoinProcessing
    BY <1>16, UnmovedFrames DEF JoinProcessing, B2N, ProcessingHolds
  <1>17. CASE AcquireFrame
    BY <1>17, UnmovedFrames DEF AcquireFrame, B2N, ProcessingHolds
  <1>18. CASE CaptureExit
    BY <1>18, UnmovedFrames DEF CaptureExit, B2N, ProcessingHolds
  <1>19. CASE GrabFrame
    <2>1. /\ Horizon' = Horizon
          /\ UNCHANGED <<queue, item, last, reference, processing>>
      BY <1>19 DEF GrabFrame, Horizon, B2N, Core, TypeOK, work, queueVars
    <2>2. QED
      BY <2>1 DEF Ordered, ProcessingHolds
  <1>20. CASE GrabTimeout
    BY <1>20, UnmovedFrames DEF GrabTimeout, B2N, ProcessingHolds
  <1>21. CASE GrabThrows
    BY <1>21, UnmovedFrames DEF GrabThrows, B2N, ProcessingHolds
  <1>22. CASE Push
    <2>1. /\ Horizon = captured - 1 /\ Horizon' = captured
          /\ captured \in Int
          /\ UNCHANGED <<item, last, reference, processing>>
      BY <1>22 DEF Push, Horizon, B2N, Core, TypeOK, work
    <2>2. CASE queueClosed
      <3>1. UNCHANGED queue
        BY <1>22, <2>2 DEF Push
      <3>2. queue = <<>> /\ Len(queue) = 0
        BY <2>2 DEF Core, Lifecycle
      <3>3. QED
        BY <2>1, <3>1, <3>2 DEF Ordered, ProcessingHolds, Core, TypeOK, Frame,
           NoFrame
    <2>3. CASE ~queueClosed
      <3>1. queue' = Append(SubSeq(queue, Evicted + 1, Len(queue)), captured - 1)
        BY <1>22, <2>3 DEF Push
      <3>2. /\ Evicted \in {0, 1} /\ Evicted <= Len(queue)
            /\ Len(queue) \in Nat /\ queue \in Seq(Frame)
        BY SizesAssumption DEF Evicted, Core, TypeOK
      <3> DEFINE kept == SubSeq(queue, Evicted + 1, Len(queue))
      <3>3. /\ kept \in Seq(Frame) /\ Len(kept) = Len(queue) - Evicted
            /\ \A i \in 1 .. Len(kept) : kept[i] = queue[i + Evicted]
        BY <3>2
      <3> HIDE DEF kept
      <3>4. /\ Len(queue') = Len(kept) + 1
            /\ queue'[Len(kept) + 1] = captured - 1
            /\ \A i \in 1 .. Len(kept) : queue'[i] = queue[i + Evicted]
        BY <3>1, <3>3 DEF kept
      <3>5. \A i \in 1 .. Len(kept) : i + Evicted \in 1 .. Len(queue)
        BY <3>2, <3>3
      <3>6. \A i \in 1 .. Len(kept) :
               /\ queue[i + Evicted] < captured - 1
               /\ item < queue[i + Evicted] /\ last < queue[i + Evicted]
               /\ reference < queue[i + Evicted]
        BY <2>1, <3>5 DEF Ordered
      <3>7. /\ item < captured - 1 /\ last < captured - 1
            /\ reference < captured - 1
            /\ item \in Int /\ last \in Int /\ reference \in Int
        BY <2>1 DEF Ordered, Core, TypeOK, Frame, NoFrame
      <3>8. \A i \in 1 .. Len(kept) : queue[i + Evicted] \in Int
        BY <3>5, QueueOfFrames
      <3>9. ASSUME NEW i \in 1 .. Len(queue')
            PROVE  /\ queue'[i] < Horizon'
                   /\ item' < queue'[i] /\ last' < queue'[i]
                   /\ reference' < queue'[i]
        <4>1. CASE i = Len(kept) + 1
          BY <4>1, <2>1, <3>4, <3>7
        <4>2. CASE i \in 1 .. Len(kept)
          BY <4>2, <2>1, <3>4, <3>6, <3>8
        <4>3. QED
          BY <3>3, <3>4, <4>1, <4>2
      <3>10. ASSUME NEW i \in 1 .. Len(queue'), NEW j \in 1 .. Len(queue'),
                    i < j
             PROVE  queue'[i] < queue'[j]
        <4>1. i \in 1 .. Len(kept)
          BY <3>3, <3>4, <3>10
        <4>2. CASE j = Len(kept) + 1
          BY <4>1, <4>2, <3>4, <3>6
        <4>3. CASE j \in 1 .. Len(kept)
          <5>1. i + Evicted < j + Evicted
            BY <3>2, <3>10
          <5>2. queue[i + Evicted] < queue[j + Evicted]
            BY <4>1, <4>3, <5>1, <3>5 DEF Ordered
          <5>3. QED
            BY <4>1, <4>3, <5>2, <3>4
        <4>4. QED
          BY <3>3, <3>4, <4>2, <4>3
      <3>11. /\ item' < Horizon' /\ last' < Horizon'
             /\ reference' < Horizon'
        BY <2>1, <3>7
      <3>12. QED
        BY <2>1, <3>9, <3>10, <3>11 DEF Ordered, ProcessingHolds
    <2>4. QED
      BY <2>2, <2>3
  <1>23. CASE CaptureFault
    BY <1>23, UnmovedFrames DEF CaptureFault, B2N, ProcessingHolds
  <1>24. CASE PopNewest
    <2>1. /\ queue \in Seq(Frame) /\ Len(queue) \in 1 .. Len(queue)
          /\ queue[Len(queue)] \in Frame
      BY <1>24 DEF PopNewest, Core, TypeOK
    <2>2. /\ item' = queue[Len(queue)] /\ queue' = <<>> /\ Len(queue') = 0
          /\ processing' = "gate" /\ Horizon' = Horizon
          /\ UNCHANGED <<last, reference>>
      BY <1>24 DEF PopNewest, Horizon, counters
    <2>3. /\ item' < Horizon' /\ last' < item' /\ reference' < item'
          /\ item' # NoFrame
      BY <2>1, <2>2 DEF Ordered, Frame, NoFrame
    <2>4. QED
      BY <2>2, <2>3 DEF Ordered, ProcessingHolds
  <1>25. CASE ProcessingExit
    BY <1>25, UnmovedFrames DEF ProcessingExit, B2N, ProcessingHolds
  <1>26. CASE PassGate
    BY <1>26, UnmovedFrames DEF AtGate, PassGate, B2N, ProcessingHolds
  <1>27. CASE CloseGate
    BY <1>27, UnmovedFrames DEF AtGate, CloseGate, B2N, ProcessingHolds
  <1>28. CASE BlockAtGate
    BY <1>28, UnmovedFrames DEF BlockAtGate, B2N, ProcessingHolds
  <1>29. CASE LeaveAtGate
    <2>1. /\ item' = NoFrame /\ last' = last
          /\ processing' \notin {"gate", "block", "take", "deliver", "notify"}
          /\ processing = "gate"
          /\ Horizon' = Horizon /\ UNCHANGED <<queue, reference>>
      BY <1>29 DEF AtGate, LeaveAtGate, Horizon, queueVars, counters
    <2>2. item \in Int /\ item # NoFrame /\ NoFrame < item
      BY <2>1 DEF Ordered, ProcessingHolds, Core, TypeOK, Frame, NoFrame
    <2>3. /\ Horizon \in Int /\ Len(queue) \in Nat
          /\ \A i \in 1 .. Len(queue) : queue[i] \in Int
      BY QueueOfFrames DEF Core, TypeOK, Horizon, B2N
    <2>4. /\ NoFrame < Horizon
          /\ \A i \in 1 .. Len(queue) : NoFrame < queue[i]
      BY <2>2, <2>3 DEF Ordered, NoFrame
    <2>5. QED
      BY <2>1, <2>4 DEF Ordered, ProcessingHolds
  <1>30. CASE TakeReference
    <2>1. /\ reference' = item /\ UNCHANGED <<queue, item, last>>
          /\ processing' = "notify" /\ ProcessingHolds /\ ProcessingHolds'
          /\ Horizon' = Horizon
      BY <1>30 DEF TakeReference, ProcessingHolds, Horizon, queueVars, counters
    <2>2. QED
      BY <2>1 DEF Ordered
  <1>31. CASE ProcessFrame
    BY <1>31, UnmovedFrames DEF ProcessFrame, B2N, ProcessingHolds
  <1>32. CASE Deliver
    <2>1. /\ last' = item /\ UNCHANGED <<queue, item, reference>>
          /\ processing' = "notify" /\ ProcessingHolds /\ ProcessingHolds'
          /\ Horizon' = Horizon
      BY <1>32 DEF Deliver, ProcessingHolds, Horizon, queueVars, counters
    <2>2. QED
      BY <2>1 DEF Ordered
  <1>33. CASE NotifyDone
    <2>1. /\ item' = NoFrame /\ last' = last
          /\ processing' \notin {"gate", "block", "take", "deliver", "notify"}
          /\ processing = "notify"
          /\ Horizon' = Horizon /\ UNCHANGED <<queue, reference>>
      BY <1>33 DEF NotifyDone, Horizon, queueVars, counters
    <2>2. item \in Int /\ item # NoFrame /\ NoFrame < item
      BY <2>1 DEF Ordered, ProcessingHolds, Core, TypeOK, Frame, NoFrame
    <2>3. /\ Horizon \in Int /\ Len(queue) \in Nat
          /\ \A i \in 1 .. Len(queue) : queue[i] \in Int
      BY QueueOfFrames DEF Core, TypeOK, Horizon, B2N
    <2>4. /\ NoFrame < Horizon
          /\ \A i \in 1 .. Len(queue) : NoFrame < queue[i]
      BY <2>2, <2>3 DEF Ordered, NoFrame
    <2>5. QED
      BY <2>1, <2>4 DEF Ordered, ProcessingHolds
  <1>34. CASE ProcessingThrows
    <2>1. /\ item' = NoFrame /\ last' \in {last, item}
          /\ processing' \notin {"gate", "block", "take", "deliver", "notify"}
          /\ processing \in {"take", "deliver"}
          /\ Horizon' = Horizon /\ UNCHANGED <<queue, reference>>
      BY <1>34 DEF ProcessingThrows, Horizon, queueVars, counters
    <2>2. item \in Int /\ item # NoFrame /\ NoFrame < item
      BY <2>1 DEF Ordered, ProcessingHolds, Core, TypeOK, Frame, NoFrame
    <2>3. /\ Horizon \in Int /\ Len(queue) \in Nat
          /\ \A i \in 1 .. Len(queue) : queue[i] \in Int
      BY QueueOfFrames DEF Core, TypeOK, Horizon, B2N
    <2>4. /\ NoFrame < Horizon
          /\ \A i \in 1 .. Len(queue) : NoFrame < queue[i]
      BY <2>2, <2>3 DEF Ordered, NoFrame
    <2>5. QED
      BY <2>1, <2>4 DEF Ordered, ProcessingHolds
  <1>35. CASE NotifyFault
    BY <1>35, UnmovedFrames DEF NotifyFault, B2N, ProcessingHolds
  <1>36. CASE ProcessingFault
    BY <1>36, UnmovedFrames DEF ProcessingFault, B2N, ProcessingHolds
  <1>37. CASE SpuriousWakeup
    BY <1>37, UnmovedFrames DEF SpuriousWakeup, B2N, ProcessingHolds
  <1>38. CASE UNCHANGED vars
    BY <1>38, UnmovedFrames DEF vars, B2N, ProcessingHolds
  <1>39. QED
    BY <1>1, <1>2, <1>3, <1>4, <1>5, <1>6, <1>7, <1>8, <1>9, <1>10, <1>11,
       <1>12, <1>13, <1>14, <1>15, <1>16, <1>17, <1>18, <1>19, <1>20, <1>21,
       <1>22, <1>23, <1>24, <1>25, <1>26, <1>27, <1>28, <1>29, <1>30, <1>31,
       <1>32, <1>33, <1>34, <1>35, <1>36, <1>37, <1>38
       DEF Next, CallerAsks, CallerContinues, CaptureStep, ProcessingStep

(* The order of frames, as theorems.                                        *)
(* Ordered holds in every reachable state.                                 *)
THEOREM OrderInvariant == Spec => [](Core /\ Ordered)
  <1>1. Init => Ordered
    <2> SUFFICES ASSUME Init PROVE Ordered
      OBVIOUS
    <2>1. /\ Len(queue) = 0 /\ Horizon = 0 /\ processing = "none"
          /\ item = NoFrame /\ last = NoFrame /\ reference = NoFrame
      BY DEF Init, Horizon, B2N
    <2>2. QED
      BY <2>1 DEF Ordered, NoFrame, ProcessingHolds
  <1>2. QED
    BY <1>1, InitCore, NextKeepsCore, NextKeepsOrdered, PTL DEF Spec

(* Frames wait, are taken and are delivered in the order of capture.       *)
THEOREM FramesStayInOrder == Spec => []FramesInOrder
  <1>1. Ordered => FramesInOrder
    BY DEF Ordered, FramesInOrder, Horizon
  <1>2. QED
    BY <1>1, OrderInvariant, PTL

(* Results are delivered in strictly increasing frame order, after the     *)
(* reference, and only while the pipeline is not stopped.                  *)
THEOREM ResultsAreOrdered == Spec => ResultsInOrder
  <1>1. Core /\ Ordered /\ [Next]_vars =>
            [last' # last =>
                \/ last' > last /\ last' > reference /\ state # "stopped"
                \/ last' = NoFrame /\ state = "stopped"]_vars
    <2> SUFFICES ASSUME Core, Ordered, Next, last' # last
                 PROVE  \/ last' > last /\ last' > reference
                           /\ state # "stopped"
                        \/ last' = NoFrame /\ state = "stopped"
      BY DEF vars
    <2>1. CASE CallerAsks \/ CallerContinues
      BY <2>1 DEF CallerAsks, CallerContinues, Start, StartFails, SpawnCapture,
         SpawnProcessing, SpawnFails, PublishRunning, Pause, PauseTest,
         PauseBlock, Resume, StopSignal, CloseQueue, ClosePool, StopCamera,
         JoinCapture, JoinProcessing, ResetSession, work
    <2>2. CASE CaptureStep
      BY <2>2 DEF CaptureStep, AcquireFrame, CaptureExit, GrabFrame,
         GrabTimeout, GrabThrows, Push, CaptureFault, work
    <2>3. CASE ProcessingStep
      <3>1. CASE Deliver \/ ProcessingThrows
        <4>1. processing = "deliver" /\ last' = item
          BY <3>1 DEF Deliver, ProcessingThrows
        <4>2. last < item /\ reference < item /\ state # "stopped"
          BY <4>1 DEF Ordered, Core, Lifecycle
        <4>3. item \in Int /\ last \in Int /\ reference \in Int
          BY DEF Core, TypeOK, Frame, NoFrame
        <4>4. QED
          BY <4>1, <4>2, <4>3
      <3>2. CASE ~(Deliver \/ ProcessingThrows)
        BY <2>3, <3>2 DEF ProcessingStep, PopNewest, ProcessingExit, PassGate,
           CloseGate, BlockAtGate, LeaveAtGate, TakeReference, ProcessFrame,
           NotifyDone, NotifyFault, ProcessingFault, work
      <3>3. QED
        BY <3>1, <3>2
    <2>4. CASE SpuriousWakeup
      BY <2>4 DEF SpuriousWakeup, work
    <2>5. QED
      BY <2>1, <2>2, <2>3, <2>4 DEF Next
  <1>2. QED
    BY <1>1, OrderInvariant, PTL DEF Spec, ResultsInOrder

-----------------------------------------------------------------------------
(* The accounting of frames.                                               *)

(* How many captured frames each party may by now have let go uncounted:   *)
(* the processing thread what it had popped, close what was queued, push   *)
(* the one frame it brought to a closed queue.                             *)
ByProcessing ==
    IF \/ processing \in {"notifyFault", "fault", "done"}
       \/ processing = "none"
          /\ caller \notin {"spawnCapture", "spawnProcessing"}
    THEN QueueCapacity ELSE 0
ByClose == IF queueClosed THEN QueueCapacity ELSE 0
ByCapture == IF queueClosed /\ capture \notin {"grab", "push"} THEN 1 ELSE 0
Tolerance == ByProcessing + ByClose + ByCapture

Failing == processing \in {"notifyFault", "fault"}

(* The inductive form of NoSilentDrop and UncountedBounded.                *)
Ledger ==
    /\ ~stopRequested /\ ~Failing => Uncounted = 0
    /\ Uncounted >= 0 /\ Uncounted <= Tolerance
    /\ queueClosed => stopRequested
    /\ skipped # 0 => processing \in {"gate", "block"}

(* What the books are made of are integers.                                *)
LEMMA LedgerTypes ==
    ASSUME Core
    PROVE  /\ captured \in Nat /\ processed \in Nat /\ dropped \in Nat
           /\ Len(queue) \in Nat /\ Len(queue) <= QueueCapacity
           /\ skipped \in Nat /\ skipped <= QueueCapacity - 1
           /\ Uncounted \in Int
           /\ ByProcessing \in Nat /\ ByClose \in Nat /\ ByCapture \in Nat
           /\ Tolerance \in Nat
  <1>1. /\ captured \in Nat /\ processed \in Nat /\ dropped \in Nat
        /\ Len(queue) \in Nat /\ Len(queue) <= QueueCapacity
        /\ skipped \in Nat /\ skipped <= QueueCapacity - 1
    BY SizesAssumption DEF Core, TypeOK
  <1>2. Uncounted \in Int
    BY <1>1 DEF Uncounted, Counted, InFlight, B2N
  <1>3. ByProcessing \in Nat /\ ByClose \in Nat /\ ByCapture \in Nat
    BY SizesAssumption DEF ByProcessing, ByClose, ByCapture
  <1>4. QED
    BY <1>1, <1>2, <1>3 DEF Tolerance

(* A step that loses no frame and takes back no tolerance keeps the books. *)
LEMMA BalancedStep ==
    ASSUME Core, Core', Ledger,
           Uncounted' = Uncounted, queueClosed' = queueClosed,
           ByProcessing' >= ByProcessing, ByCapture' >= ByCapture,
           stopRequested => stopRequested',
           ~stopRequested' /\ ~Failing' => ~Failing,
           skipped' # 0 => processing' \in {"gate", "block"}
    PROVE  Ledger'
  <1>1. ByClose' = ByClose
    BY DEF ByClose
  <1>2. /\ Tolerance' \in Nat /\ Tolerance \in Nat /\ ByProcessing \in Nat
        /\ ByProcessing' \in Nat /\ ByCapture \in Nat /\ ByCapture' \in Nat
        /\ ByClose \in Nat
    BY LedgerTypes, SizesAssumption
       DEF Tolerance, ByProcessing, ByCapture, ByClose
  <1>3. Tolerance' >= Tolerance
    <2>1. \A a, b, c, d, e \in Nat :
              d >= a /\ e >= c => d + b + e >= a + b + c
      OBVIOUS
    <2>2. ByProcessing' + ByClose + ByCapture'
              >= ByProcessing + ByClose + ByCapture
      BY <1>2, <2>1
    <2>3. QED
      BY <1>1, <2>2 DEF Tolerance
  <1>4. Uncounted \in Int
    BY LedgerTypes
  <1>5. Uncounted' <= Tolerance'
    BY <1>2, <1>3, <1>4 DEF Ledger
  <1>6. QED
    BY <1>5 DEF Ledger

(* Every step keeps the books: it moves a frame from one account to        *)
(* another, or it is one of the few that lets frames go.                   *)
LEMMA NextKeepsLedger == Core /\ Ordered /\ Ledger /\ [Next]_vars => Ledger'
  <1> SUFFICES ASSUME Core, Core', Ordered, Ledger, [Next]_vars PROVE Ledger'
    BY NextKeepsCore
  <1> USE DEF flags, gateVars, queueVars, poolVars, counters, work
  <1>1. CASE Start
    <2>1. /\ queue' = <<>> /\ queueClosed' = FALSE /\ captured' = 0
          /\ processed' = 0 /\ dropped' = 0 /\ reference' = NoFrame
          /\ capture' = capture /\ processing' = processing
          /\ skipped' = skipped
      BY <1>1, CoreRestartable DEF Start, ResetSession, StoppedIsRestartable
    <2>2. capture = "none" /\ processing = "none"
      BY <1>1 DEF Start, Core, Lifecycle
    <2>3. skipped = 0
      BY <2>2 DEF Ledger
    <2>4. Len(queue') = 0
      BY <2>1
    <2>5. Uncounted' = 0
      <3>1. Counted' = 0
        BY <2>1 DEF Counted, B2N
      <3>2. InFlight' = 0
        BY <2>1, <2>2, <2>3, <2>4 DEF InFlight, B2N
      <3>3. QED
        BY <2>1, <3>1, <3>2 DEF Uncounted
    <2>6. Tolerance' \in Nat
      BY LedgerTypes, SizesAssumption
         DEF Tolerance, ByProcessing, ByClose, ByCapture
    <2>7. QED
      BY <2>1, <2>2, <2>3, <2>5, <2>6 DEF Ledger
  <1>2. CASE StartFails
    <2>1. /\ queue' = <<>> /\ queueClosed' = FALSE /\ captured' = 0
          /\ processed' = 0 /\ dropped' = 0 /\ reference' = NoFrame
          /\ capture' = capture /\ processing' = processing
          /\ skipped' = skipped
      BY <1>2, CoreRestartable DEF StartFails, ResetSession, StoppedIsRestartable
    <2>2. capture = "none" /\ processing = "none"
      BY <1>2 DEF StartFails, Core, Lifecycle
    <2>3. skipped = 0
      BY <2>2 DEF Ledger
    <2>4. Len(queue') = 0
      BY <2>1
    <2>5. Uncounted' = 0
      <3>1. Counted' = 0
        BY <2>1 DEF Counted, B2N
      <3>2. InFlight' = 0
        BY <2>1, <2>2, <2>3, <2>4 DEF InFlight, B2N
      <3>3. QED
        BY <2>1, <3>1, <3>2 DEF Uncounted
    <2>6. Tolerance' \in Nat
      BY LedgerTypes, SizesAssumption
         DEF Tolerance, ByProcessing, ByClose, ByCapture
    <2>7. QED
      BY <2>1, <2>2, <2>3, <2>5, <2>6 DEF Ledger
  <1>3. CASE SpawnCapture
    <2>1. Uncounted' = Uncounted
      BY <1>3 DEF SpawnCapture, Uncounted, Counted, InFlight, B2N, Core,
         Lifecycle
    <2>2. ByProcessing' >= ByProcessing /\ ByCapture' >= ByCapture
      BY <1>3, SizesAssumption DEF SpawnCapture, ByProcessing, ByCapture,
         Core, Lifecycle, Ledger
    <2>3. QED
      BY <1>3, <2>1, <2>2, BalancedStep DEF SpawnCapture, Failing, Ledger,
         Core, Lifecycle
  <1>4. CASE SpawnProcessing
    <2>1. Uncounted' = Uncounted
      BY <1>4 DEF SpawnProcessing, Uncounted, Counted, InFlight, B2N, Core,
         Lifecycle
    <2>2. ByProcessing' >= ByProcessing /\ ByCapture' >= ByCapture
      BY <1>4, SizesAssumption DEF SpawnProcessing, ByProcessing, ByCapture,
         Core, Lifecycle, Ledger
    <2>3. QED
      BY <1>4, <2>1, <2>2, BalancedStep DEF SpawnProcessing, Failing,
         Ledger, Core, Lifecycle
  <1>5. CASE SpawnFails
    <2>1. Uncounted' = Uncounted
      BY <1>5 DEF SpawnFails, Uncounted, Counted, InFlight, B2N
    <2>2. ByProcessing' >= ByProcessing /\ ByCapture' >= ByCapture
      BY <1>5, SizesAssumption DEF SpawnFails, ByProcessing, ByCapture,
         Core, Lifecycle, Ledger
    <2>3. QED
      BY <1>5, <2>1, <2>2, BalancedStep DEF SpawnFails, Failing, Ledger
  <1>6. CASE PublishRunning
    <2>1. Uncounted' = Uncounted
      BY <1>6 DEF PublishRunning, Uncounted, Counted, InFlight, B2N
    <2>2. ByProcessing' >= ByProcessing /\ ByCapture' >= ByCapture
      BY <1>6, SizesAssumption DEF PublishRunning, ByProcessing, ByCapture,
         Core, Lifecycle, Ledger
    <2>3. QED
      BY <1>6, <2>1, <2>2, BalancedStep DEF PublishRunning, Failing, Ledger
  <1>7. CASE Pause
    <2>1. Uncounted' = Uncounted
      BY <1>7 DEF Pause, Uncounted, Counted, InFlight, B2N
    <2>2. ByProcessing' >= ByProcessing /\ ByCapture' >= ByCapture
      BY <1>7, SizesAssumption DEF Pause, ByProcessing, ByCapture
    <2>3. QED
      BY <1>7, <2>1, <2>2, BalancedStep DEF Pause, Failing, Ledger
  <1>8. CASE PauseTest
    <2>1. Uncounted' = Uncounted
      BY <1>8 DEF PauseTest, Uncounted, Counted, InFlight, B2N
    <2>2. ByProcessing' >= ByProcessing /\ ByCapture' >= ByCapture
      BY <1>8, SizesAssumption DEF PauseTest, ByProcessing, ByCapture
    <2>3. QED
      BY <1>8, <2>1, <2>2, BalancedStep DEF PauseTest, Failing, Ledger
  <1>9. CASE PauseBlock
    <2>1. Uncounted' = Uncounted
      BY <1>9 DEF PauseBlock, Uncounted, Counted, InFlight, B2N
    <2>2. ByProcessing' >= ByProcessing /\ ByCapture' >= ByCapture
      BY <1>9, SizesAssumption DEF PauseBlock, ByProcessing, ByCapture
    <2>3. QED
      BY <1>9, <2>1, <2>2, BalancedStep DEF PauseBlock, Failing, Ledger
  <1>10. CASE Resume
    <2>1. Uncounted' = Uncounted
      BY <1>10 DEF Resume, Uncounted, Counted, InFlight, B2N
    <2>2. ByProcessing' >= ByProcessing /\ ByCapture' >= ByCapture
      BY <1>10, SizesAssumption DEF Resume, ByProcessing, ByCapture
    <2>3. QED
      BY <1>10, <2>1, <2>2, BalancedStep DEF Resume, Failing, Ledger
  <1>11. CASE StopSignal
    <2>1. Uncounted' = Uncounted
      BY <1>11 DEF StopSignal, Uncounted, Counted, InFlight, B2N
    <2>2. ByProcessing' >= ByProcessing /\ ByCapture' >= ByCapture
      BY <1>11, SizesAssumption DEF StopSignal, ByProcessing, ByCapture
    <2>3. QED
      BY <1>11, <2>1, <2>2, BalancedStep DEF StopSignal, Failing, Ledger
  <1>12. CASE CloseQueue
    <2>1. captured \in Nat /\ processed \in Nat /\ dropped \in Nat
          /\ Len(queue) \in Nat /\ Len(queue) <= QueueCapacity
          /\ skipped \in Nat
      BY LedgerTypes
    <2>2. /\ Len(queue') = 0 /\ queueClosed' /\ stopRequested'
          /\ UNCHANGED <<captured, processed, dropped, reference, skipped,
                         capture, processing>>
          /\ (queueClosed => Len(queue) = 0)
      BY <1>12 DEF CloseQueue, Core, Lifecycle, Stopping
    <2>3. Uncounted' = Uncounted + Len(queue)
      BY <2>1, <2>2 DEF Uncounted, Counted, InFlight, B2N
    <2>4. ByProcessing' = ByProcessing
      BY <1>12 DEF CloseQueue, ByProcessing
    <2>5. /\ ByProcessing \in Nat /\ ByClose \in Nat /\ ByCapture \in Nat
          /\ ByCapture' \in Nat /\ Uncounted \in Int
      BY LedgerTypes DEF ByCapture
    <2>6. /\ ByClose' = QueueCapacity
          /\ ByClose = (IF queueClosed THEN QueueCapacity ELSE 0)
      BY <2>2 DEF ByClose
    <2>7. ByCapture' >= ByCapture
      BY <2>2 DEF ByCapture
    <2>8. Uncounted' <= Tolerance'
      <3>1. CASE queueClosed
        <4>1. Uncounted' = Uncounted /\ ByClose' = ByClose
          BY <3>1, <2>2, <2>3, <2>5, <2>6
        <4>2. Uncounted <= ByProcessing + ByClose + ByCapture
          BY DEF Ledger, Tolerance
        <4>3. \A u \in Int : \A a, b, c, d \in Nat :
                  u <= a + b + c /\ d >= c => u <= a + b + d
          OBVIOUS
        <4>4. Uncounted <= ByProcessing + ByClose + ByCapture'
          BY <4>2, <4>3, <2>5, <2>7
        <4>5. QED
          BY <4>1, <4>4, <2>4 DEF Tolerance
      <3>2. CASE ~queueClosed
        BY <3>2, <2>1, <2>3, <2>4, <2>5, <2>6, <2>7, SizesAssumption
           DEF Ledger, Tolerance
      <3>3. QED
        BY <3>1, <3>2
    <2>9. QED
      BY <2>1, <2>2, <2>3, <2>5, <2>8 DEF Ledger
  <1>13. CASE ClosePool
    <2>1. Uncounted' = Uncounted
      BY <1>13 DEF ClosePool, Uncounted, Counted, InFlight, B2N
    <2>2. ByProcessing' >= ByProcessing /\ ByCapture' >= ByCapture
      BY <1>13, SizesAssumption DEF ClosePool, ByProcessing, ByCapture
    <2>3. QED
      BY <1>13, <2>1, <2>2, BalancedStep DEF ClosePool, Failing, Ledger
  <1>14. CASE StopCamera
    <2>1. Uncounted' = Uncounted
      BY <1>14 DEF StopCamera, Uncounted, Counted, InFlight, B2N
    <2>2. ByProcessing' >= ByProcessing /\ ByCapture' >= ByCapture
      BY <1>14, SizesAssumption DEF StopCamera, ByProcessing, ByCapture
    <2>3. QED
      BY <1>14, <2>1, <2>2, BalancedStep DEF StopCamera, Failing, Ledger
  <1>15. CASE JoinCapture
    <2>1. Uncounted' = Uncounted
      BY <1>15 DEF JoinCapture, Uncounted, Counted, InFlight, B2N, Core,
         Lifecycle
    <2>2. ByProcessing' >= ByProcessing /\ ByCapture' >= ByCapture
      BY <1>15, SizesAssumption DEF JoinCapture, ByProcessing, ByCapture,
         Core, Lifecycle, Ledger
    <2>3. QED
      BY <1>15, <2>1, <2>2, BalancedStep DEF JoinCapture, Failing, Ledger,
         Core, Lifecycle
  <1>16. CASE JoinProcessing
    <2>1. Uncounted' = Uncounted
      BY <1>16 DEF JoinProcessing, Uncounted, Counted, InFlight, B2N, Core,
         Lifecycle
    <2>2. ByProcessing' >= ByProcessing /\ ByCapture' >= ByCapture
      BY <1>16, SizesAssumption DEF JoinProcessing, ByProcessing, ByCapture,
         Core, Lifecycle, Ledger
    <2>3. QED
      BY <1>16, <2>1, <2>2, BalancedStep DEF JoinProcessing, Failing,
         Ledger, Core, Lifecycle
  <1>17. CASE AcquireFrame
    <2>1. Uncounted' = Uncounted
      BY <1>17 DEF AcquireFrame, Uncounted, Counted, InFlight, B2N
    <2>2. ByProcessing' >= ByProcessing /\ ByCapture' >= ByCapture
      BY <1>17, SizesAssumption DEF AcquireFrame, ByProcessing, ByCapture,
         Core, Lifecycle, Ledger
    <2>3. QED
      BY <1>17, <2>1, <2>2, BalancedStep DEF AcquireFrame, Failing, Ledger
  <1>18. CASE CaptureExit
    <2>1. Uncounted' = Uncounted
      BY <1>18 DEF CaptureExit, Uncounted, Counted, InFlight, B2N
    <2>2. ByProcessing' >= ByProcessing /\ ByCapture' >= ByCapture
      BY <1>18, SizesAssumption DEF CaptureExit, ByProcessing, ByCapture
    <2>3. QED
      BY <1>18, <2>1, <2>2, BalancedStep DEF CaptureExit, Failing, Ledger
  <1>19. CASE GrabFrame
    <2> captured \in Nat /\ processed \in Nat /\ dropped \in Nat
        /\ Len(queue) \in Nat /\ skipped \in Nat
      BY LedgerTypes
    <2>1. Uncounted' = Uncounted
      BY <1>19 DEF GrabFrame, Uncounted, Counted, InFlight, B2N
    <2>2. ByProcessing' >= ByProcessing /\ ByCapture' >= ByCapture
      BY <1>19, SizesAssumption DEF GrabFrame, ByProcessing, ByCapture
    <2>3. QED
      BY <1>19, <2>1, <2>2, BalancedStep DEF GrabFrame, Failing, Ledger
  <1>20. CASE GrabTimeout
    <2>1. Uncounted' = Uncounted
      BY <1>20 DEF GrabTimeout, Uncounted, Counted, InFlight, B2N
    <2>2. ByProcessing' >= ByProcessing /\ ByCapture' >= ByCapture
      BY <1>20, SizesAssumption DEF GrabTimeout, ByProcessing, ByCapture
    <2>3. QED
      BY <1>20, <2>1, <2>2, BalancedStep DEF GrabTimeout, Failing, Ledger
  <1>21. CASE GrabThrows
    <2>1. Uncounted' = Uncounted
      BY <1>21 DEF GrabThrows, Uncounted, Counted, InFlight, B2N
    <2>2. ByProcessing' >= ByProcessing /\ ByCapture' >= ByCapture
      BY <1>21, SizesAssumption DEF GrabThrows, ByProcessing, ByCapture
    <2>3. QED
      BY <1>21, <2>1, <2>2, BalancedStep DEF GrabThrows, Failing, Ledger
  <1>22. CASE Push
    <2>1. captured \in Nat /\ processed \in Nat /\ dropped \in Nat
          /\ Len(queue) \in Nat /\ skipped \in Nat /\ Uncounted \in Int
      BY LedgerTypes
    <2>2. /\ capture = "push" /\ capture' = "loop"
          /\ UNCHANGED <<captured, processed, reference, skipped, processing,
                         queueClosed, stopRequested, caller>>
      BY <1>22 DEF Push
    <2>3. CASE queueClosed
      <3>1. UNCHANGED <<queue, dropped>>
        BY <1>22, <2>3 DEF Push
      <3>2. Uncounted' = Uncounted + 1
        BY <2>1, <2>2, <3>1 DEF Uncounted, Counted, InFlight, B2N
      <3>3. /\ ByProcessing' = ByProcessing /\ ByClose' = ByClose
            /\ ByCapture = 0 /\ ByCapture' = 1
        BY <2>2, <2>3 DEF ByProcessing, ByClose, ByCapture
      <3>4. ByProcessing \in Nat /\ ByClose \in Nat
        BY LedgerTypes
      <3>5. Uncounted' <= Tolerance'
        BY <2>1, <3>2, <3>3, <3>4 DEF Ledger, Tolerance
      <3>6. stopRequested'
        BY <2>2, <2>3 DEF Ledger
      <3>7. QED
        BY <2>1, <2>2, <3>2, <3>5, <3>6 DEF Ledger
    <2>4. CASE ~queueClosed
      <3>1. captured - 1 \in Frame
        <4>1. captured \in 0 .. MaxFrames /\ captured > 0
          BY <2>2 DEF Core, TypeOK, Lifecycle
        <4>2. QED
          BY <4>1, SizesAssumption DEF Frame
      <3>2. /\ Len(queue') = Len(queue) - Evicted + 1
            /\ Evicted \in {0, 1} /\ dropped' = dropped + Evicted
        BY <1>22, <2>4, <3>1, EvictionMakesRoom DEF Push, Core
      <3>3. Uncounted' = Uncounted
        BY <2>1, <2>2, <3>2 DEF Uncounted, Counted, InFlight, B2N
      <3>4. ByProcessing' = ByProcessing /\ ByCapture' = ByCapture
        BY <2>2, <2>4 DEF ByProcessing, ByCapture
      <3>5. ByProcessing \in Nat /\ ByCapture \in Nat
        BY LedgerTypes
      <3>6. QED
        BY <2>2, <3>3, <3>4, <3>5, BalancedStep DEF Ledger, Failing
    <2>5. QED
      BY <2>3, <2>4
  <1>23. CASE CaptureFault
    <2>1. Uncounted' = Uncounted
      BY <1>23 DEF CaptureFault, Uncounted, Counted, InFlight, B2N
    <2>2. ByProcessing' >= ByProcessing /\ ByCapture' >= ByCapture
      BY <1>23, SizesAssumption DEF CaptureFault, ByProcessing, ByCapture
    <2>3. QED
      BY <1>23, <2>1, <2>2, BalancedStep DEF CaptureFault, Failing, Ledger
  <1>24. CASE PopNewest
    <2>1. captured \in Nat /\ processed \in Nat /\ dropped \in Nat
          /\ Len(queue) \in Nat /\ skipped \in Nat
      BY LedgerTypes
    <2>2. skipped = 0 \/ processing \in {"gate", "block"}
      BY DEF Ledger
    <2>3. Len(queue') = 0 /\ skipped = 0 /\ skipped' = Len(queue) - 1
      BY <1>24, <2>2 DEF PopNewest
    <2>4. Uncounted' = Uncounted
      BY <1>24, <2>1, <2>2, <2>3 DEF PopNewest, Uncounted, Counted,
         InFlight, B2N
    <2>5. ByProcessing' >= ByProcessing /\ ByCapture' >= ByCapture
      BY <1>24, SizesAssumption DEF PopNewest, ByProcessing, ByCapture
    <2>6. QED
      BY <1>24, <2>2, <2>3, <2>4, <2>5, BalancedStep DEF PopNewest, Failing,
         Ledger
  <1>25. CASE ProcessingExit
    <2>1. Uncounted' = Uncounted
      BY <1>25 DEF ProcessingExit, Uncounted, Counted, InFlight, B2N
    <2>2. ByProcessing' >= ByProcessing /\ ByCapture' >= ByCapture
      BY <1>25, SizesAssumption DEF ProcessingExit, ByProcessing, ByCapture
    <2>3. QED
      BY <1>25, <2>1, <2>2, BalancedStep DEF ProcessingExit, Failing, Ledger
  <1>26. CASE PassGate
    <2>1. captured \in Nat /\ processed \in Nat /\ dropped \in Nat
          /\ Len(queue) \in Nat /\ skipped \in Nat
      BY LedgerTypes
    <2>2. skipped = 0 \/ processing \in {"gate", "block"}
      BY DEF Ledger
    <2>3. Len(queue') = Len(queue)
      BY <1>26 DEF AtGate, PassGate
    <2>4. Uncounted' = Uncounted
      BY <1>26, <2>1, <2>2, <2>3 DEF AtGate, PassGate, Uncounted, Counted,
         InFlight, B2N
    <2>5. ByProcessing' >= ByProcessing /\ ByCapture' >= ByCapture
      BY <1>26, SizesAssumption DEF AtGate, PassGate, ByProcessing,
         ByCapture
    <2>6. QED
      BY <1>26, <2>2, <2>3, <2>4, <2>5, BalancedStep DEF AtGate, PassGate,
         Failing, Ledger
  <1>27. CASE CloseGate
    <2>1. Uncounted' = Uncounted
      BY <1>27 DEF AtGate, CloseGate, Uncounted, Counted, InFlight, B2N
    <2>2. ByProcessing' >= ByProcessing /\ ByCapture' >= ByCapture
      BY <1>27, SizesAssumption DEF AtGate, CloseGate, ByProcessing,
         ByCapture
    <2>3. QED
      BY <1>27, <2>1, <2>2, BalancedStep DEF AtGate, CloseGate, Failing,
         Ledger
  <1>28. CASE BlockAtGate
    <2>1. Uncounted' = Uncounted
      BY <1>28 DEF BlockAtGate, Uncounted, Counted, InFlight, B2N
    <2>2. ByProcessing' >= ByProcessing /\ ByCapture' >= ByCapture
      BY <1>28, SizesAssumption DEF BlockAtGate, ByProcessing, ByCapture
    <2>3. QED
      BY <1>28, <2>1, <2>2, BalancedStep DEF BlockAtGate, Failing, Ledger
  <1>29. CASE LeaveAtGate
    <2>1. captured \in Nat /\ processed \in Nat /\ dropped \in Nat
          /\ Len(queue) \in Nat /\ skipped \in Nat
          /\ skipped <= QueueCapacity - 1 /\ Uncounted \in Int
      BY LedgerTypes
    <2>2. /\ processing = "gate" /\ processing' = "done" /\ skipped' = 0
          /\ stopRequested'
          /\ UNCHANGED <<captured, processed, dropped, reference, queue,
                         queueClosed, capture>>
      BY <1>29 DEF AtGate, LeaveAtGate
    <2>3. Uncounted' = Uncounted + skipped + 1
      BY <2>1, <2>2 DEF Uncounted, Counted, InFlight, B2N
    <2>4. /\ ByProcessing = 0 /\ ByProcessing' = QueueCapacity
          /\ ByClose' = ByClose /\ ByCapture' = ByCapture
      BY <2>2 DEF ByProcessing, ByClose, ByCapture
    <2>5. ByClose \in Nat /\ ByCapture \in Nat
      BY LedgerTypes
    <2>6. Uncounted' <= Tolerance'
      BY <2>1, <2>3, <2>4, <2>5, SizesAssumption DEF Ledger, Tolerance
    <2>7. QED
      BY <2>1, <2>2, <2>3, <2>6 DEF Ledger
  <1>30. CASE TakeReference
    <2>1. item # NoFrame
      BY <1>30 DEF TakeReference, Ordered, ProcessingHolds
    <2>2. captured \in Nat /\ processed \in Nat /\ dropped \in Nat
          /\ Len(queue) \in Nat /\ skipped \in Nat
      BY LedgerTypes
    <2>3. skipped = 0 \/ processing \in {"gate", "block"}
      BY DEF Ledger
    <2>4. Len(queue') = Len(queue)
      BY <1>30 DEF TakeReference
    <2>5. Uncounted' = Uncounted
      BY <1>30, <2>2, <2>3, <2>4, <2>1 DEF TakeReference, Uncounted, Counted,
         InFlight, B2N
    <2>6. ByProcessing' >= ByProcessing /\ ByCapture' >= ByCapture
      BY <1>30, SizesAssumption DEF TakeReference, ByProcessing, ByCapture
    <2>7. QED
      BY <1>30, <2>3, <2>4, <2>5, <2>6, BalancedStep DEF TakeReference,
         Failing, Ledger
  <1>31. CASE ProcessFrame
    <2>1. captured \in Nat /\ processed \in Nat /\ dropped \in Nat
          /\ Len(queue) \in Nat /\ skipped \in Nat
      BY LedgerTypes
    <2>2. skipped = 0 \/ processing \in {"gate", "block"}
      BY DEF Ledger
    <2>3. Len(queue') = Len(queue)
      BY <1>31 DEF ProcessFrame
    <2>4. Uncounted' = Uncounted
      BY <1>31, <2>1, <2>2, <2>3 DEF ProcessFrame, Uncounted, Counted,
         InFlight, B2N
    <2>5. ByProcessing' >= ByProcessing /\ ByCapture' >= ByCapture
      BY <1>31, SizesAssumption DEF ProcessFrame, ByProcessing, ByCapture
    <2>6. QED
      BY <1>31, <2>2, <2>3, <2>4, <2>5, BalancedStep DEF ProcessFrame,
         Failing, Ledger
  <1>32. CASE Deliver
    <2>1. Uncounted' = Uncounted
      BY <1>32 DEF Deliver, Uncounted, Counted, InFlight, B2N
    <2>2. ByProcessing' >= ByProcessing /\ ByCapture' >= ByCapture
      BY <1>32, SizesAssumption DEF Deliver, ByProcessing, ByCapture
    <2>3. QED
      BY <1>32, <2>1, <2>2, BalancedStep DEF Deliver, Failing, Ledger
  <1>33. CASE NotifyDone
    <2>1. Uncounted' = Uncounted
      BY <1>33 DEF NotifyDone, Uncounted, Counted, InFlight, B2N
    <2>2. ByProcessing' >= ByProcessing /\ ByCapture' >= ByCapture
      BY <1>33, SizesAssumption DEF NotifyDone, ByProcessing, ByCapture
    <2>3. QED
      BY <1>33, <2>1, <2>2, BalancedStep DEF NotifyDone, Failing, Ledger
  <1>34. CASE ProcessingThrows
    <2>1. captured \in Nat /\ processed \in Nat /\ dropped \in Nat
          /\ Len(queue) \in Nat /\ skipped \in Nat /\ Uncounted \in Int
      BY LedgerTypes
    <2>2. /\ processing \in {"take", "deliver"}
          /\ processing' = "notifyFault"
          /\ UNCHANGED <<captured, processed, dropped, reference, queue,
                         skipped, queueClosed, capture, stopRequested>>
      BY <1>34 DEF ProcessingThrows
    <2>3. Uncounted' = Uncounted \/ Uncounted' = Uncounted + 1
      BY <2>1, <2>2 DEF Uncounted, Counted, InFlight, B2N
    <2>4. /\ ByProcessing = 0 /\ ByProcessing' = QueueCapacity
          /\ ByClose' = ByClose /\ ByCapture' = ByCapture
      BY <2>2 DEF ByProcessing, ByClose, ByCapture
    <2>5. ByClose \in Nat /\ ByCapture \in Nat
      BY LedgerTypes
    <2>6. Uncounted' <= Tolerance'
      BY <2>1, <2>3, <2>4, <2>5, SizesAssumption DEF Ledger, Tolerance
    <2>7. QED
      BY <2>1, <2>2, <2>3, <2>6 DEF Ledger, Failing
  <1>35. CASE NotifyFault
    <2>1. Uncounted' = Uncounted
      BY <1>35 DEF NotifyFault, Uncounted, Counted, InFlight, B2N
    <2>2. ByProcessing' >= ByProcessing /\ ByCapture' >= ByCapture
      BY <1>35, SizesAssumption DEF NotifyFault, ByProcessing, ByCapture
    <2>3. QED
      BY <1>35, <2>1, <2>2, BalancedStep DEF NotifyFault, Failing, Ledger
  <1>36. CASE ProcessingFault
    <2>1. Uncounted' = Uncounted
      BY <1>36 DEF ProcessingFault, Uncounted, Counted, InFlight, B2N
    <2>2. ByProcessing' >= ByProcessing /\ ByCapture' >= ByCapture
      BY <1>36, SizesAssumption DEF ProcessingFault, ByProcessing, ByCapture
    <2>3. QED
      BY <1>36, <2>1, <2>2, BalancedStep DEF ProcessingFault, Failing,
         Ledger
  <1>37. CASE SpuriousWakeup
    <2>1. Uncounted' = Uncounted
      BY <1>37 DEF SpuriousWakeup, Uncounted, Counted, InFlight, B2N
    <2>2. ByProcessing' >= ByProcessing /\ ByCapture' >= ByCapture
      BY <1>37, SizesAssumption DEF SpuriousWakeup, ByProcessing, ByCapture
    <2>3. QED
      BY <1>37, <2>1, <2>2, BalancedStep DEF SpuriousWakeup, Failing, Ledger
  <1>38. CASE UNCHANGED vars
    <2>1. Uncounted' = Uncounted
      BY <1>38 DEF vars, Uncounted, Counted, InFlight
    <2>2. ByProcessing' = ByProcessing /\ ByCapture' = ByCapture
      BY <1>38 DEF vars, ByProcessing, ByCapture
    <2>3. ByProcessing \in Nat /\ ByCapture \in Nat
      BY LedgerTypes
    <2>4. QED
      BY <1>38, <2>1, <2>2, <2>3, BalancedStep DEF vars, Failing, Ledger
  <1>39. QED
    BY <1>1, <1>2, <1>3, <1>4, <1>5, <1>6, <1>7, <1>8, <1>9, <1>10, <1>11,
       <1>12, <1>13, <1>14, <1>15, <1>16, <1>17, <1>18, <1>19, <1>20, <1>21,
       <1>22, <1>23, <1>24, <1>25, <1>26, <1>27, <1>28, <1>29, <1>30, <1>31,
       <1>32, <1>33, <1>34, <1>35, <1>36, <1>37, <1>38
       DEF Next, CallerAsks, CallerContinues, CaptureStep, ProcessingStep

(* The books balance in every reachable state.                             *)
THEOREM LedgerInvariant == Spec => [](Core /\ Ordered /\ Ledger)
  <1>1. Init => Ledger
    <2> SUFFICES ASSUME Init PROVE Ledger
      OBVIOUS
    <2>1. /\ Len(queue) = 0 /\ captured = 0 /\ processed = 0 /\ dropped = 0
          /\ skipped = 0 /\ reference = NoFrame /\ capture = "none"
          /\ processing = "none" /\ queueClosed = FALSE
      BY DEF Init
    <2>2. Uncounted = 0
      <3>1. Counted = 0
        BY <2>1 DEF Counted, B2N
      <3>2. InFlight = 0
        BY <2>1 DEF InFlight, B2N
      <3>3. QED
        BY <2>1, <3>1, <3>2 DEF Uncounted
    <2>3. Tolerance \in Nat
      BY SizesAssumption DEF Tolerance, ByProcessing, ByClose, ByCapture
    <2>4. QED
      BY <2>1, <2>2, <2>3 DEF Ledger
  <1>2. QED
    BY <1>1, OrderInvariant, NextKeepsLedger, PTL DEF Spec

(* As long as no stop is requested and no frame is failing, every captured *)
(* frame is accounted for by the metrics or still held by the pipeline.    *)
THEOREM NothingDropsSilently == Spec => []NoSilentDrop
  <1>1. Ledger => NoSilentDrop
    BY DEF Ledger, NoSilentDrop, Failing
  <1>2. QED
    BY <1>1, LedgerInvariant, PTL

(* No frame is counted twice, and a session leaves at most two queues of   *)
(* frames and one more uncounted.                                          *)
THEOREM LossIsBounded == Spec => []UncountedBounded
  <1>1. Core /\ Ledger => UncountedBounded
    <2> SUFFICES ASSUME Core, Ledger PROVE UncountedBounded
      OBVIOUS
    <2>1. Uncounted \in Int /\ Uncounted >= 0 /\ Uncounted <= Tolerance
      BY LedgerTypes DEF Ledger
    <2>2. /\ ByProcessing \in Nat /\ ByProcessing <= QueueCapacity
          /\ ByClose \in Nat /\ ByClose <= QueueCapacity
          /\ ByCapture \in Nat /\ ByCapture <= 1
      BY SizesAssumption DEF ByProcessing, ByClose, ByCapture
    <2>3. Tolerance <= 2 * QueueCapacity + 1
      BY <2>2, SizesAssumption DEF Tolerance
    <2>4. QED
      BY <2>1, <2>2, <2>3, SizesAssumption DEF UncountedBounded, Tolerance
  <1>2. QED
    BY <1>1, LedgerInvariant, PTL

------------------------------------------------------------------------------
(***************************************************************************)
(* The pipeline implements the machine its owner sees, PipelineContract,   *)
(* under the mapping of Pipeline's Owner: every step of the pipeline is a  *)
(* step of the contract or leaves what the owner sees alone.  Core says    *)
(* which program counters and flags go together, PauseHeld that a paused   *)
(* pipeline begins no frame, Ordered that results leave in order.          *)
(***************************************************************************)

(* The steps that move the pool, the queue, the gate and the counters only *)
(* do not show.                                                            *)
LEMMA NothingShows ==
    ASSUME UNCHANGED <<state, stopRequested, streaming, last, CallOf,
                       CaptureOf, ProcessingOf>>
    PROVE  UNCHANGED Owner!lifeVars
  BY DEF Owner!lifeVars

(* start spawns the capture thread first; a spawned thread stays until it  *)
(* is joined.                                                              *)
Spawned ==
    /\ caller \in {"spawnProcessing", "publish"} => capture # "none"
    /\ caller = "publish" => processing # "none"

(* No thread disappears while start spawns them.                           *)
LEMMA NextKeepsSpawned == Spawned /\ [Next]_vars => Spawned'
  <1> SUFFICES ASSUME Spawned, [Next]_vars PROVE Spawned'
    OBVIOUS
  <1> USE DEF Spawned
  <1>1. CASE CallerAsks \/ CallerContinues
    BY <1>1 DEF CallerAsks, CallerContinues, Start, StartFails, SpawnCapture,
       SpawnProcessing, SpawnFails, PublishRunning, Pause, PauseTest,
       PauseBlock, Resume, StopSignal, CloseQueue, ClosePool, StopCamera,
       JoinCapture, JoinProcessing
  <1>2. CASE CaptureStep
    BY <1>2 DEF CaptureStep, AcquireFrame, CaptureExit, GrabFrame,
       GrabTimeout, GrabThrows, Push, CaptureFault
  <1>3. CASE ProcessingStep
    BY <1>3 DEF ProcessingStep, PopNewest, ProcessingExit, AtGate, PassGate,
       CloseGate, BlockAtGate, LeaveAtGate, TakeReference, ProcessFrame,
       Deliver, NotifyDone, ProcessingThrows, NotifyFault, ProcessingFault
  <1>4. CASE SpuriousWakeup \/ UNCHANGED vars
    BY <1>4 DEF SpuriousWakeup, vars
  <1>5. QED
    BY <1>1, <1>2, <1>3, <1>4 DEF Next

(* Threads that are being spawned are there.                               *)
LEMMA SpawnedInvariant == Spec => []Spawned
  <1>1. Init => Spawned
    BY DEF Init, Spawned
  <1>2. QED
    BY <1>1, NextKeepsSpawned, PTL DEF Spec

(* Every step of the pipeline is a step of the contract, or none.          *)
LEMMA StepOfContract ==
    Core /\ PauseHeld /\ Ordered /\ Spawned /\ [Next]_vars
        => [Owner!Next]_(Owner!lifeVars)
  <1> SUFFICES ASSUME Core, PauseHeld, Ordered, Spawned, [Next]_vars
               PROVE  [Owner!Next]_(Owner!lifeVars)
    OBVIOUS
  <1> USE DEF Core, TypeOK, Lifecycle, CallOf, CaptureOf, ProcessingOf, flags,
          gateVars, queueVars, poolVars, counters, work
  <1>1. CASE Start
    <2>1. Owner!Start
      BY <1>1 DEF Start, Owner!Start, ResetSession, CapturePC, NoFrame, Owner!NoFrame
    <2>2. QED
      BY <2>1 DEF Owner!Next
  <1>2. CASE StartFails
    <2>1. available = PoolSize
      BY <1>2, CoreRestartable DEF StartFails, StoppedIsRestartable
    <2>2. Owner!StartFails
      BY <1>2, <2>1 DEF StartFails, ResetSession, Owner!StartFails, NoFrame,
         Owner!NoFrame
    <2>3. QED
      BY <2>2 DEF Owner!Next
  <1>3. CASE SpawnCapture
    <2>1. Owner!SpawnCapture
      BY <1>3 DEF SpawnCapture, Owner!SpawnCapture
    <2>2. QED
      BY <2>1 DEF Owner!Next
  <1>4. CASE SpawnProcessing
    <2>1. Owner!SpawnProcessing
      BY <1>4 DEF SpawnProcessing, Owner!SpawnProcessing, Spawned
    <2>2. QED
      BY <2>1 DEF Owner!Next
  <1>5. CASE SpawnFails
    <2>1. Owner!SpawnFails
      BY <1>5 DEF SpawnFails, Owner!SpawnFails
    <2>2. QED
      BY <2>1 DEF Owner!Next
  <1>6. CASE PublishRunning
    <2>1. Owner!PublishRunning
      BY <1>6 DEF PublishRunning, Owner!PublishRunning, Spawned, ProcessingPC
    <2>2. QED
      BY <2>1 DEF Owner!Next
  <1>7. CASE Pause
    <2>1. Owner!Pause
      BY <1>7 DEF Pause, Owner!Pause
    <2>2. QED
      BY <2>1 DEF Owner!Next
  <1>8. CASE PauseTest
    <2>1. CASE active
      BY <1>8, <2>1, NothingShows DEF PauseTest
    <2>2. CASE ~active
      <3>1. Owner!PauseReturns
        BY <1>8, <2>2 DEF PauseTest, Owner!PauseReturns, ProcessingPC
      <3>2. QED
        BY <3>1 DEF Owner!Next
    <2>3. QED
      BY <2>1, <2>2
  <1>9. CASE PauseBlock
    BY <1>9, NothingShows DEF PauseBlock
  <1>10. CASE Resume
    <2>1. Owner!Resume
      BY <1>10 DEF Resume, Owner!Resume
    <2>2. QED
      BY <2>1 DEF Owner!Next
  <1>11. CASE StopSignal
    <2>1. Owner!StopSignal
      BY <1>11 DEF StopSignal, Owner!StopSignal
    <2>2. QED
      BY <2>1 DEF Owner!Next
  <1>12. CASE CloseQueue
    BY <1>12, NothingShows DEF CloseQueue
  <1>13. CASE ClosePool
    BY <1>13, NothingShows DEF ClosePool
  <1>14. CASE StopCamera
    <2>1. Owner!StopCamera
      BY <1>14 DEF StopCamera, Owner!StopCamera
    <2>2. QED
      BY <2>1 DEF Owner!Next
  <1>15. CASE JoinCapture
    <2>1. CASE capture = "none"
      BY <1>15, <2>1, NothingShows DEF JoinCapture
    <2>2. CASE capture = "done"
      <3>1. Owner!JoinCapture
        BY <1>15, <2>2 DEF JoinCapture, Owner!JoinCapture
      <3>2. QED
        BY <3>1 DEF Owner!Next
    <2>3. QED
      BY <1>15, <2>1, <2>2 DEF JoinCapture
  <1>16. CASE JoinProcessing
    <2>1. Owner!StopReturns
      BY <1>16 DEF JoinProcessing, Owner!StopReturns
    <2>2. QED
      BY <2>1 DEF Owner!Next
  <1>17. CASE AcquireFrame
    BY <1>17, NothingShows DEF AcquireFrame
  <1>18. CASE CaptureExit
    <2>1. Owner!CaptureEnds
      BY <1>18 DEF CaptureExit, Owner!CaptureEnds
    <2>2. QED
      BY <2>1 DEF Owner!Next
  <1>19. CASE GrabFrame
    BY <1>19, NothingShows DEF GrabFrame
  <1>20. CASE GrabTimeout
    BY <1>20, NothingShows DEF GrabTimeout
  <1>21. CASE GrabThrows
    <2>1. Owner!CaptureThrows
      BY <1>21 DEF GrabThrows, Owner!CaptureThrows
    <2>2. QED
      BY <2>1 DEF Owner!Next
  <1>22. CASE Push
    BY <1>22, NothingShows DEF Push
  <1>23. CASE CaptureFault
    <2>1. Owner!CaptureFault
      BY <1>23 DEF CaptureFault, Owner!CaptureFault
    <2>2. QED
      BY <2>1 DEF Owner!Next
  <1>24. CASE PopNewest
    BY <1>24, NothingShows DEF PopNewest
  <1>25. CASE ProcessingExit
    <2>1. Owner!ProcessingEnds
      BY <1>25 DEF ProcessingExit, Owner!ProcessingEnds
    <2>2. QED
      BY <2>1 DEF Owner!Next
  <1>26. CASE PassGate
    <2>1. Owner!BeginFrame
      BY <1>26 DEF PassGate, Owner!BeginFrame, AtGate, PauseHeld
    <2>2. QED
      BY <2>1 DEF Owner!Next
  <1>27. CASE CloseGate
    BY <1>27, NothingShows DEF CloseGate, AtGate
  <1>28. CASE BlockAtGate
    BY <1>28, NothingShows DEF BlockAtGate
  <1>29. CASE LeaveAtGate
    <2>1. Owner!ProcessingEnds
      BY <1>29 DEF LeaveAtGate, Owner!ProcessingEnds, AtGate
    <2>2. QED
      BY <2>1 DEF Owner!Next
  <1>30. CASE TakeReference
    <2>1. Owner!TakeReference
      BY <1>30 DEF TakeReference, Owner!TakeReference
    <2>2. QED
      BY <2>1 DEF Owner!Next
  <1>31. CASE ProcessFrame
    BY <1>31, NothingShows DEF ProcessFrame
  <1>32. CASE Deliver
    <2>1. item \in Frame /\ last < item
      BY <1>32 DEF Deliver, Ordered, ProcessingHolds, Frame, NoFrame
    <2>2. Owner!Deliver
      BY <1>32, <2>1 DEF Deliver, Owner!Deliver, Frame, Owner!Frame
    <2>3. QED
      BY <2>2 DEF Owner!Next
  <1>33. CASE NotifyDone
    BY <1>33, NothingShows DEF NotifyDone
  <1>34. CASE ProcessingThrows
    <2>1. processing = "deliver" => item \in Frame /\ last < item
      BY <1>34 DEF Ordered, ProcessingHolds, Frame, NoFrame
    <2>2. last' \in Frame \cup {last} /\ last' >= last
      BY <1>34, <2>1 DEF ProcessingThrows, Frame, NoFrame
    <2>3. Owner!ProcessingThrows
      BY <1>34, <2>2 DEF ProcessingThrows, Owner!ProcessingThrows, Frame,
         Owner!Frame
    <2>4. QED
      BY <2>3 DEF Owner!Next
  <1>35. CASE NotifyFault
    BY <1>35, NothingShows DEF NotifyFault
  <1>36. CASE ProcessingFault
    <2>1. Owner!ProcessingFault
      BY <1>36 DEF ProcessingFault, Owner!ProcessingFault
    <2>2. QED
      BY <2>1 DEF Owner!Next
  <1>37. CASE SpuriousWakeup
    BY <1>37, NothingShows DEF SpuriousWakeup
  <1>38. CASE UNCHANGED vars
    BY <1>38, NothingShows DEF vars
  <1>39. QED
    BY <1>1, <1>2, <1>3, <1>4, <1>5, <1>6, <1>7, <1>8, <1>9, <1>10, <1>11,
       <1>12, <1>13, <1>14, <1>15, <1>16, <1>17, <1>18, <1>19, <1>20,
       <1>21, <1>22, <1>23, <1>24, <1>25, <1>26, <1>27, <1>28, <1>29,
       <1>30, <1>31, <1>32, <1>33, <1>34, <1>35, <1>36, <1>37, <1>38
       DEF Next, CallerAsks, CallerContinues, CaptureStep, ProcessingStep

(* The owner of a pipeline can rely on the contract: whatever the threads, *)
(* the pool, the queue and the gate do, it sees the calls, faults, joins   *)
(* and results of PipelineContract.                                        *)
THEOREM PipelineKeepsContract == Spec => KeepsContract
  <1>1. Init => Owner!Init
    BY DEF Init, Owner!Init, CallOf, CaptureOf, ProcessingOf, NoFrame,
       Owner!NoFrame
  <1>2. QED
    BY <1>1, StepOfContract, PauseInvariant, OrderInvariant,
       SpawnedInvariant, PTL
       DEF Spec, KeepsContract, Owner!Contract

=============================================================================
