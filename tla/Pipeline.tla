------------------------------ MODULE Pipeline ------------------------------
(***************************************************************************)
(* The Edge measurement pipeline (class ProcessingPipeline) with its frame *)
(* pool (FramePool), its latest-frame queue (LatestQueue) and the          *)
(* streaming flag of its camera.  Three threads run it:                    *)
(*                                                                         *)
(*   - the caller of start, pause, resume and stop (one at a time: the     *)
(*     Edge calls them under command_mutex),                               *)
(*   - the capture thread, capture_loop,                                   *)
(*   - the processing thread, processing_loop.                             *)
(*                                                                         *)
(* An action is a run of code of one thread between two points where what  *)
(* another thread does could make a difference.  Waiting on                *)
(* pause_condition_ is two actions, the test of the predicate under        *)
(* pause_mutex_ and the blocking that releases it, because notify_all is   *)
(* called WITHOUT the mutex and may fall between them.                     *)
(*                                                                         *)
(* A frame is its sequence number.  A camera numbers the frames it         *)
(* delivers from 0, so the number of the next frame is `captured'.  Pixel  *)
(* buffers are interchangeable: of the pool only the number of free ones   *)
(* is kept.  Timeouts of acquire, wait_pop and grab that only re-run the   *)
(* loop are stuttering steps; timings, statistics and the                  *)
(* capture_timeouts_ counter are left out.                                 *)
(***************************************************************************)
EXTENDS Integers, Sequences

CONSTANTS
    PoolSize,           \* runtime.frame_pool_size
    QueueCapacity,      \* runtime.capture_queue_size
    MaxFrames,          \* frames the camera delivers in a session (bound)
    CameraMayFail,      \* may open, start and grab throw?
    ProcessingMayFail,  \* may the engine or a callback throw?
    CallerMayPause      \* does the caller use pause and resume?

ASSUME SizesAssumption ==
    /\ QueueCapacity \in Nat \ {0}
    /\ PoolSize \in Nat
    /\ PoolSize >= QueueCapacity + 3        \* RuntimeConfig::validate
    /\ MaxFrames \in Nat

ASSUME EnvironmentAssumption ==
    /\ CameraMayFail \in BOOLEAN
    /\ ProcessingMayFail \in BOOLEAN
    /\ CallerMayPause \in BOOLEAN

VARIABLES
    state,          \* state_
    stopRequested,  \* stop_requested_
    paused,         \* paused_
    active,         \* processing_active_
    pauseMutex,     \* who is between a failed test and blocking
    waiting,        \* threads blocked on pause_condition_
    queue,          \* capture_queue_: frames, oldest first
    queueClosed,    \* its closed_
    available,      \* number of free buffers of frame_pool_
    poolClosed,     \* its closed_
    streaming,      \* the camera's streaming_
    reference,      \* reference_, or NoFrame
    captured,       \* captured_, and the camera's sequence_
    processed,      \* processed_
    dropped,        \* dropped_
    item,           \* the frame wait_pop returned, or NoFrame
    skipped,        \* the skipped count it returned
    last,           \* last frame whose result went to the callback
    caller,         \* program counter of the calling thread
    capture,        \* program counter of the capture thread
    processing      \* program counter of the processing thread

flags == <<state, stopRequested, paused>>
gateVars == <<active, pauseMutex, waiting>>
queueVars == <<queue, queueClosed>>
poolVars == <<available, poolClosed>>
counters == <<captured, processed, dropped>>
work == <<reference, item, skipped, last>>
vars == <<flags, gateVars, queueVars, poolVars, streaming, counters, work,
          caller, capture, processing>>

NoFrame == -1
Frame == 0 .. (MaxFrames - 1)

PipelineState ==
    {"stopped", "starting", "running", "paused", "stopping", "faulted"}

CallerPC ==
    {"idle", "spawnCapture", "spawnProcessing", "publish",
     "pauseTest", "pauseBlock",
     "closeQueue", "closePool", "stopCamera", "joinCapture", "joinProcessing"}

CapturePC == {"none", "loop", "grab", "push", "fault", "done"}

ProcessingPC ==
    {"none", "loop", "gate", "block", "take", "deliver", "notify",
     "notifyFault", "fault", "done"}

(* Buffers held by a local variable of a thread.                           *)
CaptureHolds == capture \in {"grab", "push"}
ProcessingHolds ==
    processing \in {"gate", "block", "take", "deliver", "notify"}
B2N(b) == IF b THEN 1 ELSE 0

Init ==
    /\ state = "stopped" /\ stopRequested = FALSE /\ paused = FALSE
    /\ active = FALSE /\ pauseMutex = "free" /\ waiting = {}
    /\ queue = <<>> /\ queueClosed = FALSE
    /\ available = PoolSize /\ poolClosed = FALSE
    /\ streaming = FALSE
    /\ captured = 0 /\ processed = 0 /\ dropped = 0
    /\ reference = NoFrame /\ item = NoFrame /\ skipped = 0 /\ last = NoFrame
    /\ caller = "idle" /\ capture = "none" /\ processing = "none"

-----------------------------------------------------------------------------
(* The caller: start.  Until the first thread is spawned nobody else runs. *)

(* The flags, the pool, the queue and the counters of a new session.       *)
ResetSession ==
    /\ paused' = FALSE /\ active' = FALSE
    /\ IF available = PoolSize
       THEN /\ poolClosed' = FALSE
            /\ queue' = <<>> /\ queueClosed' = FALSE
            /\ reference' = NoFrame
            /\ captured' = 0 /\ processed' = 0 /\ dropped' = 0
            /\ last' = NoFrame
       ELSE UNCHANGED <<poolClosed, queueVars, reference, counters, last>>
    /\ UNCHANGED <<pauseMutex, waiting, available, item, skipped>>

Start ==
    /\ caller = "idle" /\ state = "stopped"
    /\ available = PoolSize               \* FramePool::reopen does not throw
    /\ state' = "starting" /\ stopRequested' = FALSE
    /\ ResetSession
    /\ streaming' = TRUE
    /\ caller' = "spawnCapture"
    /\ UNCHANGED <<capture, processing>>

(* reopen, open or start of the camera throws.                             *)
StartFails ==
    /\ caller = "idle" /\ state = "stopped"
    /\ CameraMayFail \/ available # PoolSize
    /\ state' = "faulted" /\ stopRequested' = TRUE
    /\ ResetSession
    /\ streaming' = FALSE
    /\ UNCHANGED <<caller, capture, processing>>

SpawnCapture ==
    /\ caller = "spawnCapture"
    /\ capture' = "loop"
    /\ caller' = "spawnProcessing"
    /\ UNCHANGED <<flags, gateVars, queueVars, poolVars, streaming, counters,
                   work, processing>>

SpawnProcessing ==
    /\ caller = "spawnProcessing"
    /\ processing' = "loop"
    /\ caller' = "publish"
    /\ UNCHANGED <<flags, gateVars, queueVars, poolVars, streaming, counters,
                   work, capture>>

(* std::thread's constructor throws; the capture thread may be running.    *)
SpawnFails ==
    /\ caller \in {"spawnCapture", "spawnProcessing"}
    /\ state' = "faulted" /\ stopRequested' = TRUE
    /\ streaming' = FALSE
    /\ caller' = "idle"
    /\ UNCHANGED <<paused, gateVars, queueVars, poolVars, counters, work,
                   capture, processing>>

PublishRunning ==
    /\ caller = "publish"
    /\ state' = "running"
    /\ caller' = "idle"
    /\ UNCHANGED <<stopRequested, paused, gateVars, queueVars, poolVars,
                   streaming, counters, work, capture, processing>>

-----------------------------------------------------------------------------
(* The caller: pause and resume.                                           *)

Pause ==
    /\ CallerMayPause
    /\ caller = "idle" /\ state = "running"
    /\ state' = "paused" /\ paused' = TRUE
    /\ caller' = "pauseTest"
    /\ UNCHANGED <<stopRequested, gateVars, queueVars, poolVars, streaming,
                   counters, work, capture, processing>>

(* Bug for a mutant: pause does not look at processing_active_.            *)
PauseTestNoWait ==
    /\ caller = "pauseTest" /\ pauseMutex = "free"
    /\ caller' = "idle"
    /\ UNCHANGED <<flags, gateVars, queueVars, poolVars, streaming, counters,
                   work, capture, processing>>

(* The predicate of pause's wait, evaluated with pause_mutex_ held.        *)
PauseTest ==
    /\ caller = "pauseTest" /\ pauseMutex = "free" /\ "caller" \notin waiting
    /\ \/ ~active /\ caller' = "idle" /\ UNCHANGED pauseMutex
       \/ active /\ caller' = "pauseBlock" /\ pauseMutex' = "caller"
    /\ UNCHANGED <<flags, active, waiting, queueVars, poolVars, streaming,
                   counters, work, capture, processing>>

PauseBlock ==
    /\ caller = "pauseBlock"
    /\ pauseMutex' = "free" /\ waiting' = waiting \cup {"caller"}
    /\ caller' = "pauseTest"
    /\ UNCHANGED <<flags, active, queueVars, poolVars, streaming, counters,
                   work, capture, processing>>

(* resume clears paused_ and notifies without taking pause_mutex_.         *)
Resume ==
    /\ caller = "idle" /\ state = "paused"
    /\ state' = "running" /\ paused' = FALSE
    /\ waiting' = {}
    /\ UNCHANGED <<stopRequested, active, pauseMutex, queueVars, poolVars,
                   streaming, counters, work, caller, capture, processing>>

-----------------------------------------------------------------------------
(* The caller: stop.  A stopped pipeline returns at once.                  *)

(* Bug for a mutant: stop wakes the threads but does not set its flag.     *)
StopSignalForgetsFlag ==
    /\ caller = "idle" /\ state # "stopped"
    /\ state' = IF state = "faulted" THEN state ELSE "stopping"
    /\ paused' = FALSE
    /\ waiting' = {}
    /\ caller' = "closeQueue"
    /\ UNCHANGED <<stopRequested, active, pauseMutex, queueVars, poolVars,
                   streaming, counters, work, capture, processing>>

StopSignal ==
    /\ caller = "idle" /\ state # "stopped"
    /\ state' = IF state = "faulted" THEN state ELSE "stopping"
    /\ stopRequested' = TRUE /\ paused' = FALSE
    /\ waiting' = {}
    /\ caller' = "closeQueue"
    /\ UNCHANGED <<active, pauseMutex, queueVars, poolVars, streaming,
                   counters, work, capture, processing>>

CloseQueue ==
    /\ caller = "closeQueue"
    /\ queueClosed' = TRUE /\ queue' = <<>>
    /\ available' = available + Len(queue)
    /\ caller' = "closePool"
    /\ UNCHANGED <<flags, gateVars, poolClosed, streaming, counters, work,
                   capture, processing>>

ClosePool ==
    /\ caller = "closePool"
    /\ poolClosed' = TRUE
    /\ caller' = "stopCamera"
    /\ UNCHANGED <<flags, gateVars, queueVars, available, streaming, counters,
                   work, capture, processing>>

StopCamera ==
    /\ caller = "stopCamera"
    /\ streaming' = FALSE
    /\ caller' = "joinCapture"
    /\ UNCHANGED <<flags, gateVars, queueVars, poolVars, counters, work,
                   capture, processing>>

JoinCapture ==
    /\ caller = "joinCapture" /\ capture \in {"none", "done"}
    /\ capture' = "none"
    /\ caller' = "joinProcessing"
    /\ UNCHANGED <<flags, gateVars, queueVars, poolVars, streaming, counters,
                   work, processing>>

(* The second join, the closing of the camera and the final store.         *)
JoinProcessing ==
    /\ caller = "joinProcessing" /\ processing \in {"none", "done"}
    /\ processing' = "none"
    /\ streaming' = FALSE
    /\ state' = "stopped"
    /\ caller' = "idle"
    /\ UNCHANGED <<stopRequested, paused, gateVars, queueVars, poolVars,
                   counters, work, capture>>

-----------------------------------------------------------------------------
(* The capture thread.                                                     *)

(* The test of the loop and FramePool::acquire, which succeeds.  An        *)
(* acquire that overlaps stop is the one that came just before it.         *)
AcquireFrame ==
    /\ capture = "loop" /\ ~stopRequested
    /\ ~poolClosed /\ available > 0
    /\ available' = available - 1
    /\ capture' = "grab"
    /\ UNCHANGED <<flags, gateVars, queueVars, poolClosed, streaming, counters,
                   work, caller, processing>>

CaptureExit ==
    /\ capture = "loop" /\ stopRequested
    /\ capture' = "done"
    /\ UNCHANGED <<flags, gateVars, queueVars, poolVars, streaming, counters,
                   work, caller, processing>>

(* grab is called on a streaming camera and delivers the next frame.  The  *)
(* camera tests its flag first and fills the frame afterwards, so a stop   *)
(* in between is one that came after this step.                            *)
GrabFrame ==
    /\ capture = "grab" /\ streaming
    /\ captured < MaxFrames
    /\ captured' = captured + 1
    /\ capture' = "push"
    /\ UNCHANGED <<flags, gateVars, queueVars, poolVars, streaming, processed,
                   dropped, work, caller, processing>>

(* grab returns false: the frame goes back to the pool.                    *)
GrabTimeout ==
    /\ capture = "grab" /\ streaming
    /\ available' = available + 1
    /\ capture' = "loop"
    /\ UNCHANGED <<flags, gateVars, queueVars, poolClosed, streaming, counters,
                   work, caller, processing>>

(* grab throws: the device fails, or the camera is no longer streaming.    *)
GrabThrows ==
    /\ capture = "grab"
    /\ CameraMayFail \/ ~streaming
    /\ available' = available + 1
    /\ capture' = "fault"
    /\ UNCHANGED <<flags, gateVars, queueVars, poolClosed, streaming, counters,
                   work, caller, processing>>

(* Frames push removes from a full queue to make room.                     *)
Evicted ==
    IF Len(queue) >= QueueCapacity THEN Len(queue) - QueueCapacity + 1 ELSE 0

(* Bug for a mutant: the evicted frames are not counted in dropped_.       *)
PushUncounted ==
    /\ capture = "push"
    /\ IF queueClosed
       THEN /\ available' = available + 1
            /\ UNCHANGED queue
       ELSE /\ queue' = Append(SubSeq(queue, Evicted + 1, Len(queue)),
                               captured - 1)
            /\ available' = available + Evicted
    /\ capture' = "loop"
    /\ UNCHANGED <<flags, gateVars, queueClosed, poolClosed, streaming,
                   counters, work, caller, processing>>

Push ==
    /\ capture = "push"
    /\ IF queueClosed
       THEN /\ available' = available + 1
            /\ UNCHANGED <<queue, dropped>>
       ELSE /\ queue' = Append(SubSeq(queue, Evicted + 1, Len(queue)),
                               captured - 1)
            /\ available' = available + Evicted
            /\ dropped' = dropped + Evicted
    /\ capture' = "loop"
    /\ UNCHANGED <<flags, gateVars, queueClosed, poolClosed, streaming,
                   captured, processed, work, caller, processing>>

(* The handlers of capture_loop call report_fault.                         *)
CaptureFault ==
    /\ capture = "fault"
    /\ state' = "faulted" /\ stopRequested' = TRUE
    /\ capture' = "done"
    /\ UNCHANGED <<paused, gateVars, queueVars, poolVars, streaming, counters,
                   work, caller, processing>>

-----------------------------------------------------------------------------
(* The processing thread.                                                  *)

(* wait_pop takes the newest frame; the older ones are released.           *)
PopNewest ==
    /\ processing = "loop" /\ ~stopRequested
    /\ queue # <<>>
    /\ item' = queue[Len(queue)] /\ skipped' = Len(queue) - 1
    /\ queue' = <<>>
    /\ available' = available + (Len(queue) - 1)
    /\ processing' = "gate"
    /\ UNCHANGED <<flags, gateVars, queueClosed, poolClosed, streaming,
                   counters, reference, last, caller, capture>>

ProcessingExit ==
    /\ processing = "loop" /\ stopRequested
    /\ processing' = "done"
    /\ UNCHANGED <<flags, gateVars, queueVars, poolVars, streaming, counters,
                   work, caller, capture>>

AtGate ==
    /\ processing = "gate"
    /\ pauseMutex = "free" /\ "processing" \notin waiting

(* The predicate holds and the thread does not stop: it becomes active     *)
(* before it releases pause_mutex_, and counts what wait_pop skipped.      *)
PassGate ==
    /\ AtGate /\ ~stopRequested /\ ~paused
    /\ active' = TRUE
    /\ dropped' = dropped + skipped /\ skipped' = 0
    /\ processing' = "take"
    /\ UNCHANGED <<flags, pauseMutex, waiting, queueVars, poolVars, streaming,
                   captured, processed, reference, item, last, caller,
                   capture>>

(* The predicate does not hold: the thread is about to block.              *)
CloseGate ==
    /\ AtGate /\ ~stopRequested /\ paused
    /\ pauseMutex' = "processing"
    /\ processing' = "block"
    /\ UNCHANGED <<flags, active, waiting, queueVars, poolVars, streaming,
                   counters, work, caller, capture>>

BlockAtGate ==
    /\ processing = "block"
    /\ pauseMutex' = "free" /\ waiting' = waiting \cup {"processing"}
    /\ processing' = "gate"
    /\ UNCHANGED <<flags, active, queueVars, poolVars, streaming, counters,
                   work, caller, capture>>

(* Bug for a mutant: leaving at the gate keeps the frame.                  *)
LeaveAtGateLeaks ==
    /\ AtGate /\ stopRequested
    /\ item' = NoFrame /\ skipped' = 0
    /\ processing' = "done"
    /\ UNCHANGED <<flags, gateVars, queueVars, poolVars, streaming, counters,
                   reference, last, caller, capture>>

(* A stop was requested: the frame is released and the thread ends.        *)
LeaveAtGate ==
    /\ AtGate /\ stopRequested
    /\ available' = available + 1
    /\ item' = NoFrame /\ skipped' = 0
    /\ processing' = "done"
    /\ UNCHANGED <<flags, gateVars, queueVars, poolClosed, streaming, counters,
                   reference, last, caller, capture>>

(* The first frame of a session is copied as the reference.                *)
TakeReference ==
    /\ processing = "take" /\ reference = NoFrame
    /\ reference' = item
    /\ active' = FALSE
    /\ processing' = "notify"
    /\ UNCHANGED <<flags, pauseMutex, waiting, queueVars, poolVars, streaming,
                   counters, item, skipped, last, caller, capture>>

(* The engine and the strain estimator succeed.                            *)
ProcessFrame ==
    /\ processing = "take" /\ reference # NoFrame
    /\ processed' = processed + 1
    /\ processing' = "deliver"
    /\ UNCHANGED <<flags, gateVars, queueVars, poolVars, streaming, captured,
                   dropped, work, caller, capture>>

(* The result and the preview callback return.                             *)
Deliver ==
    /\ processing = "deliver"
    /\ last' = item
    /\ active' = FALSE
    /\ processing' = "notify"
    /\ UNCHANGED <<flags, pauseMutex, waiting, queueVars, poolVars, streaming,
                   counters, reference, item, skipped, caller, capture>>

(* notify_all, and the end of the iteration releases the frame.            *)
NotifyDone ==
    /\ processing = "notify"
    /\ waiting' = {}
    /\ available' = available + 1 /\ item' = NoFrame
    /\ processing' = "loop"
    /\ UNCHANGED <<flags, active, pauseMutex, queueVars, poolClosed, streaming,
                   counters, reference, skipped, last, caller, capture>>

(* The engine, the estimator or a callback throws; the preview callback    *)
(* does so after the result was delivered.  Unwinding releases the frame.  *)
ProcessingThrows ==
    /\ ProcessingMayFail
    /\ \/ processing = "take" /\ reference # NoFrame /\ UNCHANGED last
       \/ processing = "deliver" /\ last' \in {last, item}
    /\ available' = available + 1 /\ item' = NoFrame
    /\ active' = FALSE
    /\ processing' = "notifyFault"
    /\ UNCHANGED <<flags, pauseMutex, waiting, queueVars, poolClosed,
                   streaming, counters, reference, skipped, caller, capture>>

NotifyFault ==
    /\ processing = "notifyFault"
    /\ waiting' = {}
    /\ processing' = "fault"
    /\ UNCHANGED <<flags, active, pauseMutex, queueVars, poolVars, streaming,
                   counters, work, caller, capture>>

(* The handlers of processing_loop call report_fault.                      *)
ProcessingFault ==
    /\ processing = "fault"
    /\ state' = "faulted" /\ stopRequested' = TRUE
    /\ processing' = "done"
    /\ UNCHANGED <<paused, gateVars, queueVars, poolVars, streaming, counters,
                   work, caller, capture>>

(* A condition variable may wake a waiter for no reason.                   *)
SpuriousWakeup ==
    \E thread \in waiting :
        /\ waiting' = waiting \ {thread}
        /\ UNCHANGED <<flags, active, pauseMutex, queueVars, poolVars,
                       streaming, counters, work, caller, capture, processing>>

-----------------------------------------------------------------------------
(* What the caller asks for, what its pending call does, and the threads.  *)
CallerAsks == Start \/ StartFails \/ Pause \/ Resume \/ StopSignal

CallerContinues ==
    \/ SpawnCapture \/ SpawnProcessing \/ SpawnFails \/ PublishRunning
    \/ PauseTest \/ PauseBlock
    \/ CloseQueue \/ ClosePool \/ StopCamera \/ JoinCapture \/ JoinProcessing

CaptureStep ==
    \/ AcquireFrame \/ CaptureExit
    \/ GrabFrame \/ GrabTimeout \/ GrabThrows
    \/ Push \/ CaptureFault

ProcessingStep ==
    \/ PopNewest \/ ProcessingExit
    \/ PassGate \/ CloseGate \/ BlockAtGate \/ LeaveAtGate
    \/ TakeReference \/ ProcessFrame \/ Deliver \/ NotifyDone
    \/ ProcessingThrows \/ NotifyFault \/ ProcessingFault

Next ==
    \/ CallerAsks \/ CallerContinues
    \/ CaptureStep \/ ProcessingStep
    \/ SpuriousWakeup

Spec == Init /\ [][Next]_vars

(* The operating system runs every thread that can run, and a thread that  *)
(* asks for a mutex released over and over gets it.  Nothing makes the     *)
(* caller ask for anything, nothing wakes a blocked thread unasked, and a  *)
(* camera may time out for ever.                                           *)
Fairness ==
    /\ WF_vars(CallerContinues) /\ SF_vars(PauseTest)
    /\ WF_vars(CaptureStep)
    /\ WF_vars(ProcessingStep)

FairSpec == Spec /\ Fairness

-----------------------------------------------------------------------------
(* Properties.                                                             *)

(* Every variable has its type; the queue never exceeds its capacity.      *)
TypeOK ==
    /\ state \in PipelineState /\ stopRequested \in BOOLEAN
    /\ paused \in BOOLEAN /\ active \in BOOLEAN
    /\ pauseMutex \in {"free", "caller", "processing"}
    /\ waiting \subseteq {"caller", "processing"}
    /\ queue \in Seq(Frame) /\ Len(queue) <= QueueCapacity
    /\ queueClosed \in BOOLEAN
    /\ available \in 0 .. PoolSize /\ poolClosed \in BOOLEAN
    /\ streaming \in BOOLEAN
    /\ captured \in 0 .. MaxFrames /\ processed \in Nat /\ dropped \in Nat
    /\ reference \in Frame \cup {NoFrame}
    /\ item \in Frame \cup {NoFrame}
    /\ skipped \in 0 .. (QueueCapacity - 1)
    /\ last \in Frame \cup {NoFrame}
    /\ caller \in CallerPC /\ capture \in CapturePC
    /\ processing \in ProcessingPC

(* No buffer of the pool is lost or returned twice, whichever way a frame  *)
(* leaves: evicted, skipped, processed, refused by a closed queue, or      *)
(* dropped by an exception or at the gate.                                 *)
PoolConserved ==
    available + Len(queue) + B2N(CaptureHolds) + B2N(ProcessingHolds)
        = PoolSize

(* The capture thread never finds the pool empty: while it asks for a      *)
(* buffer two are free.  This is what frame_pool_size >= queue + 3 buys.   *)
PoolNeverExhausted == capture = "loop" => available >= 2

(* After stop returns the pipeline can be started again: both threads are  *)
(* joined, nobody sleeps on the condition, every buffer is back (reopen    *)
(* throws otherwise), the queue is empty and the camera is off.            *)
StoppedIsRestartable ==
    caller = "idle" /\ state = "stopped" =>
        /\ capture = "none" /\ processing = "none"
        /\ pauseMutex = "free" /\ waiting = {} /\ ~active
        /\ available = PoolSize /\ queue = <<>> /\ ~streaming

(* What the metrics count, and the captured frames that are still held.    *)
Counted == B2N(reference # NoFrame) + processed + dropped
InFlight ==
    Len(queue) + B2N(capture = "push") + skipped
        + B2N(processing \in {"gate", "block", "take"})
Uncounted == captured - Counted - InFlight

(* While no stop is requested and no frame is failing, every captured      *)
(* frame is the reference, processed, counted as dropped, or in flight:    *)
(* no frame disappears silently.                                           *)
NoSilentDrop ==
    ~stopRequested /\ processing \notin {"notifyFault", "fault"} =>
        Uncounted = 0

(* At the end of a session the metrics miss at most what the queue held,   *)
(* what the processing thread had popped, and the frame being pushed; and  *)
(* no frame is ever counted twice.                                         *)
UncountedBounded == Uncounted \in 0 .. (2 * QueueCapacity + 1)

(* Frames wait, are taken and are delivered in the order of capture; the   *)
(* reference comes before all of them.                                     *)
FramesInOrder ==
    /\ \A i, j \in 1 .. Len(queue) : i < j => queue[i] < queue[j]
    /\ \A i \in 1 .. Len(queue) :
           /\ queue[i] < captured - B2N(capture = "push")
           /\ item < queue[i] /\ last < queue[i] /\ reference < queue[i]
    /\ processing \in {"gate", "block", "take", "deliver"} =>
           last < item /\ reference < item

(* Results leave in strictly increasing frame order within a session, none *)
(* of them for the reference frame, and never after stop has returned.     *)
ResultsInOrder ==
    [][last' # last => \/ last' > last /\ last' > reference /\ state # "stopped"
                       \/ last' = NoFrame /\ state = "stopped"]_vars

(* Once pause has returned, and until resume or stop, no frame is          *)
(* processed and no result delivered, and the reference stays.             *)
PauseFreezes ==
    [][caller = "idle" /\ state = "paused" =>
           UNCHANGED <<processed, last, reference>>]_vars

(* The owner sees a simpler machine: the pipeline keeps the contract the   *)
(* Edge is built on.                                                       *)
CallOf ==
    CASE caller = "idle" -> "idle"
      [] caller \in {"spawnCapture", "spawnProcessing", "publish"} -> "starting"
      [] caller \in {"pauseTest", "pauseBlock"} -> "pausing"
      [] caller \in {"closeQueue", "closePool", "stopCamera"} -> "stopping"
      [] caller \in {"joinCapture", "joinProcessing"} -> "joining"

CaptureOf ==
    IF capture \in {"loop", "grab", "push"} THEN "run" ELSE capture

ProcessingOf ==
    CASE processing \in {"loop", "gate", "block", "notify"} -> "run"
      [] processing \in {"take", "deliver"} -> "busy"
      [] processing \in {"notifyFault", "fault"} -> "fault"
      [] processing \in {"none", "done"} -> processing

Owner == INSTANCE PipelineContract WITH
             call <- CallOf, capture <- CaptureOf, processing <- ProcessingOf
KeepsContract == Owner!Contract

(* pause and stop, and every other call, return.                           *)
CallsReturn == caller # "idle" ~> caller = "idle"

(* A call never hangs but for a wakeup that was lost: the caller comes to  *)
(* rest only asleep in pause, or joining a thread asleep at the gate.      *)
OnlyLostWakeupsHang ==
    caller # "idle" ~>
        \/ caller = "idle"
        \/ caller = "pauseTest" /\ "caller" \in waiting
        \/ caller = "joinProcessing" /\ "processing" \in waiting
=============================================================================
