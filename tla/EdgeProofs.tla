------------------------------ MODULE EdgeProofs ------------------------------
(***************************************************************************)
(* Proofs about Edge for every number of frames and every choice of what   *)
(* may fail.  EdgeInv relates the steps of the handler and of main to the  *)
(* threads that exist, to the session that is open and to the state that   *)
(* is shown; with it a step that would break a promise of the Edge cannot  *)
(* be taken.                                                               *)
(***************************************************************************)
EXTENDS Edge, TLAPS

(* The steps of the catch block of START, of STOP, of RESET and of the     *)
(* shutdown.                                                               *)
Ends == {"stop", "stopping", "close", "closing", "closed", "failed"}

(* Which command, and which part of main, is at which step; and in which   *)
(* of them the state is fixed.                                             *)
Places ==
    /\ step \in {"boot", "accept", "recv"} => verb = "none"
    /\ step = "dispatch" => verb \in Verb
    /\ step \in {"open", "measure", "start", "starting"} => verb = "START"
    /\ step \in {"pausing", "paused"} => verb = "PAUSE"
    /\ step = "resumed" => verb = "RESUME"
    /\ step \in Ends => verb \in {"START", "STOP", "RESET", "EXIT"}
    /\ step = "done" => verb = "EXIT"
    /\ main \in {"returned", "terminated"} => step = "done"
    /\ main = "returned" => ~open
    /\ verb = "EXIT" => state = "shutting_down"
    /\ verb = "RESET" /\ step # "dispatch" => state = "faulted"
    /\ state = "idle" =>
           step \in {"accept", "recv", "dispatch", "open", "measure", "stop",
                     "close", "closed"}
    /\ state = "booting" <=> step = "boot"
    /\ step \in {"start", "starting"} => state # "paused"

(* Which threads of the pipeline exist, and which of its calls is pending; *)
(* a thread in its fault callback has not been joined.                     *)
Threads ==
    /\ pipe = "stopped" => capture = "none" /\ processing = "none"
    /\ pipeCall = "starting" <=> step = "starting"
    /\ pipeCall = "pausing" <=> step = "pausing"
    /\ pipeCall \in {"stopping", "joining"} <=> step = "stopping"
    /\ step \in {"starting", "pausing", "stopping"} => pipe # "stopped"
    /\ step = "starting" /\ processing # "none" => capture # "none"
    /\ step \in {"boot", "open", "measure", "start", "close", "closing",
                 "closed", "failed", "done"} => pipe = "stopped"
    /\ state = "idle" => pipe = "stopped"
    /\ "capture" \in telling => capture = "done"
    /\ "processing" \in telling => processing = "done"
    /\ "worker" \in telling => worker = "done"

(* The storage is open from before the pipeline starts until after it has  *)
(* stopped.                                                                *)
Session ==
    /\ ~open => worker = "none"
    /\ step = "closing" => open
    /\ step = "closing" <=> closeCall # "idle"
    /\ step \in {"closed", "boot", "open"} => ~open
    /\ closeCall \in {"finish", "end"} => worker = "none"
    /\ state = "idle" /\ step # "measure" => ~open
    /\ step \in {"measure", "start"} =>
           open /\ accepting /\ ~storageFaulted /\ ~used /\ ~refused /\ session
    /\ pipe # "stopped" => open /\ (accepting \/ storageFaulted)

(* While a measurement is shown, either a failing thread has not changed   *)
(* the state yet, or everything works.                                     *)
Working ==
    /\ ~stopRequested /\ open /\ accepting /\ ~storageFaulted
    /\ step # "starting" => capture = "run" /\ processing \in {"run", "busy"}
    /\ step = "starting" =>
           /\ capture \in {"none", "run"}
           /\ processing \in {"none", "run", "busy"}
           /\ pipe = "starting" /\ state = "measuring"
    /\ AtRest => pipe = (IF state = "measuring" THEN "running" ELSE "paused")
    /\ step \in {"pausing", "paused"} =>
           state = "measuring" /\ pipe = "paused"
    /\ step = "resumed" => state = "paused" /\ pipe = "running"

Health ==
    /\ Measuring /\ (AtRest \/ step \in {"starting", "pausing", "paused",
                                         "resumed"}) =>
           \/ telling # {} \/ capture = "fault" \/ processing = "fault"
           \/ Working
    /\ Measuring /\ refused =>
           processing = "fault" \/ "processing" \in telling
    /\ Measuring /\ storageFaulted => "worker" \in telling

(* What the manifest will say of a measurement that is being ended.        *)
Outcome ==
    /\ Measuring /\ step \notin {"closed", "failed"} => open
    /\ Measuring /\ step \notin {"closed", "failed"} /\ closeCall # "end" =>
           session
    /\ step = "closing" /\ verb = "STOP" => closeStatus = "complete"
    /\ Measuring /\ closeCall = "end" /\ ~closeError => manifest = closeStatus
    /\ Measuring /\ step = "closed" /\ verb = "STOP" => manifest = "complete"


(* The invariant.                                                          *)
EdgeInv ==
    TypeOK /\ Places /\ Threads /\ Session /\ Health /\ Outcome

(* The steps of close, and taking a result, keep the types.                *)
LEMMA StepsOfClose == StorageTypes /\ CloseContinues => StorageTypes'
  BY DEF StorageTypes, CloseContinues, Store!Call, Store!FinalStatus,
         Store!Join, Store!FlushFails, Store!RemoveManifest,
         Store!WriteStatus, Store!SkipStatus

LEMMA TakingResults == StorageTypes /\ EngineThrows => StorageTypes'
  BY DEF StorageTypes, EngineThrows, Store!Accept, Store!Accepts, storage

(* The server's loop and the commands that are answered at once. *)
LEMMA ServerKeepsEdge ==
    ASSUME EdgeInv,
           \/ AcceptClient \/ ReceiveLine \/ DropClient \/ BootComplete
           \/ Query \/ Refuse \/ Reconfigure \/ ReconfigureFails
           \/ AskShutdown
    PROVE  EdgeInv'
  <1> USE DEF EdgeInv, TypeOK, EdgeTypes, PipelineTypes,
              StorageTypes, Places, Threads, Session, Working, Health, Outcome,
              Ends, AtRest, Measuring, EdgeState, Step, Verb, Reply,
              Pipe!Call, Pipe!Capture, Pipe!Processing, Pipe!Frame,
              Pipe!NoFrame, Store!Call, Store!FinalStatus,
              server, process, pipeline, storage
  <1>1. CASE AcceptClient
    BY <1>1 DEF AcceptClient
  <1>2. CASE ReceiveLine
    BY <1>2 DEF ReceiveLine
  <1>3. CASE DropClient
    BY <1>3 DEF DropClient
  <1>4. CASE BootComplete
    BY <1>4 DEF BootComplete
  <1>5. CASE Query
    BY <1>5 DEF Query, Respond
  <1>6. CASE Refuse
    BY <1>6 DEF Refuse, Respond, Allowed
  <1>7. CASE Reconfigure
    <2> USE <1>7 DEF Reconfigure, Respond, Allowed, Pipe!NoFrame
    <2>1. EdgeTypes'
      OBVIOUS
    <2>2. PipelineTypes'
      OBVIOUS
    <2>3. StorageTypes'
      OBVIOUS
    <2>4. Places'
      OBVIOUS
    <2>5. Threads'
      OBVIOUS
    <2>6. Session'
      OBVIOUS
    <2>7. Health'
      OBVIOUS
    <2>8. Outcome'
      OBVIOUS
    <2>9. QED
      BY <2>1, <2>2, <2>3, <2>4, <2>5, <2>6, <2>7, <2>8
  <1>8. CASE ReconfigureFails
    BY <1>8 DEF ReconfigureFails, Respond, Allowed
  <1>9. CASE AskShutdown
    BY <1>9 DEF AskShutdown, Respond
  <1>10. QED
    BY <1>1, <1>2, <1>3, <1>4, <1>5, <1>6, <1>7, <1>8, <1>9

(* START. *)
LEMMA StartKeepsEdge ==
    ASSUME EdgeInv,
           \/ BeginStart \/ OpenSession \/ OpenSessionFails
           \/ StartMeasurement \/ StartPipeline \/ StartPipelineFails
           \/ SpawnThread \/ Started
    PROVE  EdgeInv'
  <1> USE DEF EdgeInv, TypeOK, EdgeTypes, PipelineTypes,
              StorageTypes, Places, Threads, Session, Working, Health, Outcome,
              Ends, AtRest, Measuring, EdgeState, Step, Verb, Reply,
              Pipe!Call, Pipe!Capture, Pipe!Processing, Pipe!Frame,
              Pipe!NoFrame, Store!Call, Store!FinalStatus,
              server, process, pipeline, storage
  <1>1. CASE BeginStart
    BY <1>1 DEF BeginStart, Allowed
  <1>2. CASE OpenSession
    <2> USE <1>2 DEF OpenSession, Store!Open
    <2>1. EdgeTypes'
      OBVIOUS
    <2>2. PipelineTypes'
      OBVIOUS
    <2>3. StorageTypes'
      OBVIOUS
    <2>4. Places'
      OBVIOUS
    <2>5. Threads'
      OBVIOUS
    <2>6. Session'
      OBVIOUS
    <2>7. Health'
      OBVIOUS
    <2>8. Outcome'
      OBVIOUS
    <2>9. QED
      BY <2>1, <2>2, <2>3, <2>4, <2>5, <2>6, <2>7, <2>8
  <1>3. CASE OpenSessionFails
    <2> USE <1>3 DEF OpenSessionFails, Store!OpenFails
    <2>1. EdgeTypes'
      OBVIOUS
    <2>2. PipelineTypes'
      OBVIOUS
    <2>3. StorageTypes'
      OBVIOUS
    <2>4. Places'
      OBVIOUS
    <2>5. Threads'
      OBVIOUS
    <2>6. Session'
      OBVIOUS
    <2>7. Health'
      OBVIOUS
    <2>8. Outcome'
      OBVIOUS
    <2>9. QED
      BY <2>1, <2>2, <2>3, <2>4, <2>5, <2>6, <2>7, <2>8
  <1>4. CASE StartMeasurement
    BY <1>4 DEF StartMeasurement
  <1>5. CASE StartPipeline
    <2> USE <1>5 DEF StartPipeline, Pipe!Start, Pipe!NoFrame
    <2>1. EdgeTypes'
      OBVIOUS
    <2>2. PipelineTypes'
      OBVIOUS
    <2>3. StorageTypes'
      OBVIOUS
    <2>4. Places'
      OBVIOUS
    <2>5. Threads'
      OBVIOUS
    <2>6. Session'
      OBVIOUS
    <2>7. Health'
      <3>1. ~refused' /\ ~storageFaulted'
        OBVIOUS
      <3>2. Measuring' => Working'
        OBVIOUS
      <3>3. QED
        BY <3>1, <3>2
    <2>8. Outcome'
      OBVIOUS
    <2>9. QED
      BY <2>1, <2>2, <2>3, <2>4, <2>5, <2>6, <2>7, <2>8
  <1>6. CASE StartPipelineFails
    <2> USE <1>6 DEF StartPipelineFails, Pipe!StartFails, Pipe!SpawnFails,
               Pipe!NoFrame
    <2>1. EdgeTypes'
      <3>1. UNCHANGED <<state, verb, reply, process, telling, refused>>
        OBVIOUS
      <3>2. step' = "stop"
        OBVIOUS
      <3>3. QED
        BY <3>1, <3>2
    <2>2. PipelineTypes'
      OBVIOUS
    <2>3. StorageTypes'
      OBVIOUS
    <2>4. Places'
      OBVIOUS
    <2>5. Threads'
      OBVIOUS
    <2>6. Session'
      OBVIOUS
    <2>7. Health'
      OBVIOUS
    <2>8. Outcome'
      OBVIOUS
    <2>9. QED
      BY <2>1, <2>2, <2>3, <2>4, <2>5, <2>6, <2>7, <2>8
  <1>7. CASE SpawnThread
    BY <1>7 DEF SpawnThread, Pipe!SpawnCapture, Pipe!SpawnProcessing
  <1>8. CASE Started
    BY <1>8 DEF Started, Respond, Pipe!PublishRunning
  <1>9. QED
    BY <1>1, <1>2, <1>3, <1>4, <1>5, <1>6, <1>7, <1>8

(* PAUSE and RESUME. *)
LEMMA PauseKeepsEdge ==
    ASSUME EdgeInv,
           \/ PausePipeline \/ PauseFails \/ PauseReturns \/ PauseMeasurement
           \/ ResumePipeline \/ ResumeFails \/ ResumeMeasurement
    PROVE  EdgeInv'
  <1> USE DEF EdgeInv, TypeOK, EdgeTypes, PipelineTypes,
              StorageTypes, Places, Threads, Session, Working, Health, Outcome,
              Ends, AtRest, Measuring, EdgeState, Step, Verb, Reply,
              Pipe!Call, Pipe!Capture, Pipe!Processing, Pipe!Frame,
              Pipe!NoFrame, Store!Call, Store!FinalStatus,
              server, process, pipeline, storage
  <1>1. CASE PausePipeline
    BY <1>1 DEF PausePipeline, Allowed, Pipe!Pause
  <1>2. CASE PauseFails
    BY <1>2 DEF PauseFails, Respond, Allowed
  <1>3. CASE PauseReturns
    BY <1>3 DEF PauseReturns, Pipe!PauseReturns
  <1>4. CASE PauseMeasurement
    BY <1>4 DEF PauseMeasurement, Respond
  <1>5. CASE ResumePipeline
    BY <1>5 DEF ResumePipeline, Allowed, Pipe!Resume
  <1>6. CASE ResumeFails
    BY <1>6 DEF ResumeFails, Respond, Allowed
  <1>7. CASE ResumeMeasurement
    BY <1>7 DEF ResumeMeasurement, Respond
  <1>8. QED
    BY <1>1, <1>2, <1>3, <1>4, <1>5, <1>6, <1>7

(* Stopping the pipeline, closing the storage, and what follows. *)
LEMMA StopKeepsEdge ==
    ASSUME EdgeInv,
           \/ BeginStop \/ StopPipeline \/ StopContinues \/ PipelineStopped
           \/ CloseStorage \/ CloseContinues \/ CloseReturns \/ CloseThrows
           \/ StopEnds \/ StartGivesUp \/ ResetEnds \/ ShutdownEnds
           \/ ServerStopped \/ Signal \/ BeginShutdown
    PROVE  EdgeInv'
  <1> USE DEF EdgeInv, TypeOK, EdgeTypes, PipelineTypes,
              StorageTypes, Places, Threads, Session, Working, Health, Outcome,
              Ends, AtRest, Measuring, EdgeState, Step, Verb, Reply,
              Pipe!Call, Pipe!Capture, Pipe!Processing, Pipe!Frame,
              Pipe!NoFrame, Store!Call, Store!FinalStatus,
              server, process, pipeline, storage
  <1>1. CASE BeginStop
    BY <1>1 DEF BeginStop, Allowed
  <1>2. CASE StopPipeline
    <2> USE <1>2 DEF StopPipeline, Pipe!StopSignal
    <2>1. EdgeTypes'
      OBVIOUS
    <2>2. PipelineTypes'
      OBVIOUS
    <2>3. StorageTypes'
      OBVIOUS
    <2>4. Places'
      OBVIOUS
    <2>5. Threads'
      OBVIOUS
    <2>6. Session'
      OBVIOUS
    <2>7. Health'
      OBVIOUS
    <2>8. Outcome'
      OBVIOUS
    <2>9. QED
      BY <2>1, <2>2, <2>3, <2>4, <2>5, <2>6, <2>7, <2>8
  <1>3. CASE StopContinues
    <2> USE <1>3 DEF StopContinues, Pipe!StopCamera, Pipe!JoinCapture
    <2>1. EdgeTypes'
      OBVIOUS
    <2>2. PipelineTypes'
      OBVIOUS
    <2>3. StorageTypes'
      OBVIOUS
    <2>4. Places'
      OBVIOUS
    <2>5. Threads'
      OBVIOUS
    <2>6. Session'
      OBVIOUS
    <2>7. Health'
      OBVIOUS
    <2>8. Outcome'
      OBVIOUS
    <2>9. QED
      BY <2>1, <2>2, <2>3, <2>4, <2>5, <2>6, <2>7, <2>8
  <1>4. CASE PipelineStopped
    <2> USE <1>4 DEF PipelineStopped, Pipe!StopReturns
    <2>1. EdgeTypes'
      OBVIOUS
    <2>2. PipelineTypes'
      OBVIOUS
    <2>3. StorageTypes'
      OBVIOUS
    <2>4. Places'
      OBVIOUS
    <2>5. Threads'
      OBVIOUS
    <2>6. Session'
      OBVIOUS
    <2>7. Health'
      OBVIOUS
    <2>8. Outcome'
      OBVIOUS
    <2>9. QED
      BY <2>1, <2>2, <2>3, <2>4, <2>5, <2>6, <2>7, <2>8
  <1>5. CASE CloseStorage
    <2> USE <1>5 DEF CloseStorage, FinalStatusOf, Store!CloseBegins
    <2>1. EdgeTypes'
      OBVIOUS
    <2>2. PipelineTypes'
      OBVIOUS
    <2>3. StorageTypes'
      <3>1. CASE open
        <4>1. FinalStatusOf \in Store!FinalStatus
          OBVIOUS
        <4>2. QED
          BY <3>1, <4>1 DEF StorageTypes, Store!CloseBegins
      <3>2. CASE ~open
        BY <3>2
      <3>3. QED
        BY <3>1, <3>2
    <2>4. Places'
      OBVIOUS
    <2>5. Threads'
      OBVIOUS
    <2>6. Session'
      OBVIOUS
    <2>7. Health'
      OBVIOUS
    <2>8. Outcome'
      OBVIOUS
    <2>9. QED
      BY <2>1, <2>2, <2>3, <2>4, <2>5, <2>6, <2>7, <2>8
  <1>6. CASE CloseContinues
    <2> USE <1>6 DEF CloseContinues, Store!Join, Store!FlushFails,
               Store!RemoveManifest, Store!WriteStatus, Store!SkipStatus
    <2>1. EdgeTypes'
      OBVIOUS
    <2>2. PipelineTypes'
      OBVIOUS
    <2>3. StorageTypes'
      BY StepsOfClose
    <2>4. Places'
      OBVIOUS
    <2>5. Threads'
      OBVIOUS
    <2>6. Session'
      OBVIOUS
    <2>7. Health'
      <3>1. UNCHANGED <<state, step, telling, refused, storageFaulted>>
        OBVIOUS
      <3>2. QED
        BY <3>1
    <2>8. Outcome'
      OBVIOUS
    <2>9. QED
      BY <2>1, <2>2, <2>3, <2>4, <2>5, <2>6, <2>7, <2>8
  <1>7. CASE CloseReturns
    <2> USE <1>7 DEF CloseReturns, Store!CloseEnds
    <2>1. EdgeTypes'
      OBVIOUS
    <2>2. PipelineTypes'
      OBVIOUS
    <2>3. StorageTypes'
      OBVIOUS
    <2>4. Places'
      OBVIOUS
    <2>5. Threads'
      OBVIOUS
    <2>6. Session'
      OBVIOUS
    <2>7. Health'
      OBVIOUS
    <2>8. Outcome'
      OBVIOUS
    <2>9. QED
      BY <2>1, <2>2, <2>3, <2>4, <2>5, <2>6, <2>7, <2>8
  <1>8. CASE CloseThrows
    BY <1>8 DEF CloseThrows, Store!CloseThrows
  <1>9. CASE StopEnds
    BY <1>9 DEF StopEnds, Respond, Faulted
  <1>10. CASE StartGivesUp
    BY <1>10 DEF StartGivesUp, Respond, Faulted
  <1>11. CASE ResetEnds
    BY <1>11 DEF ResetEnds, Respond
  <1>12. CASE ShutdownEnds
    BY <1>12 DEF ShutdownEnds
  <1>13. CASE ServerStopped
    BY <1>13 DEF ServerStopped
  <1>14. CASE Signal
    BY <1>14 DEF Signal
  <1>15. CASE BeginShutdown
    BY <1>15 DEF BeginShutdown
  <1>16. QED
    BY <1>1, <1>2, <1>3, <1>4, <1>5, <1>6, <1>7, <1>8, <1>9, <1>10, <1>11,
       <1>12, <1>13, <1>14, <1>15

(* The threads of the pipeline and of the storage, and their callbacks. *)
LEMMA ThreadsKeepEdge ==
    ASSUME EdgeInv,
           \/ CaptureThrows \/ CaptureEnds \/ CaptureFault \/ BeginFrame
           \/ EndReference \/ StoreResult \/ RefuseResult \/ RejectResult
           \/ EngineThrows \/ ProcessingEnds \/ ProcessingFault \/ WorkerFault
           \/ WorkerEnds \/ \E thread \in telling : FaultCallback(thread)
    PROVE  EdgeInv'
  <1> USE DEF EdgeInv, TypeOK, EdgeTypes, PipelineTypes,
              StorageTypes, Places, Threads, Session, Working, Health, Outcome,
              Ends, AtRest, Measuring, EdgeState, Step, Verb, Reply,
              Pipe!Call, Pipe!Capture, Pipe!Processing, Pipe!Frame,
              Pipe!NoFrame, Store!Call, Store!FinalStatus,
              server, process, pipeline, storage
  <1>1. CASE CaptureThrows
    BY <1>1 DEF CaptureThrows, Pipe!CaptureThrows
  <1>2. CASE CaptureEnds
    BY <1>2 DEF CaptureEnds, Pipe!CaptureEnds
  <1>3. CASE CaptureFault
    BY <1>3 DEF CaptureFault, Pipe!CaptureFault
  <1>4. CASE BeginFrame
    BY <1>4 DEF BeginFrame, Pipe!BeginFrame
  <1>5. CASE EndReference
    BY <1>5 DEF EndReference, Pipe!TakeReference
  <1>6. CASE StoreResult
    BY <1>6 DEF StoreResult, Pipe!Deliver, Store!Accept, Store!Accepts
  <1>7. CASE RefuseResult
    BY <1>7 DEF RefuseResult, Store!Accepts, Pipe!ProcessingThrows
  <1>8. CASE RejectResult
    BY <1>8 DEF RejectResult, Store!Accepts, Pipe!ProcessingThrows
  <1>9. CASE EngineThrows
    <2> USE <1>9 DEF EngineThrows, Pipe!ProcessingThrows, Store!Accept,
               Store!Accepts
    <2>1. EdgeTypes'
      OBVIOUS
    <2>2. PipelineTypes'
      OBVIOUS
    <2>3. StorageTypes'
      BY TakingResults
    <2>4. Places'
      OBVIOUS
    <2>5. Threads'
      OBVIOUS
    <2>6. Session'
      OBVIOUS
    <2>7. Health'
      OBVIOUS
    <2>8. Outcome'
      OBVIOUS
    <2>9. QED
      BY <2>1, <2>2, <2>3, <2>4, <2>5, <2>6, <2>7, <2>8
  <1>10. CASE ProcessingEnds
    BY <1>10 DEF ProcessingEnds, Pipe!ProcessingEnds
  <1>11. CASE ProcessingFault
    BY <1>11 DEF ProcessingFault, Pipe!ProcessingFault
  <1>12. CASE WorkerFault
    <2> USE <1>12 DEF WorkerFault, Store!WorkerFault
    <2>1. EdgeTypes'
      OBVIOUS
    <2>2. PipelineTypes'
      OBVIOUS
    <2>3. StorageTypes'
      OBVIOUS
    <2>4. Places'
      OBVIOUS
    <2>5. Threads'
      OBVIOUS
    <2>6. Session'
      OBVIOUS
    <2>7. Health'
      OBVIOUS
    <2>8. Outcome'
      OBVIOUS
    <2>9. QED
      BY <2>1, <2>2, <2>3, <2>4, <2>5, <2>6, <2>7, <2>8
  <1>13. CASE WorkerEnds
    BY <1>13 DEF WorkerEnds, Store!WorkerEnds
  <1>14. CASE \E thread \in telling : FaultCallback(thread)
    BY <1>14 DEF FaultCallback, Faulted
  <1>15. QED
    BY <1>1, <1>2, <1>3, <1>4, <1>5, <1>6, <1>7, <1>8, <1>9, <1>10, <1>11,
       <1>12, <1>13, <1>14

(* No step leaves the invariant.                                          *)
LEMMA NextKeepsEdge == EdgeInv /\ [Next]_vars => EdgeInv'
  <1> SUFFICES ASSUME EdgeInv, [Next]_vars PROVE EdgeInv'
    OBVIOUS
  <1>1. CASE AcceptClient \/ ClientSpeaks
    BY <1>1, ServerKeepsEdge DEF ClientSpeaks
  <1>2. CASE HandlerStep
    BY <1>2, ServerKeepsEdge, StartKeepsEdge, PauseKeepsEdge, StopKeepsEdge
       DEF HandlerStep
  <1>3. CASE Signal \/ BeginShutdown
    BY <1>3, StopKeepsEdge
  <1>4. CASE ThreadStep
    BY <1>4, ThreadsKeepEdge DEF ThreadStep, EndFrame
  <1>5. CASE UNCHANGED vars
    BY <1>5 DEF EdgeInv, TypeOK, EdgeTypes, PipelineTypes, StorageTypes,
                Places, Threads, Session, Working, Health, Outcome, Ends,
                AtRest, Measuring, vars, server, process, pipeline, storage
  <1>6. QED
    BY <1>1, <1>2, <1>3, <1>4, <1>5 DEF Next

(* The Edge starts in the invariant.                                       *)
LEMMA InitEdge == Init => EdgeInv
  BY DEF Init, EdgeInv, TypeOK, EdgeTypes, PipelineTypes, StorageTypes,
         Places, Threads, Session, Working, Health, Outcome, Ends, AtRest,
         Measuring, EdgeState, Step, Verb, Reply, Pipe!Init, Pipe!Call,
         Pipe!Capture, Pipe!Processing, Pipe!NoFrame, Store!Init, Store!Call

(* What the proofs of all properties of the Edge rest on: the steps of the *)
(* handler and of main, the threads that exist, the session that is open   *)
(* and the state that is shown go together.                                *)
THEOREM EdgeInvariant == Spec => []EdgeInv
  BY InitEdge, NextKeepsEdge, PTL DEF Spec

(* An idle Edge, and one whose main has returned, runs no thread, holds no *)
(* open storage and has no callback under way: START and CONFIG may        *)
(* replace what the threads would use.                                     *)
THEOREM IdleEdgeIsQuiet == Spec => []IdleIsQuiet
  <1>1. EdgeInv => IdleIsQuiet
    BY DEF EdgeInv, TypeOK, EdgeTypes, PipelineTypes, Places, Threads,
           Session, IdleIsQuiet, AtRest, Pipe!Call
  <1>2. QED
    BY <1>1, EdgeInvariant, PTL

(* The storage is open, and accepts or has failed, for as long as there is *)
(* a processing thread.                                                    *)
THEOREM StorageOutlivesThePipeline == Spec => []StorageOutlivesPipeline
  <1>1. EdgeInv => StorageOutlivesPipeline
    BY DEF EdgeInv, Threads, Session, StorageOutlivesPipeline
  <1>2. QED
    BY <1>1, EdgeInvariant, PTL

(* An Edge that says measuring, or paused, is, unless a failing thread is  *)
(* about to say otherwise.                                                 *)
THEOREM MeasurementsAreReal == Spec => []NoGhostMeasurement
  <1>1. EdgeInv => NoGhostMeasurement
    BY DEF EdgeInv, Health, Working, NoGhostMeasurement, AtRest
  <1>2. QED
    BY <1>1, EdgeInvariant, PTL

(* Only an answered RESET that has stopped everything, or a shutdown, ends *)
(* the state faulted.                                                      *)
THEOREM FaultsStay == Spec => FaultIsSticky
  <1> DEFINE Kept == state = "faulted" /\ state' # "faulted" =>
                        \/ state' = "shutting_down"
                        \/ /\ verb = "RESET" /\ reply' = "OK"
                           /\ pipe = "stopped" /\ ~open
  <1>1. EdgeInv /\ [Next]_vars => [Kept]_vars
    <2> SUFFICES ASSUME EdgeInv, Next PROVE Kept
      OBVIOUS
    <2>1. CASE ResetEnds
      BY <2>1 DEF ResetEnds, Respond, EdgeInv, Threads, Session
    <2>2. CASE BootComplete
      BY <2>2 DEF BootComplete, EdgeInv, Places
    <2>3. CASE ServerStopped
      BY <2>3 DEF ServerStopped
    <2>4. CASE ~(ResetEnds \/ BootComplete \/ ServerStopped)
      <3>1. ASSUME state = "faulted" PROVE state' = "faulted"
        BY <3>1, <2>4 DEF Next, ClientSpeaks, HandlerStep, ThreadStep,
           EndFrame,
           FaultCallback, Faulted, Measuring,
           AcceptClient, AskShutdown, BeginFrame, BeginShutdown, BeginStart,
           BeginStop, BootComplete, CaptureEnds, CaptureFault, CaptureThrows,
           CloseContinues, CloseReturns, CloseStorage, CloseThrows, DropClient,
           EndReference, EngineThrows, OpenSession, OpenSessionFails,
           PauseFails, PauseMeasurement, PausePipeline, PauseReturns,
           PipelineStopped, ProcessingEnds, ProcessingFault, Query,
           ReceiveLine, Reconfigure, ReconfigureFails, Refuse, RefuseResult,
           RejectResult, ResetEnds, ResumeFails, ResumeMeasurement,
           ResumePipeline, ServerStopped, ShutdownEnds, Signal, SpawnThread,
           StartGivesUp, StartMeasurement, StartPipeline, StartPipelineFails,
           Started, StopContinues, StopEnds, StopPipeline, StoreResult,
           WorkerEnds, WorkerFault
      <3>2. QED
        BY <3>1
    <2>5. QED
      BY <2>1, <2>2, <2>3, <2>4
  <1>2. QED
    BY <1>1, EdgeInvariant, PTL DEF Spec, FaultIsSticky

(* STOP answers OK only for a session that lost nothing.                   *)
THEOREM OkMeansComplete == Spec => StopOkMeansComplete
  <1> DEFINE Kept == /\ verb = "STOP" /\ ~AtRest
                     /\ step' = "accept" /\ reply' = "OK"
                     => manifest = "complete" /\ ~refused /\ ~storageFaulted
  <1>1. EdgeInv /\ [Next]_vars => [Kept]_vars
    <2> SUFFICES ASSUME EdgeInv, Next,
                        verb = "STOP", ~AtRest, step' = "accept", reply' = "OK"
                 PROVE  manifest = "complete" /\ ~refused /\ ~storageFaulted
      OBVIOUS
    <2>1. CASE StopEnds
      <3>1. step = "closed" /\ Measuring
        BY <2>1 DEF StopEnds, Respond
      <3>2. telling = {} /\ processing = "none"
        BY <3>1 DEF EdgeInv, TypeOK, EdgeTypes, Threads, Session
      <3>3. QED
        BY <3>1, <3>2 DEF EdgeInv, Health, Outcome
    <2>2. CASE ~StopEnds
      <3>1. FALSE
        BY <2>2 DEF AtRest, EdgeInv, Places, Next, ClientSpeaks, HandlerStep,
           ThreadStep, EndFrame,
           FaultCallback, Measuring, Ends, server,
           AcceptClient, AskShutdown, BeginFrame, BeginShutdown, BeginStart,
           BeginStop, BootComplete, CaptureEnds, CaptureFault, CaptureThrows,
           CloseContinues, CloseReturns, CloseStorage, CloseThrows, DropClient,
           EndReference, EngineThrows, OpenSession, OpenSessionFails,
           PauseFails, PauseMeasurement, PausePipeline, PauseReturns,
           PipelineStopped, ProcessingEnds, ProcessingFault, Query,
           ReceiveLine, Reconfigure, ReconfigureFails, Refuse, RefuseResult,
           RejectResult, ResetEnds, ResumeFails, ResumeMeasurement,
           ResumePipeline, ServerStopped, ShutdownEnds, Signal, SpawnThread,
           StartGivesUp, StartMeasurement, StartPipeline, StartPipelineFails,
           Started, StopContinues, StopEnds, StopPipeline, StoreResult,
           WorkerEnds, WorkerFault
      <3>2. QED
        BY <3>1
    <2>3. QED
      BY <2>1, <2>2
  <1>2. QED
    BY <1>1, EdgeInvariant, PTL DEF Spec, StopOkMeansComplete

=============================================================================
