-------------------------------- MODULE Edge --------------------------------
(***************************************************************************)
(* The Edge process (main of dic_edge): EdgeStateMachine, the command      *)
(* handler behind TcpControlServer, the callbacks that tie the pipeline to *)
(* the storage, and the shutdown.  The pipeline and the storage are known  *)
(* by their contracts, which the modules Pipeline and AsyncWriter keep.    *)
(*                                                                         *)
(* Commands are served by one thread, one connection at a time, and the    *)
(* main thread shuts the Edge down after joining it: one program counter,  *)
(* `step', follows both, with the shutdown as a last verb.  Against it run *)
(* the two threads of the pipeline and the worker of the storage, whose    *)
(* fault callbacks change the state at any time: report_fault marks the    *)
(* component first and calls back later, and a thread is joined only after *)
(* its callback has returned (`telling').                                  *)
(*                                                                         *)
(* PING, STATUS and the CONFIG commands that change nothing but a file are *)
(* one verb that reads; the streams to the Studio, the summary and the     *)
(* preview change nothing here but may throw out of the callbacks.         *)
(***************************************************************************)
EXTENDS Integers

CONSTANTS
    MaxFrames,          \* frames the camera delivers in a session (bound)
    CameraMayFail,      \* may open, start and grab throw?
    EngineMayFail,      \* may the engine or the preview throw?
    StorageMayFill,     \* may the storage queue be full?
    DiskMayFail         \* may opening or writing a file fail?

VARIABLES
    state,          \* state_ of the EdgeStateMachine
    step,           \* program counter of the server, then of main
    verb,           \* the command being served, if any
    reply,          \* kind of the response to the last connection, if any
    main,           \* what the main thread is about
    asked,          \* shutdown_requested, or a signal
    telling,        \* threads that are in their fault callback
    refused,        \* has the storage refused a result of this session?
    \* the pipeline
    pipe, stopRequested, streaming, pipeCall, capture, processing, last,
    \* the storage
    open, accepting, storageFaulted, used, worker, session, manifest,
    closeCall, closeStatus, closeError

Pipe == INSTANCE PipelineContract WITH
            state <- pipe, call <- pipeCall, ProcessingMayFail <- TRUE
Store == INSTANCE StorageContract WITH
             faulted <- storageFaulted, call <- closeCall,
             status <- closeStatus, error <- closeError, MayCrash <- FALSE

server == <<step, verb, reply>>
process == <<main, asked>>
pipeline == <<pipe, stopRequested, streaming, pipeCall, capture, processing,
              last>>
storage == <<open, accepting, storageFaulted, used, worker, session, manifest,
             closeCall, closeStatus, closeError>>
vars == <<state, server, process, telling, refused, pipeline, storage>>

EdgeState ==
    {"booting", "idle", "measuring", "paused", "faulted", "shutting_down"}
Verb == {"QUERY", "CONFIG", "START", "STOP", "PAUSE", "RESUME", "RESET",
         "SHUTDOWN"}
Step == {"boot", "accept", "recv", "dispatch",
         "open", "measure", "start", "starting",
         "pausing", "paused", "resumed",
         "stop", "stopping", "close", "closing", "closed", "failed", "done"}
Reply == {"none", "OK", "STATE", "START", "CONFIG", "STORAGE", "COMMAND"}

Init ==
    /\ state = "booting"
    /\ step = "boot" /\ verb = "none" /\ reply = "none"
    /\ main = "loop" /\ asked = FALSE
    /\ telling = {} /\ refused = FALSE
    /\ Pipe!Init /\ Store!Init

-----------------------------------------------------------------------------
(* EdgeStateMachine::fault.                                                *)
Faulted == IF state = "shutting_down" THEN state ELSE "faulted"

(* The handler returns, or throws: the response is sent and the connection *)
(* closed.                                                                 *)
Respond(kind) == reply' = kind /\ verb' = "none" /\ step' = "accept"

Measuring == state \in {"measuring", "paused"}

-----------------------------------------------------------------------------
(* TcpControlServer::run.                                                  *)

BootComplete ==
    /\ step = "boot"
    /\ state' = "idle" /\ step' = "accept"
    /\ UNCHANGED <<verb, reply, process, telling, refused, pipeline, storage>>

AcceptClient ==
    /\ step = "accept" /\ main = "loop"
    /\ step' = "recv" /\ reply' = "none"
    /\ UNCHANGED <<state, verb, process, telling, refused, pipeline,
                   storage>>

(* recv returns a line; a stop request is not looked at before it is       *)
(* served.                                                                 *)
ReceiveLine ==
    /\ step = "recv"
    /\ verb' \in Verb
    /\ step' = "dispatch"
    /\ UNCHANGED <<state, reply, process, telling, refused, pipeline, storage>>

(* recv reports the end of the connection, or what came is too long, or no *)
(* line and a stop was requested meanwhile.                                *)
DropClient ==
    /\ step = "recv"
    /\ step' = "accept"
    /\ UNCHANGED <<state, verb, reply, process, telling, refused, pipeline,
                   storage>>

-----------------------------------------------------------------------------
(* Commands that are answered at once.                                     *)

(* PING, STATUS, CONFIG and CONFIG SAVE; unknown and malformed commands.   *)
Query ==
    /\ step = "dispatch" /\ verb = "QUERY"
    /\ \E kind \in {"OK", "CONFIG", "COMMAND"} : Respond(kind)
    /\ UNCHANGED <<state, process, telling, refused, pipeline, storage>>

(* A command the state does not allow.                                     *)
Allowed ==
    CASE verb \in {"CONFIG", "START"} -> state = "idle"
      [] verb = "STOP" -> Measuring
      [] verb = "PAUSE" -> state = "measuring"
      [] verb = "RESUME" -> state = "paused"
      [] verb = "RESET" -> state = "faulted"
      [] OTHER -> TRUE

Refuse ==
    /\ step = "dispatch" /\ ~Allowed
    /\ Respond("STATE")
    /\ UNCHANGED <<state, process, telling, refused, pipeline, storage>>

(* CONFIG with settings: a new pipeline takes the place of the old one.    *)
Reconfigure ==
    /\ step = "dispatch" /\ verb = "CONFIG" /\ Allowed
    /\ Respond("OK")
    /\ pipe' = "stopped" /\ stopRequested' = FALSE /\ streaming' = FALSE
    /\ pipeCall' = "idle" /\ capture' = "none" /\ processing' = "none"
    /\ last' = Pipe!NoFrame
    /\ UNCHANGED <<state, process, telling, refused, storage>>

(* A setting is invalid, or the pipeline cannot be built.                  *)
ReconfigureFails ==
    /\ step = "dispatch" /\ verb = "CONFIG" /\ Allowed
    /\ Respond("CONFIG")
    /\ UNCHANGED <<state, process, telling, refused, pipeline, storage>>

AskShutdown ==
    /\ step = "dispatch" /\ verb = "SHUTDOWN"
    /\ asked' = TRUE
    /\ Respond("OK")
    /\ UNCHANGED <<state, main, telling, refused, pipeline, storage>>

-----------------------------------------------------------------------------
(* START.                                                                  *)

BeginStart ==
    /\ step = "dispatch" /\ verb = "START" /\ Allowed
    /\ step' = "open"
    /\ UNCHANGED <<state, verb, reply, process, telling, refused, pipeline,
                   storage>>

OpenSession ==
    /\ step = "open" /\ Store!Open
    /\ refused' = FALSE
    /\ step' = "measure"
    /\ UNCHANGED <<state, verb, reply, process, telling, pipeline>>

(* open throws: the directory exists, a file cannot be created, or the     *)
(* worker not be spawned; or an argument is invalid.                       *)
OpenSessionFails ==
    /\ step = "open"
    /\ Store!OpenFails \/ UNCHANGED storage
    /\ step' = "stop"
    /\ UNCHANGED <<state, verb, reply, process, telling, refused, pipeline>>

StartMeasurement ==
    /\ step = "measure"
    /\ state' = IF state = "idle" THEN "measuring" ELSE state
    /\ step' = IF state = "idle" THEN "start" ELSE "stop"
    /\ UNCHANGED <<verb, reply, process, telling, refused, pipeline, storage>>

StartPipeline ==
    /\ step = "start" /\ Pipe!Start
    /\ step' = "starting"
    /\ UNCHANGED <<state, verb, reply, process, telling, refused, storage>>

StartPipelineFails ==
    \/ /\ step = "start" /\ Pipe!StartFails
       /\ step' = "stop"
       /\ UNCHANGED <<state, verb, reply, process, telling, refused, storage>>
    \/ /\ step = "starting" /\ Pipe!SpawnFails
       /\ step' = "stop"
       /\ UNCHANGED <<state, verb, reply, process, telling, refused, storage>>

SpawnThread ==
    /\ step = "starting"
    /\ Pipe!SpawnCapture \/ Pipe!SpawnProcessing
    /\ UNCHANGED <<state, server, process, telling, refused, storage>>

Started ==
    /\ step = "starting" /\ Pipe!PublishRunning
    /\ Respond("OK")
    /\ UNCHANGED <<state, process, telling, refused, storage>>

-----------------------------------------------------------------------------
(* PAUSE and RESUME: the pipeline first, the state afterwards; either may  *)
(* throw because of a fault that came in between.                          *)

PausePipeline ==
    /\ step = "dispatch" /\ verb = "PAUSE" /\ Allowed
    /\ Pipe!Pause
    /\ step' = "pausing"
    /\ UNCHANGED <<state, verb, reply, process, telling, refused, storage>>

PauseFails ==
    /\ step = "dispatch" /\ verb = "PAUSE" /\ Allowed
    /\ pipe # "running"
    /\ Respond("COMMAND")
    /\ UNCHANGED <<state, process, telling, refused, pipeline, storage>>

PauseReturns ==
    /\ step = "pausing" /\ Pipe!PauseReturns
    /\ step' = "paused"
    /\ UNCHANGED <<state, verb, reply, process, telling, refused, storage>>

(* Bug for a mutant: the state is set without looking at it.               *)
PauseMeasurementUnchecked ==
    /\ step = "paused"
    /\ state' = "paused" /\ Respond("OK")
    /\ UNCHANGED <<process, telling, refused, pipeline, storage>>

PauseMeasurement ==
    /\ step = "paused"
    /\ IF state = "measuring" THEN state' = "paused" /\ Respond("OK")
                              ELSE Respond("COMMAND") /\ UNCHANGED state
    /\ UNCHANGED <<process, telling, refused, pipeline, storage>>

ResumePipeline ==
    /\ step = "dispatch" /\ verb = "RESUME" /\ Allowed
    /\ Pipe!Resume
    /\ step' = "resumed"
    /\ UNCHANGED <<state, verb, reply, process, telling, refused, storage>>

ResumeFails ==
    /\ step = "dispatch" /\ verb = "RESUME" /\ Allowed
    /\ pipe # "paused"
    /\ Respond("COMMAND")
    /\ UNCHANGED <<state, process, telling, refused, pipeline, storage>>

ResumeMeasurement ==
    /\ step = "resumed"
    /\ IF state = "paused" THEN state' = "measuring" /\ Respond("OK")
                           ELSE Respond("COMMAND") /\ UNCHANGED state
    /\ UNCHANGED <<process, telling, refused, pipeline, storage>>

-----------------------------------------------------------------------------
(* STOP, RESET, the catch block of START and the shutdown: the pipeline is *)
(* stopped, then the storage closed.                                       *)

(* Bug for a mutant: the storage is closed while the pipeline runs.        *)
BeginStopWithStorage ==
    /\ step = "dispatch" /\ verb \in {"STOP", "RESET"} /\ Allowed
    /\ step' = "close"
    /\ UNCHANGED <<state, verb, reply, process, telling, refused, pipeline,
                   storage>>

BeginStop ==
    /\ step = "dispatch" /\ verb \in {"STOP", "RESET"} /\ Allowed
    /\ step' = "stop"
    /\ UNCHANGED <<state, verb, reply, process, telling, refused, pipeline,
                   storage>>

(* Bug for a mutant: the threads are joined without being told to stop.    *)
StopPipelineUntold ==
    /\ step = "stop"
    /\ IF pipe = "stopped"
       THEN step' = "close" /\ UNCHANGED pipeline
       ELSE /\ step' = "stopping" /\ pipeCall' = "stopping"
            /\ UNCHANGED <<pipe, stopRequested, streaming, capture, processing,
                           last>>
    /\ UNCHANGED <<state, verb, reply, process, telling, refused, storage>>

(* stop returns at once from a stopped pipeline.                           *)
StopPipeline ==
    /\ step = "stop"
    /\ IF pipe = "stopped" THEN step' = "close" /\ UNCHANGED pipeline
                           ELSE step' = "stopping" /\ Pipe!StopSignal
    /\ UNCHANGED <<state, verb, reply, process, telling, refused, storage>>

StopContinues ==
    /\ step = "stopping"
    /\ Pipe!StopCamera \/ (Pipe!JoinCapture /\ "capture" \notin telling)
    /\ UNCHANGED <<state, server, process, telling, refused, storage>>

PipelineStopped ==
    /\ step = "stopping"
    /\ Pipe!StopReturns /\ "processing" \notin telling
    /\ step' = "close"
    /\ UNCHANGED <<state, verb, reply, process, telling, refused, storage>>

FinalStatusOf ==
    CASE verb = "STOP" -> "complete"
      [] verb \in {"START", "RESET"} -> "faulted"
      [] OTHER -> "interrupted"

(* close is called, and does nothing, or is skipped, when nothing is open. *)
CloseStorage ==
    /\ step = "close"
    /\ IF open THEN Store!CloseBegins(FinalStatusOf) /\ step' = "closing"
               ELSE UNCHANGED storage /\ step' = "closed"
    /\ UNCHANGED <<state, verb, reply, process, telling, refused, pipeline>>

CloseContinues ==
    /\ step = "closing"
    /\ \/ Store!Join /\ "worker" \notin telling
       \/ Store!FlushFails \/ Store!RemoveManifest
       \/ Store!WriteStatus \/ Store!SkipStatus
    /\ UNCHANGED <<state, server, process, telling, refused, pipeline>>

(* Bug for a mutant: what close throws is not noticed.                     *)
CloseReturnsAlways ==
    /\ step = "closing" /\ Store!CloseEnds
    /\ step' = "closed"
    /\ UNCHANGED <<state, verb, reply, process, telling, refused, pipeline>>

CloseReturns ==
    /\ step = "closing" /\ Store!CloseEnds
    /\ step' = IF closeError THEN "failed" ELSE "closed"
    /\ UNCHANGED <<state, verb, reply, process, telling, refused, pipeline>>

CloseThrows ==
    /\ step = "closing" /\ Store!CloseThrows
    /\ step' = "failed"
    /\ UNCHANGED <<state, verb, reply, process, telling, refused, pipeline>>

-----------------------------------------------------------------------------
(* How each of the four goes on.                                           *)

(* Bugs for mutants: STOP does not mind a close that threw; it does not    *)
(* look at the state.                                                      *)
StopEndsAnyway ==
    /\ verb = "STOP" /\ step \in {"closed", "failed"}
    /\ state' = "idle" /\ Respond(IF step = "closed" THEN "OK" ELSE "STORAGE")
    /\ UNCHANGED <<process, telling, refused, pipeline, storage>>

StopEndsUnchecked ==
    /\ verb = "STOP" /\ step \in {"closed", "failed"}
    /\ IF step = "closed"
       THEN state' = "idle" /\ Respond("OK")
       ELSE state' = Faulted /\ Respond("STORAGE")
    /\ UNCHANGED <<process, telling, refused, pipeline, storage>>

StopEnds ==
    /\ verb = "STOP" /\ step \in {"closed", "failed"}
    /\ IF step = "closed" /\ Measuring
       THEN state' = "idle" /\ Respond("OK")
       ELSE state' = Faulted /\ Respond("STORAGE")
    /\ UNCHANGED <<process, telling, refused, pipeline, storage>>

StartGivesUp ==
    /\ verb = "START" /\ step \in {"closed", "failed"}
    /\ state' = Faulted /\ Respond("START")
    /\ UNCHANGED <<process, telling, refused, pipeline, storage>>

ResetEnds ==
    /\ verb = "RESET" /\ step \in {"closed", "failed"}
    /\ IF step = "closed" /\ state = "faulted"
       THEN state' = "idle" /\ Respond("OK")
       ELSE /\ Respond(IF step = "failed" THEN "STORAGE" ELSE "COMMAND")
            /\ UNCHANGED state
    /\ UNCHANGED <<process, telling, refused, pipeline, storage>>

(* Nothing in main catches what close throws: the process is terminated.   *)
ShutdownEnds ==
    /\ verb = "EXIT" /\ step \in {"closed", "failed"}
    /\ main' = IF step = "closed" THEN "returned" ELSE "terminated"
    /\ step' = "done"
    /\ UNCHANGED <<state, verb, reply, asked, telling, refused, pipeline,
                   storage>>

-----------------------------------------------------------------------------
(* The main thread.                                                        *)

Signal ==
    /\ step # "boot" /\ ~asked
    /\ asked' = TRUE
    /\ UNCHANGED <<state, server, main, telling, refused, pipeline, storage>>

(* Bug for a mutant: the process does not end in a measurement.            *)
BeginShutdownLate ==
    /\ main = "loop" /\ asked /\ ~Measuring
    /\ main' = "joining"
    /\ UNCHANGED <<state, server, asked, telling, refused, pipeline, storage>>

(* The main loop ends, and asks the server to stop.                        *)
BeginShutdown ==
    /\ main = "loop" /\ asked
    /\ main' = "joining"
    /\ UNCHANGED <<state, server, asked, telling, refused, pipeline, storage>>

(* The server leaves its loop and is joined.                               *)
ServerStopped ==
    /\ main = "joining" /\ step = "accept"
    /\ main' = "closing"
    /\ state' = "shutting_down"
    /\ verb' = "EXIT" /\ step' = "stop"
    /\ UNCHANGED <<reply, asked, telling, refused, pipeline, storage>>

-----------------------------------------------------------------------------
(* The threads of the pipeline and the callbacks they run.                 *)

CaptureThrows ==
    /\ Pipe!CaptureThrows
    /\ UNCHANGED <<state, server, process, telling, refused, storage>>

CaptureEnds ==
    /\ Pipe!CaptureEnds
    /\ UNCHANGED <<state, server, process, telling, refused, storage>>

CaptureFault ==
    /\ Pipe!CaptureFault
    /\ telling' = telling \cup {"capture"}
    /\ UNCHANGED <<state, server, process, refused, storage>>

BeginFrame ==
    /\ Pipe!BeginFrame
    /\ UNCHANGED <<state, server, process, telling, refused, storage>>

EndReference ==
    /\ Pipe!TakeReference
    /\ UNCHANGED <<state, server, process, telling, refused, storage>>

ProcessingEnds ==
    /\ Pipe!ProcessingEnds
    /\ UNCHANGED <<state, server, process, telling, refused, storage>>

(* The result callback: the storage takes the result ...                   *)
StoreResult ==
    /\ Pipe!Deliver /\ Store!Accept
    /\ UNCHANGED <<state, server, process, telling, refused>>

(* ... or its queue is full, and the callback throws ...                   *)
RefuseResult ==
    /\ StorageMayFill /\ Store!Accepts
    /\ Pipe!ProcessingThrows /\ last' = last
    /\ refused' = TRUE
    /\ UNCHANGED <<state, server, process, telling, storage>>

(* ... or enqueue itself throws, because the storage has failed.           *)
RejectResult ==
    /\ ~Store!Accepts
    /\ Pipe!ProcessingThrows /\ last' = last
    /\ refused' = TRUE
    /\ UNCHANGED <<state, server, process, telling, storage>>

(* The engine throws, or the streams do after the result was stored.       *)
EngineThrows ==
    /\ EngineMayFail /\ Pipe!ProcessingThrows
    /\ IF last' = last THEN UNCHANGED storage ELSE Store!Accept
    /\ UNCHANGED <<state, server, process, telling, refused>>

ProcessingFault ==
    /\ Pipe!ProcessingFault
    /\ telling' = telling \cup {"processing"}
    /\ UNCHANGED <<state, server, process, refused, storage>>

(* The worker of the storage.                                              *)
WorkerFault ==
    /\ Store!WorkerFault
    /\ telling' = telling \cup {"worker"}
    /\ UNCHANGED <<state, server, process, refused, pipeline>>

WorkerEnds ==
    /\ Store!WorkerEnds
    /\ UNCHANGED <<state, server, process, telling, refused, pipeline>>

(* Bug for a mutant: a fault in a pause is ignored.                        *)
FaultCallbackInPause(thread) ==
    /\ telling' = telling \ {thread}
    /\ state' = IF state = "paused" THEN state ELSE Faulted
    /\ UNCHANGED <<server, process, refused, pipeline, storage>>

(* A fault callback: state.fault().                                        *)
FaultCallback(thread) ==
    /\ telling' = telling \ {thread}
    /\ state' = Faulted
    /\ UNCHANGED <<server, process, refused, pipeline, storage>>

-----------------------------------------------------------------------------
ClientSpeaks == ReceiveLine \/ DropClient

HandlerStep ==
    \/ BootComplete
    \/ Query \/ Refuse \/ Reconfigure \/ ReconfigureFails \/ AskShutdown
    \/ BeginStart \/ OpenSession \/ OpenSessionFails \/ StartMeasurement
    \/ StartPipeline \/ StartPipelineFails \/ SpawnThread \/ Started
    \/ PausePipeline \/ PauseFails \/ PauseReturns \/ PauseMeasurement
    \/ ResumePipeline \/ ResumeFails \/ ResumeMeasurement
    \/ BeginStop \/ StopPipeline \/ StopContinues \/ PipelineStopped
    \/ CloseStorage \/ CloseContinues \/ CloseReturns \/ CloseThrows
    \/ StopEnds \/ StartGivesUp \/ ResetEnds \/ ShutdownEnds
    \/ ServerStopped

EndFrame ==
    \/ EndReference \/ StoreResult \/ RefuseResult \/ RejectResult
    \/ EngineThrows

ThreadStep ==
    \/ CaptureThrows \/ CaptureEnds \/ CaptureFault
    \/ BeginFrame \/ EndFrame \/ ProcessingEnds \/ ProcessingFault
    \/ WorkerFault \/ WorkerEnds
    \/ \E thread \in telling : FaultCallback(thread)

Next ==
    \/ AcceptClient \/ ClientSpeaks
    \/ HandlerStep
    \/ Signal \/ BeginShutdown
    \/ ThreadStep

Spec == Init /\ [][Next]_vars

(* The handler and every thread run when they can, and what a thread has   *)
(* begun ends; nothing has to fail, nobody has to ask for anything, and a  *)
(* client need not send its line nor go away.  Neither does pause have to  *)
(* return nor the processing thread to leave the gate: Pipeline shows that *)
(* a lost wakeup may keep both.                                            *)
Fairness ==
    /\ WF_vars(step # "pausing" /\ HandlerStep) /\ WF_vars(BeginShutdown)
    /\ WF_vars(CaptureEnds) /\ WF_vars(CaptureFault)
    /\ WF_vars(EndFrame)
    /\ WF_vars(ProcessingFault) /\ WF_vars(WorkerEnds)
    /\ \A thread \in {"capture", "processing", "worker"} :
           WF_vars(thread \in telling /\ FaultCallback(thread))

FairSpec == Spec /\ Fairness

(* No wakeup is lost in the pipeline, so that its calls return.            *)
PromptSpec == FairSpec /\ WF_vars(PauseReturns) /\ WF_vars(ProcessingEnds)

-----------------------------------------------------------------------------
(* Properties.                                                             *)

(* Every variable has its type.                                            *)
EdgeTypes ==
    /\ state \in EdgeState
    /\ step \in Step /\ verb \in Verb \cup {"none", "EXIT"} /\ reply \in Reply
    /\ main \in {"loop", "joining", "closing", "returned", "terminated"}
    /\ asked \in BOOLEAN /\ refused \in BOOLEAN
    /\ telling \subseteq {"capture", "processing", "worker"}

PipelineTypes ==
    /\ pipe \in {"stopped", "starting", "running", "paused", "stopping",
                 "faulted"}
    /\ stopRequested \in BOOLEAN /\ streaming \in BOOLEAN
    /\ pipeCall \in Pipe!Call /\ capture \in Pipe!Capture
    /\ processing \in Pipe!Processing
    /\ last \in Pipe!Frame \cup {Pipe!NoFrame}

StorageTypes ==
    /\ open \in BOOLEAN /\ accepting \in BOOLEAN
    /\ storageFaulted \in BOOLEAN /\ used \in BOOLEAN
    /\ worker \in {"none", "run", "done"} /\ session \in BOOLEAN
    /\ manifest \in Store!FinalStatus \cup {"none", "recording"}
    /\ closeCall \in Store!Call
    /\ closeStatus \in Store!FinalStatus \cup {"none"}
    /\ closeError \in BOOLEAN

TypeOK == EdgeTypes /\ PipelineTypes /\ StorageTypes

(* No command is being executed.                                           *)
AtRest == step \in {"accept", "recv", "dispatch"}

(* An idle Edge, and one that has returned from main, has a stopped        *)
(* pipeline without threads, a closed storage without worker, and no       *)
(* callback under way: START and CONFIG rely on it, which replace the      *)
(* configuration and the pipeline the threads would use.                   *)
IdleIsQuiet ==
    (state = "idle" /\ AtRest) \/ main = "returned" =>
        /\ pipe = "stopped" /\ pipeCall = "idle"
        /\ capture = "none" /\ processing = "none"
        /\ ~open /\ worker = "none"
        /\ telling = {}

(* The processing thread always finds its session: no result is rejected   *)
(* for want of an open storage, only because the storage has failed.       *)
StorageOutlivesPipeline ==
    processing # "none" => open /\ (accepting \/ storageFaulted)

(* An Edge that says measuring, or paused, is: unless a failing thread is  *)
(* about to say otherwise, its pipeline and its storage work.              *)
NoGhostMeasurement ==
    Measuring /\ AtRest =>
        \/ telling # {} \/ capture = "fault" \/ processing = "fault"
        \/ /\ pipe = (IF state = "measuring" THEN "running" ELSE "paused")
           /\ capture = "run" /\ processing \in {"run", "busy"}
           /\ ~stopRequested
           /\ open /\ accepting /\ ~storageFaulted

(* A fault is forgotten by an answered RESET that stopped everything, or   *)
(* by a shutdown, and by nothing else.                                     *)
FaultIsSticky ==
    [][state = "faulted" /\ state' # "faulted" =>
           \/ state' = "shutting_down"
           \/ verb = "RESET" /\ reply' = "OK" /\ pipe = "stopped" /\ ~open]_vars

(* STOP answers OK only for a session that lost nothing: its manifest says *)
(* complete, no result was refused and the storage did not fail.           *)
StopOkMeansComplete ==
    [][verb = "STOP" /\ ~AtRest /\ step' = "accept" /\ reply' = "OK" =>
           manifest = "complete" /\ ~refused /\ ~storageFaulted]_vars

(* A client is connected and does not send its line.                       *)
ClientSilent == step = "recv"

(* The lost wakeups of the pipeline (Pipeline!OnlyLostWakeupsHang): pause   *)
(* waits although no frame is being worked on, or stop waits for a          *)
(* processing thread that was told to end and has not left the gate.       *)
PipelineHangs ==
    \/ step = "pausing" /\ processing # "busy"
    \/ step = "stopping" /\ stopRequested /\ processing = "run"

(* A client that has connected gets its answer, or its connection closed,  *)
(* and the server goes on to the next one: unless for ever the client says *)
(* nothing (and recv has no timeout), or a wakeup is lost in the pipeline. *)
(* Waiting for callbacks, for the worker of the storage and after failures *)
(* of either keeps nobody.                                                 *)
CommandsAnswered ==
    step = "recv" ~> step = "accept" \/ []ClientSilent \/ []PipelineHangs

(* A measurement whose pipeline or storage has failed, or has refused a    *)
(* result, does not go on being shown as one.                              *)
FaultEndsMeasurement ==
    Measuring /\ AtRest /\ (refused \/ storageFaulted \/ stopRequested)
        ~> ~Measuring

(* Asked by a signal or SHUTDOWN, at any moment and whatever has failed,   *)
(* main returns; or the last close of the storage throws, which nothing in *)
(* main catches; or for ever the server waits for a silent client, or a    *)
(* wakeup is lost in the pipeline.                                         *)
ShutdownCompletes ==
    asked ~> \/ main = "returned"
             \/ main = "terminated" /\ (open \/ closeError)
             \/ []ClientSilent
             \/ []PipelineHangs

(* A signal makes main return.                                             *)
ShutdownReturns == asked ~> main = "returned"

(* STOP of a measurement in which nothing has failed does not answer with  *)
(* an error.                                                               *)
StopAnswersOk ==
    [][verb = "STOP" /\ ~AtRest /\ step' = "accept" => reply' = "OK"]_vars
=============================================================================
