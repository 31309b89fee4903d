-------------------------- MODULE PipelineContract --------------------------
(***************************************************************************)
(* What class ProcessingPipeline promises to the Edge that owns it, with   *)
(* the frame pool, the queue, the pause gate and the condition variable    *)
(* hidden.  A thread is absent, running, busy with a frame, failing, or    *)
(* ready to be joined; a call of the owner is pending or not.              *)
(***************************************************************************)
EXTENDS Integers

CONSTANTS
    MaxFrames,          \* frames the camera delivers in a session
    CameraMayFail,      \* may open, start and grab throw?
    ProcessingMayFail   \* may the engine or a callback throw?

VARIABLES
    state,          \* state_
    stopRequested,  \* stop_requested_
    streaming,      \* the camera's streaming_
    call,           \* the call of the owner that has not returned
    capture,        \* the capture thread
    processing,     \* the processing thread
    last            \* last frame whose result went to the callback

lifeVars == <<state, stopRequested, streaming, call, capture, processing, last>>

NoFrame == -1
Frame == 0 .. (MaxFrames - 1)

Call == {"idle", "starting", "pausing", "stopping", "joining"}
Capture == {"none", "run", "fault", "done"}
Processing == {"none", "run", "busy", "fault", "done"}

Init ==
    /\ state = "stopped" /\ stopRequested = FALSE /\ streaming = FALSE
    /\ call = "idle" /\ capture = "none" /\ processing = "none"
    /\ last = NoFrame

-----------------------------------------------------------------------------
(* Calls of the owner.                                                     *)

Start ==
    /\ call = "idle" /\ state = "stopped"
    /\ state' = "starting" /\ stopRequested' = FALSE /\ streaming' = TRUE
    /\ last' = NoFrame
    /\ call' = "starting"
    /\ UNCHANGED <<capture, processing>>

StartFails ==
    /\ call = "idle" /\ state = "stopped" /\ CameraMayFail
    /\ state' = "faulted" /\ stopRequested' = TRUE /\ streaming' = FALSE
    /\ last' = NoFrame
    /\ UNCHANGED <<call, capture, processing>>

SpawnCapture ==
    /\ call = "starting" /\ capture = "none"
    /\ capture' = "run"
    /\ UNCHANGED <<state, stopRequested, streaming, call, processing, last>>

SpawnProcessing ==
    /\ call = "starting" /\ capture # "none" /\ processing = "none"
    /\ processing' = "run"
    /\ UNCHANGED <<state, stopRequested, streaming, call, capture, last>>

(* start throws, perhaps with a running capture thread.                    *)
SpawnFails ==
    /\ call = "starting" /\ processing = "none"
    /\ state' = "faulted" /\ stopRequested' = TRUE /\ streaming' = FALSE
    /\ call' = "idle"
    /\ UNCHANGED <<capture, processing, last>>

(* start returns; a fault the threads reported meanwhile is overwritten.   *)
PublishRunning ==
    /\ call = "starting" /\ processing # "none"
    /\ state' = "running"
    /\ call' = "idle"
    /\ UNCHANGED <<stopRequested, streaming, capture, processing, last>>

Pause ==
    /\ call = "idle" /\ state = "running"
    /\ state' = "paused"
    /\ call' = "pausing"
    /\ UNCHANGED <<stopRequested, streaming, capture, processing, last>>

PauseReturns ==
    /\ call = "pausing" /\ processing # "busy"
    /\ call' = "idle"
    /\ UNCHANGED <<state, stopRequested, streaming, capture, processing, last>>

Resume ==
    /\ call = "idle" /\ state = "paused"
    /\ state' = "running"
    /\ UNCHANGED <<stopRequested, streaming, call, capture, processing, last>>

StopSignal ==
    /\ call = "idle" /\ state # "stopped"
    /\ state' = IF state = "faulted" THEN state ELSE "stopping"
    /\ stopRequested' = TRUE
    /\ call' = "stopping"
    /\ UNCHANGED <<streaming, capture, processing, last>>

StopCamera ==
    /\ call = "stopping"
    /\ streaming' = FALSE
    /\ call' = "joining"
    /\ UNCHANGED <<state, stopRequested, capture, processing, last>>

JoinCapture ==
    /\ call = "joining" /\ capture = "done"
    /\ capture' = "none"
    /\ UNCHANGED <<state, stopRequested, streaming, call, processing, last>>

StopReturns ==
    /\ call = "joining" /\ capture = "none" /\ processing \in {"none", "done"}
    /\ processing' = "none"
    /\ state' = "stopped" /\ streaming' = FALSE
    /\ call' = "idle"
    /\ UNCHANGED <<stopRequested, capture, last>>

-----------------------------------------------------------------------------
(* The threads.                                                            *)

CaptureThrows ==
    /\ capture = "run" /\ (CameraMayFail \/ ~streaming)
    /\ capture' = "fault"
    /\ UNCHANGED <<state, stopRequested, streaming, call, processing, last>>

CaptureEnds ==
    /\ capture = "run" /\ stopRequested
    /\ capture' = "done"
    /\ UNCHANGED <<state, stopRequested, streaming, call, processing, last>>

CaptureFault ==
    /\ capture = "fault"
    /\ state' = "faulted" /\ stopRequested' = TRUE
    /\ capture' = "done"
    /\ UNCHANGED <<streaming, call, processing, last>>

(* No frame is begun while the pipeline is paused or asked to stop ...     *)
BeginFrame ==
    /\ processing = "run" /\ ~stopRequested /\ state # "paused"
    /\ processing' = "busy"
    /\ UNCHANGED <<state, stopRequested, streaming, call, capture, last>>

TakeReference ==
    /\ processing = "busy"
    /\ processing' = "run"
    /\ UNCHANGED <<state, stopRequested, streaming, call, capture, last>>

(* ... and the results of a session leave in the order of its frames.      *)
Deliver ==
    /\ processing = "busy"
    /\ last' \in Frame /\ last' > last
    /\ processing' = "run"
    /\ UNCHANGED <<state, stopRequested, streaming, call, capture>>

(* The engine or a callback throws, perhaps after the result was taken.    *)
ProcessingThrows ==
    /\ processing = "busy" /\ ProcessingMayFail
    /\ last' \in Frame \cup {last} /\ last' >= last
    /\ processing' = "fault"
    /\ UNCHANGED <<state, stopRequested, streaming, call, capture>>

ProcessingEnds ==
    /\ processing = "run" /\ stopRequested
    /\ processing' = "done"
    /\ UNCHANGED <<state, stopRequested, streaming, call, capture, last>>

ProcessingFault ==
    /\ processing = "fault"
    /\ state' = "faulted" /\ stopRequested' = TRUE
    /\ processing' = "done"
    /\ UNCHANGED <<streaming, call, capture, last>>

-----------------------------------------------------------------------------
Next ==
    \/ Start \/ StartFails \/ SpawnCapture \/ SpawnProcessing \/ SpawnFails
    \/ PublishRunning \/ Pause \/ PauseReturns \/ Resume
    \/ StopSignal \/ StopCamera \/ JoinCapture \/ StopReturns
    \/ CaptureThrows \/ CaptureEnds \/ CaptureFault
    \/ BeginFrame \/ TakeReference \/ Deliver
    \/ ProcessingThrows \/ ProcessingEnds \/ ProcessingFault

Contract == Init /\ [][Next]_lifeVars
=============================================================================
