------------------------------- MODULE Camera -------------------------------
(***************************************************************************)
(* GalaxyCamera and ReplayCamera under the pipeline (src/galaxy_camera.cpp,  *)
(* src/replay_camera.cpp): the caller opens, starts, stops and closes the   *)
(* camera in ProcessingPipeline::start and stop, while the capture thread   *)
(* is in grab.  The GalaxySDK behind the Galaxy camera is external; closing *)
(* a device that is open is taken to succeed, every other call may fail.    *)
(*                                                                         *)
(* The queue, the pool and the processing thread are those of Pipeline; of  *)
(* them there is here the thread that cannot be started.                   *)
(***************************************************************************)
EXTENDS Integers

CONSTANTS
    Kinds,      \* cameras to try: "galaxy", "replay"
    MaxFiles    \* bound: frames in the replay directory

ASSUME CameraAssumption == Kinds \subseteq {"galaxy", "replay"} /\ MaxFiles \in Nat

VARIABLES
    kind,
    caller,         \* where start or stop of the pipeline is
    stopRequested,  \* stop_requested_
    capture,        \* where the capture thread is
    camera,         \* the members of the camera
    sdk,            \* the state of the GalaxySDK
    processingFailed,   \* history: the processing thread could not be started
    misused         \* history: grab used a device or a list that was closed

cameraVars == <<kind, caller, stopRequested, capture, camera, sdk, processingFailed, misused>>

CallerPC == {"stopped", "device", "settings", "refused", "start", "capture", "processing",
             "running", "undo", "undoClose", "faulted", "stop", "join", "close"}

CapturePC == {"none", "loop", "grab", "dequeue", "filled", "load", "read", "done"}

(* Galaxy: device_ is not null, library_open_, streaming_.  Replay: opened_,  *)
(* streaming_, the number of files_ and next_index_.                       *)
ClosedCamera(next) ==
    [opened |-> FALSE, library |-> FALSE, streaming |-> FALSE, files |-> 0, nextFile |-> next]

IdleSDK == [library |-> FALSE, device |-> FALSE, acquiring |-> FALSE, held |-> 0]

CameraInit ==
    /\ kind \in Kinds
    /\ caller = "stopped" /\ stopRequested = FALSE /\ capture = "none"
    /\ camera = ClosedCamera(0) /\ sdk = IdleSDK
    /\ processingFailed = FALSE /\ misused = FALSE

-----------------------------------------------------------------------------
(* Operations of the cameras.                                              *)

(* Closing the device ends its acquisition and takes its buffers back; a     *)
(* camera that is not open has nothing to close.                           *)
CloseCamera ==
    /\ camera' = ClosedCamera(camera.nextFile)
    /\ sdk' = [library |-> sdk.library /\ ~camera.library,
               device |-> sdk.device /\ ~camera.opened,
               acquiring |-> sdk.acquiring /\ ~camera.opened,
               held |-> IF camera.opened THEN 0 ELSE sdk.held]

(* open of the Galaxy camera: the library, then a device that is found and   *)
(* answers, then eight settings.                                           *)
InitLibrary ==
    /\ kind = "galaxy"
    /\ camera' = [camera EXCEPT !.library = TRUE]
    /\ sdk' = [sdk EXCEPT !.library = TRUE]

FindDevice ==
    /\ camera' = [camera EXCEPT !.opened = TRUE]
    /\ sdk' = [sdk EXCEPT !.device = TRUE]

(* open of the replay: a directory with images.                            *)
ReadDirectory ==
    /\ kind = "replay"
    /\ \E n \in 1 .. MaxFiles : camera' = [camera EXCEPT !.opened = TRUE, !.files = n]
    /\ UNCHANGED sdk

(* GXInitLib fails, before the try block; or the directory is missing, empty  *)
(* or cannot be read to its end.                                           *)
OpenFails ==
    /\ \/ kind = "galaxy" /\ UNCHANGED camera
       \/ kind = "replay" /\ \E n \in 0 .. MaxFiles : camera' = [camera EXCEPT !.files = n]
    /\ UNCHANGED sdk

(* Bug for a mutant: the handler of open only throws on.                   *)
HalfOpenKept == caller' = "refused" /\ UNCHANGED <<camera, sdk>>

(* A later call of open fails: its handler closes what is open, and open      *)
(* throws.                                                                 *)
HalfOpenClosed == caller' = "refused" /\ CloseCamera

(* The Galaxy camera starts its acquisition, the replay its list.          *)
StartWorks ==
    /\ camera' = [camera EXCEPT !.streaming = TRUE,
                                !.nextFile = IF kind = "replay" THEN 0 ELSE @]
    /\ sdk' = [sdk EXCEPT !.acquiring = kind = "galaxy"]

StopWorks ==
    /\ camera' = [camera EXCEPT !.streaming = FALSE]
    /\ sdk' = [sdk EXCEPT !.acquiring = FALSE]

(* AcquisitionStop is refused: stop throws and the camera still streams.    *)
StopFails ==
    /\ kind = "galaxy" /\ camera.opened /\ camera.streaming
    /\ UNCHANGED <<camera, sdk>>

-----------------------------------------------------------------------------
(* The caller: ProcessingPipeline::start and stop.                          *)

callerOnly == <<kind, capture, misused>>

Open ==
    /\ caller = "stopped"
    /\ stopRequested' = FALSE
    /\ \/ InitLibrary /\ caller' = "device"
       \/ ReadDirectory /\ caller' = "start"
       \/ OpenFails /\ caller' = "refused"
    /\ UNCHANGED <<callerOnly, processingFailed>>

OpenDevice ==
    /\ caller = "device"
    /\ \/ FindDevice /\ caller' = "settings"
       \/ HalfOpenClosed
    /\ UNCHANGED <<callerOnly, stopRequested, processingFailed>>

SetDevice ==
    /\ caller = "settings"
    /\ \/ caller' = "start" /\ UNCHANGED <<camera, sdk>>
       \/ HalfOpenClosed
    /\ UNCHANGED <<callerOnly, stopRequested, processingFailed>>

Start ==
    /\ caller = "start"
    /\ \/ StartWorks /\ caller' = "capture"
       \/ kind = "galaxy" /\ caller' = "undo" /\ UNCHANGED <<camera, sdk>>
    /\ UNCHANGED <<callerOnly, stopRequested, processingFailed>>

SpawnCapture ==
    /\ caller = "capture"
    /\ \/ caller' = "processing" /\ capture' = "loop"
       \/ caller' = "undo" /\ UNCHANGED capture
    /\ UNCHANGED <<kind, stopRequested, camera, sdk, processingFailed, misused>>

SpawnProcessing ==
    /\ caller = "processing"
    /\ \/ caller' = "running" /\ UNCHANGED processingFailed
       \/ caller' = "undo" /\ processingFailed' = TRUE
    /\ UNCHANGED <<callerOnly, stopRequested, camera, sdk>>

(* The handler of start: stop_requested_, then stop and close in one try      *)
(* block, so that a camera that does not stop is not closed either.        *)
UndoStop ==
    /\ caller \in {"refused", "undo"}
    /\ stopRequested' = TRUE
    /\ \/ StopWorks /\ caller' = "undoClose"
       \/ StopFails /\ caller' = "faulted"
    /\ UNCHANGED <<callerOnly, processingFailed>>

UndoClose ==
    /\ caller = "undoClose" /\ caller' = "faulted"
    /\ CloseCamera
    /\ UNCHANGED <<callerOnly, stopRequested, processingFailed>>

StopSignal ==
    /\ caller \in {"running", "faulted"} /\ caller' = "stop"
    /\ stopRequested' = TRUE
    /\ UNCHANGED <<callerOnly, camera, sdk, processingFailed>>

StopCamera ==
    /\ caller = "stop" /\ caller' = "join"
    /\ StopWorks \/ StopFails
    /\ UNCHANGED <<callerOnly, stopRequested, processingFailed>>

(* Bug for a mutant: the capture thread is not waited for.                 *)
JoinThreadsLater ==
    /\ caller = "join" /\ caller' = "close"
    /\ UNCHANGED <<kind, capture, stopRequested, camera, sdk, processingFailed, misused>>

JoinThreads ==
    /\ caller = "join" /\ caller' = "close"
    /\ capture \in {"none", "done"} /\ capture' = "none"
    /\ UNCHANGED <<kind, stopRequested, camera, sdk, processingFailed, misused>>

(* The pipeline has stopped: what happened before does not count any more.  *)
Close ==
    /\ caller = "close" /\ caller' = "stopped"
    /\ CloseCamera
    /\ processingFailed' = FALSE /\ misused' = FALSE
    /\ UNCHANGED <<kind, capture, stopRequested>>

-----------------------------------------------------------------------------
(* The capture thread: capture_loop and grab.  An exception ends the loop,    *)
(* and report_fault asks the other thread to stop.                         *)

captureOnly == <<kind, caller, processingFailed>>

Throws == capture' = "done" /\ stopRequested' = TRUE

Acquire ==
    /\ capture = "loop"
    /\ capture' = IF stopRequested THEN "done" ELSE "grab"
    /\ UNCHANGED <<captureOnly, stopRequested, camera, sdk, misused>>

BeginGrab ==
    /\ capture = "grab"
    /\ \/ ~camera.streaming /\ Throws
       \/ /\ camera.streaming
          /\ capture' = IF kind = "galaxy" THEN "dequeue" ELSE "load"
          /\ UNCHANGED stopRequested
    /\ UNCHANGED <<captureOnly, camera, sdk, misused>>

(* GXDQBuf waits up to a second and returns a buffer, a timeout or an error.  *)
Dequeue ==
    /\ capture = "dequeue"
    /\ misused' = (misused \/ ~sdk.device)
    /\ \/ /\ sdk.acquiring
          /\ capture' = "filled" /\ sdk' = [sdk EXCEPT !.held = @ + 1]
          /\ UNCHANGED stopRequested
       \/ capture' = "loop" /\ UNCHANGED <<sdk, stopRequested>>
       \/ Throws /\ UNCHANGED sdk
    /\ UNCHANGED <<captureOnly, camera>>

(* Bug for a mutant: the guard is made after the checks of the buffer.      *)
UseBufferGuardLate ==
    /\ capture = "filled"
    /\ misused' = (misused \/ ~sdk.device)
    /\ \/ /\ capture' = "loop" /\ UNCHANGED stopRequested
          /\ sdk' = [sdk EXCEPT !.held = IF sdk.device THEN @ - 1 ELSE @]
       \/ Throws /\ UNCHANGED sdk
    /\ UNCHANGED <<captureOnly, camera>>

(* The frame is copied, or the buffer is incomplete or of another size; in   *)
(* both cases BufferReturnGuard gives it back, to the device it came from.  *)
UseBuffer ==
    /\ capture = "filled"
    /\ misused' = (misused \/ ~sdk.device)
    /\ sdk' = [sdk EXCEPT !.held = IF sdk.device THEN @ - 1 ELSE @]
    /\ \/ capture' = "loop" /\ UNCHANGED stopRequested
       \/ Throws
    /\ UNCHANGED <<captureOnly, camera>>

(* After the last image the replay starts over, or has no more; a frame       *)
(* period beyond the timeout gives none at all.  Between this test and the   *)
(* reading of the list it sleeps for a frame period.                        *)
ChooseFile ==
    /\ capture = "load"
    /\ \/ camera.nextFile < camera.files /\ capture' = "read" /\ UNCHANGED camera
       \/ /\ camera.nextFile >= camera.files
          /\ capture' = "read" /\ camera' = [camera EXCEPT !.nextFile = 0]
       \/ capture' = "loop" /\ UNCHANGED camera
    /\ UNCHANGED <<captureOnly, stopRequested, sdk, misused>>

(* The image is read, or it cannot be.                                     *)
LoadFile ==
    /\ capture = "read"
    /\ misused' = (misused \/ camera.nextFile >= camera.files)
    /\ camera' = [camera EXCEPT !.nextFile = @ + 1]
    /\ \/ capture' = "loop" /\ UNCHANGED stopRequested
       \/ Throws
    /\ UNCHANGED <<captureOnly, sdk>>

CameraNext ==
    \/ Open \/ OpenDevice \/ SetDevice \/ Start \/ SpawnCapture \/ SpawnProcessing \/ UndoStop \/ UndoClose
    \/ StopSignal \/ StopCamera \/ JoinThreads \/ Close
    \/ Acquire \/ BeginGrab \/ Dequeue \/ UseBuffer \/ ChooseFile \/ LoadFile

CameraSpec == CameraInit /\ [][CameraNext]_cameraVars

-----------------------------------------------------------------------------
TypeOK ==
    /\ kind \in Kinds /\ caller \in CallerPC /\ capture \in CapturePC
    /\ camera \in [opened : BOOLEAN, library : BOOLEAN, streaming : BOOLEAN,
                   files : Nat, nextFile : Nat]
    /\ sdk \in [library : BOOLEAN, device : BOOLEAN, acquiring : BOOLEAN, held : Nat]
    /\ stopRequested \in BOOLEAN /\ processingFailed \in BOOLEAN /\ misused \in BOOLEAN

(* Stopping and closing the camera never pulls a device or a list of images  *)
(* from under a grab, which may be waiting for a frame all that time.  The   *)
(* one exception is in the code: when the processing thread cannot be       *)
(* started, start closes the camera while the capture thread uses it.       *)
UsedWhileOpen == misused => processingFailed

(* However grab ends, the buffer it took is given back (unless the device is *)
(* gone).  When open has thrown, at whichever of its calls, before the       *)
(* pipeline has done anything about it; when start has failed; and when stop *)
(* has returned, nothing of the SDK stays open, so that the camera can be    *)
(* opened again: only a camera that refused to stop waits for the next stop *)
(* to be closed.                                                           *)
NothingLeaks ==
    /\ (sdk.device /\ capture # "filled") => sdk.held = 0
    /\ \/ caller \in {"stopped", "refused"}
       \/ caller = "faulted" /\ ~camera.streaming
       => /\ ~camera.opened /\ ~camera.library
          /\ ~sdk.library /\ ~sdk.device /\ ~sdk.acquiring
=============================================================================
