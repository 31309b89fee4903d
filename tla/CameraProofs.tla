----------------------------- MODULE CameraProofs -----------------------------
(***************************************************************************)
(* The camera under the pipeline, for both kinds and any number of images:  *)
(* what the camera believes is open is what the SDK has open, and a capture *)
(* thread that is in grab has it open, unless start lost the other thread.  *)
(***************************************************************************)
EXTENDS Camera, TLAPS

(* The places of start before it makes a thread.                           *)
Before == {"stopped", "device", "settings", "refused", "start"}

(* The capture thread exists only between its start and its join; a failed   *)
(* start has one only if the other thread was refused.                     *)
Threads ==
    /\ caller \in Before \cup {"capture", "close"} => capture = "none"
    /\ (capture # "none" /\ ~processingFailed) =>
          caller \in {"processing", "running", "stop", "join"} /\ camera.opened
    /\ caller \in Before \cup {"capture", "processing", "running"} => ~processingFailed
    /\ capture \in {"dequeue", "filled"} => kind = "galaxy"
    /\ capture \in {"load", "read"} => kind = "replay"

(* What the camera has open, by where the caller is.                       *)
Opened ==
    /\ caller \in {"settings", "start", "capture", "processing", "running"} => camera.opened
    /\ caller \in {"stopped", "device", "refused"} => ~camera.opened
    /\ caller = "faulted" => ~camera.opened \/ camera.streaming
    /\ camera.streaming => camera.opened
    /\ (kind = "replay" /\ camera.opened) => camera.files > 0

(* What the SDK has open is what the camera believes.                      *)
SDKFollows ==
    /\ caller \in {"device", "settings"} => kind = "galaxy"
    /\ camera.library <=> (kind = "galaxy" /\ (camera.opened \/ caller = "device"))
    /\ sdk.library <=> camera.library
    /\ sdk.device <=> (kind = "galaxy" /\ camera.opened)
    /\ sdk.acquiring => sdk.device /\ camera.streaming
    /\ sdk.held = IF sdk.device /\ capture = "filled" THEN 1 ELSE 0

(* The image chosen is in the list when it is read.                        *)
Chosen == (capture = "read" /\ ~processingFailed) => camera.nextFile < camera.files

CameraInv ==
    /\ TypeOK
    /\ kind \in {"galaxy", "replay"}
    /\ Threads /\ Opened /\ SDKFollows /\ Chosen /\ UsedWhileOpen

LEMMA FileCount ==
    ASSUME NEW n \in 1 .. MaxFiles
    PROVE  n \in Nat /\ n > 0
BY CameraAssumption

LEMMA FileCountFrom0 ==
    ASSUME NEW n \in 0 .. MaxFiles
    PROVE  n \in Nat
BY CameraAssumption

LEMMA InitInv == CameraInit => CameraInv
<1>1. SUFFICES ASSUME CameraInit PROVE CameraInv
  OBVIOUS
<1>2. TypeOK
  BY <1>1, CameraAssumption DEF CameraInit, TypeOK, CallerPC, CapturePC, ClosedCamera, IdleSDK
<1>3. kind \in {"galaxy", "replay"}
  BY <1>1, CameraAssumption DEF CameraInit
<1>4. Threads /\ Opened /\ Chosen /\ UsedWhileOpen
  BY <1>1 DEF CameraInit, ClosedCamera, Before, Threads, Opened, Chosen, UsedWhileOpen
<1>5. SDKFollows
  BY <1>1 DEF CameraInit, ClosedCamera, IdleSDK, SDKFollows
<1>6. QED
  BY <1>2, <1>3, <1>4, <1>5 DEF CameraInv

LEMMA OpenInv == CameraInv /\ Open => CameraInv'
<1> SUFFICES ASSUME CameraInv, Open PROVE CameraInv'
  OBVIOUS
<1> USE DEF CameraInv, Open, InitLibrary, ReadDirectory, OpenFails,
  callerOnly
<1>1. TypeOK' /\ kind' \in {"galaxy", "replay"}
  <2>1. camera' \in [opened : BOOLEAN, library : BOOLEAN, streaming : BOOLEAN,
                   files : Nat, nextFile : Nat]
    <3>1. CASE UNCHANGED camera
      BY <3>1 DEF TypeOK
    <3>2. CASE camera' = [camera EXCEPT !.library = TRUE]
      BY <3>2 DEF TypeOK
    <3>3. CASE \E n \in 1 .. MaxFiles : camera' = [camera EXCEPT !.opened = TRUE, !.files = n]
      <4>1. PICK n \in 1 .. MaxFiles : camera' = [camera EXCEPT !.opened = TRUE, !.files = n]
        BY <3>3
      <4>2. n \in Nat
        BY FileCount
      <4>3. QED
        BY <4>1, <4>2 DEF TypeOK
    <3>4. CASE \E n \in 0 .. MaxFiles : camera' = [camera EXCEPT !.files = n]
      <4>1. PICK n \in 0 .. MaxFiles : camera' = [camera EXCEPT !.files = n]
        BY <3>4
      <4>2. n \in Nat
        BY FileCountFrom0
      <4>3. QED
        BY <4>1, <4>2 DEF TypeOK
    <3>5. QED
      BY <3>1, <3>2, <3>3, <3>4
  <2>2. sdk' \in [library : BOOLEAN, device : BOOLEAN, acquiring : BOOLEAN, held : Nat]
    BY DEF TypeOK, SDKFollows
  <2>3. kind' \in Kinds /\ kind' \in {"galaxy", "replay"}
    BY DEF TypeOK
  <2>4. caller' \in CallerPC /\ capture' \in CapturePC
    BY DEF TypeOK, CallerPC, CapturePC
  <2>5. stopRequested' \in BOOLEAN /\ processingFailed' \in BOOLEAN /\ misused' \in BOOLEAN
    BY DEF TypeOK
  <2>6. QED
    BY <2>1, <2>2, <2>3, <2>4, <2>5 DEF TypeOK
<1>2. Threads'
  BY DEF TypeOK, Before, Threads, Opened
<1>3. Opened'
  <2>1. CASE InitLibrary \/ OpenFails
    BY <2>1 DEF TypeOK, Before, Threads, Opened
  <2>2. CASE \E n \in 1 .. MaxFiles : camera' = [camera EXCEPT !.opened = TRUE, !.files = n]
    <3>1. PICK n \in 1 .. MaxFiles : camera' = [camera EXCEPT !.opened = TRUE, !.files = n]
      BY <2>2
    <3>2. n > 0
      BY FileCount
    <3>3. camera'.files = n /\ camera'.opened
      BY <3>1 DEF TypeOK
    <3>4. caller' = "start"
      BY <3>1, <3>2 DEF TypeOK, Opened
    <3>5. camera'.streaming => camera'.opened
      BY <3>3
    <3>6. QED
      BY <3>2, <3>3, <3>4, <3>5 DEF Opened
  <2>3. QED
    BY <2>1, <2>2
<1>4. SDKFollows'
  BY DEF TypeOK, Before, Threads, Opened, SDKFollows
<1>5. Chosen' /\ UsedWhileOpen'
  BY DEF TypeOK, Before, Threads, Opened, SDKFollows, Chosen, UsedWhileOpen
<1>6. QED
  BY <1>1, <1>2, <1>3, <1>4, <1>5

LEMMA HalfOpenClosedInv ==
    ASSUME CameraInv, HalfOpenClosed, UNCHANGED callerOnly, UNCHANGED stopRequested,
           UNCHANGED processingFailed, caller \in Before
    PROVE  CameraInv'
<1> USE DEF CameraInv, HalfOpenClosed, CloseCamera, ClosedCamera, callerOnly
<1>1. TypeOK' /\ kind' \in {"galaxy", "replay"}
  BY DEF TypeOK, SDKFollows, CallerPC, CapturePC
<1>2. Threads'
  BY DEF TypeOK, Before, Threads, Opened
<1>3. Opened'
  BY DEF TypeOK, Before, Threads, Opened
<1>4. SDKFollows'
  BY DEF TypeOK, Before, Threads, Opened, SDKFollows
<1>5. Chosen' /\ UsedWhileOpen'
  BY DEF TypeOK, Before, Threads, Opened, SDKFollows, Chosen, UsedWhileOpen
<1>6. QED
  BY <1>1, <1>2, <1>3, <1>4, <1>5

LEMMA OpenDeviceInv == CameraInv /\ OpenDevice => CameraInv'
<1> SUFFICES ASSUME CameraInv, OpenDevice PROVE CameraInv'
  OBVIOUS
<1>1. CASE HalfOpenClosed
  BY <1>1, HalfOpenClosedInv DEF OpenDevice, Before
<1>2. CASE FindDevice /\ caller' = "settings"
  <2> USE <1>2 DEF CameraInv, OpenDevice, FindDevice, callerOnly
  <2>1. TypeOK' /\ kind' \in {"galaxy", "replay"}
    BY DEF TypeOK, CallerPC, CapturePC
  <2>2. Threads' /\ Opened'
    BY DEF TypeOK, Before, Threads, Opened, SDKFollows
  <2>3. SDKFollows'
    BY DEF TypeOK, Before, Threads, Opened, SDKFollows
  <2>4. Chosen' /\ UsedWhileOpen'
    BY DEF TypeOK, Before, Threads, Chosen, UsedWhileOpen
  <2>5. QED
    BY <2>1, <2>2, <2>3, <2>4
<1>3. QED
  BY <1>1, <1>2 DEF OpenDevice

LEMMA SetDeviceInv == CameraInv /\ SetDevice => CameraInv'
<1> SUFFICES ASSUME CameraInv, SetDevice PROVE CameraInv'
  OBVIOUS
<1>1. CASE HalfOpenClosed
  BY <1>1, HalfOpenClosedInv DEF SetDevice, Before
<1>2. CASE caller' = "start" /\ UNCHANGED <<camera, sdk>>
  BY <1>2 DEF SetDevice, callerOnly, CameraInv, TypeOK, Before, Threads, Opened,
    SDKFollows, Chosen, UsedWhileOpen, CallerPC, CapturePC
<1>3. QED
  BY <1>1, <1>2 DEF SetDevice

LEMMA StartInv == CameraInv /\ Start => CameraInv'
<1> SUFFICES ASSUME CameraInv, Start PROVE CameraInv'
  OBVIOUS
<1> USE DEF CameraInv, Start, StartWorks, callerOnly
<1>1. TypeOK' /\ kind' \in {"galaxy", "replay"}
  <2>1. camera' \in [opened : BOOLEAN, library : BOOLEAN, streaming : BOOLEAN,
                   files : Nat, nextFile : Nat]
    <3>1. CASE UNCHANGED camera
      BY <3>1 DEF TypeOK
    <3>2. CASE StartWorks
      <4>1. CASE kind = "replay"
        BY <3>2, <4>1 DEF TypeOK
      <4>2. CASE kind # "replay"
        BY <3>2, <4>2 DEF TypeOK
      <4>3. QED
        BY <4>1, <4>2
    <3>3. QED
      BY <3>1, <3>2
  <2>2. sdk' \in [library : BOOLEAN, device : BOOLEAN, acquiring : BOOLEAN, held : Nat]
    BY DEF TypeOK, SDKFollows
  <2>3. kind' \in Kinds /\ kind' \in {"galaxy", "replay"}
    BY DEF TypeOK
  <2>4. caller' \in CallerPC /\ capture' \in CapturePC
    BY DEF TypeOK, CallerPC, CapturePC
  <2>5. stopRequested' \in BOOLEAN /\ processingFailed' \in BOOLEAN /\ misused' \in BOOLEAN
    BY DEF TypeOK
  <2>6. QED
    BY <2>1, <2>2, <2>3, <2>4, <2>5 DEF TypeOK
<1>2. Threads'
  BY DEF TypeOK, Before, Threads, Opened
<1>3. Opened'
  BY DEF TypeOK, Before, Threads, Opened
<1>4. SDKFollows'
  BY DEF TypeOK, Before, Threads, Opened, SDKFollows
<1>5. Chosen' /\ UsedWhileOpen'
  BY DEF TypeOK, Before, Threads, Opened, SDKFollows, Chosen, UsedWhileOpen
<1>6. QED
  BY <1>1, <1>2, <1>3, <1>4, <1>5

LEMMA SpawnCaptureInv == CameraInv /\ SpawnCapture => CameraInv'
BY DEF SpawnCapture, CameraInv, TypeOK, Before, Threads, Opened, SDKFollows, Chosen,
  UsedWhileOpen, CallerPC, CapturePC

LEMMA SpawnProcessingInv == CameraInv /\ SpawnProcessing => CameraInv'
<1> SUFFICES ASSUME CameraInv, SpawnProcessing PROVE CameraInv'
  OBVIOUS
<1> USE DEF CameraInv, SpawnProcessing, callerOnly
<1>1. TypeOK' /\ kind' \in {"galaxy", "replay"}
  <2>1. camera' \in [opened : BOOLEAN, library : BOOLEAN, streaming : BOOLEAN,
                   files : Nat, nextFile : Nat]
    BY DEF TypeOK
  <2>2. sdk' \in [library : BOOLEAN, device : BOOLEAN, acquiring : BOOLEAN, held : Nat]
    BY DEF TypeOK, SDKFollows
  <2>3. kind' \in Kinds /\ kind' \in {"galaxy", "replay"}
    BY DEF TypeOK
  <2>4. caller' \in CallerPC /\ capture' \in CapturePC
    BY DEF TypeOK, CallerPC, CapturePC
  <2>5. stopRequested' \in BOOLEAN /\ processingFailed' \in BOOLEAN /\ misused' \in BOOLEAN
    BY DEF TypeOK
  <2>6. QED
    BY <2>1, <2>2, <2>3, <2>4, <2>5 DEF TypeOK
<1>2. Threads'
  BY DEF TypeOK, Before, Threads, Opened
<1>3. Opened'
  BY DEF TypeOK, Before, Threads, Opened
<1>4. SDKFollows'
  BY DEF TypeOK, Before, Threads, Opened, SDKFollows
<1>5. Chosen' /\ UsedWhileOpen'
  BY DEF TypeOK, Before, Threads, Opened, SDKFollows, Chosen, UsedWhileOpen
<1>6. QED
  BY <1>1, <1>2, <1>3, <1>4, <1>5

LEMMA UndoStopInv == CameraInv /\ UndoStop => CameraInv'
<1> SUFFICES ASSUME CameraInv, UndoStop PROVE CameraInv'
  OBVIOUS
<1> USE DEF CameraInv, UndoStop, StopWorks, StopFails, callerOnly
<1>1. TypeOK' /\ kind' \in {"galaxy", "replay"}
  <2>1. camera' \in [opened : BOOLEAN, library : BOOLEAN, streaming : BOOLEAN,
                   files : Nat, nextFile : Nat]
    BY DEF TypeOK
  <2>2. sdk' \in [library : BOOLEAN, device : BOOLEAN, acquiring : BOOLEAN, held : Nat]
    BY DEF TypeOK, SDKFollows
  <2>3. kind' \in Kinds /\ kind' \in {"galaxy", "replay"}
    BY DEF TypeOK
  <2>4. caller' \in CallerPC /\ capture' \in CapturePC
    BY DEF TypeOK, CallerPC, CapturePC
  <2>5. stopRequested' \in BOOLEAN /\ processingFailed' \in BOOLEAN /\ misused' \in BOOLEAN
    BY DEF TypeOK
  <2>6. QED
    BY <2>1, <2>2, <2>3, <2>4, <2>5 DEF TypeOK
<1>2. Threads'
  BY DEF TypeOK, Before, Threads, Opened
<1>3. Opened'
  BY DEF TypeOK, Before, Threads, Opened
<1>4. SDKFollows'
  BY DEF TypeOK, Before, Threads, Opened, SDKFollows
<1>5. Chosen' /\ UsedWhileOpen'
  BY DEF TypeOK, Before, Threads, Opened, SDKFollows, Chosen, UsedWhileOpen
<1>6. QED
  BY <1>1, <1>2, <1>3, <1>4, <1>5

LEMMA UndoCloseInv == CameraInv /\ UndoClose => CameraInv'
<1> SUFFICES ASSUME CameraInv, UndoClose PROVE CameraInv'
  OBVIOUS
<1> USE DEF CameraInv, UndoClose, CloseCamera, ClosedCamera, callerOnly
<1>1. TypeOK' /\ kind' \in {"galaxy", "replay"}
  <2>1. camera' \in [opened : BOOLEAN, library : BOOLEAN, streaming : BOOLEAN,
                   files : Nat, nextFile : Nat]
    BY DEF TypeOK
  <2>2. sdk' \in [library : BOOLEAN, device : BOOLEAN, acquiring : BOOLEAN, held : Nat]
    BY DEF TypeOK, SDKFollows
  <2>3. kind' \in Kinds /\ kind' \in {"galaxy", "replay"}
    BY DEF TypeOK
  <2>4. caller' \in CallerPC /\ capture' \in CapturePC
    BY DEF TypeOK, CallerPC, CapturePC
  <2>5. stopRequested' \in BOOLEAN /\ processingFailed' \in BOOLEAN /\ misused' \in BOOLEAN
    BY DEF TypeOK
  <2>6. QED
    BY <2>1, <2>2, <2>3, <2>4, <2>5 DEF TypeOK
<1>2. Threads'
  BY DEF TypeOK, Before, Threads, Opened
<1>3. Opened'
  BY DEF TypeOK, Before, Threads, Opened
<1>4. SDKFollows'
  BY DEF TypeOK, Before, Threads, Opened, SDKFollows
<1>5. Chosen' /\ UsedWhileOpen'
  BY DEF TypeOK, Before, Threads, Opened, SDKFollows, Chosen, UsedWhileOpen
<1>6. QED
  BY <1>1, <1>2, <1>3, <1>4, <1>5

LEMMA StopSignalInv == CameraInv /\ StopSignal => CameraInv'
BY DEF StopSignal, callerOnly, CameraInv, TypeOK, Before, Threads, Opened, SDKFollows, Chosen,
  UsedWhileOpen, CallerPC, CapturePC

LEMMA StopCameraInv == CameraInv /\ StopCamera => CameraInv'
<1> SUFFICES ASSUME CameraInv, StopCamera PROVE CameraInv'
  OBVIOUS
<1> USE DEF CameraInv, StopCamera, StopWorks, StopFails, callerOnly
<1>1. TypeOK' /\ kind' \in {"galaxy", "replay"}
  <2>1. camera' \in [opened : BOOLEAN, library : BOOLEAN, streaming : BOOLEAN,
                   files : Nat, nextFile : Nat]
    BY DEF TypeOK
  <2>2. sdk' \in [library : BOOLEAN, device : BOOLEAN, acquiring : BOOLEAN, held : Nat]
    BY DEF TypeOK, SDKFollows
  <2>3. kind' \in Kinds /\ kind' \in {"galaxy", "replay"}
    BY DEF TypeOK
  <2>4. caller' \in CallerPC /\ capture' \in CapturePC
    BY DEF TypeOK, CallerPC, CapturePC
  <2>5. stopRequested' \in BOOLEAN /\ processingFailed' \in BOOLEAN /\ misused' \in BOOLEAN
    BY DEF TypeOK
  <2>6. QED
    BY <2>1, <2>2, <2>3, <2>4, <2>5 DEF TypeOK
<1>2. Threads'
  BY DEF TypeOK, Before, Threads, Opened
<1>3. Opened'
  BY DEF TypeOK, Before, Threads, Opened
<1>4. SDKFollows'
  BY DEF TypeOK, Before, Threads, Opened, SDKFollows
<1>5. Chosen' /\ UsedWhileOpen'
  BY DEF TypeOK, Before, Threads, Opened, SDKFollows, Chosen, UsedWhileOpen
<1>6. QED
  BY <1>1, <1>2, <1>3, <1>4, <1>5

LEMMA JoinThreadsInv == CameraInv /\ JoinThreads => CameraInv'
BY DEF JoinThreads, CameraInv, TypeOK, Before, Threads, Opened, SDKFollows, Chosen,
  UsedWhileOpen, CallerPC, CapturePC

LEMMA CloseInv == CameraInv /\ Close => CameraInv'
<1> SUFFICES ASSUME CameraInv, Close PROVE CameraInv'
  OBVIOUS
<1> USE DEF CameraInv, Close, CloseCamera, ClosedCamera
<1>1. TypeOK' /\ kind' \in {"galaxy", "replay"}
  <2>1. camera' \in [opened : BOOLEAN, library : BOOLEAN, streaming : BOOLEAN,
                   files : Nat, nextFile : Nat]
    BY DEF TypeOK
  <2>2. sdk' \in [library : BOOLEAN, device : BOOLEAN, acquiring : BOOLEAN, held : Nat]
    BY DEF TypeOK, SDKFollows
  <2>3. kind' \in Kinds /\ kind' \in {"galaxy", "replay"}
    BY DEF TypeOK
  <2>4. caller' \in CallerPC /\ capture' \in CapturePC
    BY DEF TypeOK, CallerPC, CapturePC
  <2>5. stopRequested' \in BOOLEAN /\ processingFailed' \in BOOLEAN /\ misused' \in BOOLEAN
    BY DEF TypeOK
  <2>6. QED
    BY <2>1, <2>2, <2>3, <2>4, <2>5 DEF TypeOK
<1>2. Threads'
  BY DEF TypeOK, Before, Threads, Opened
<1>3. Opened'
  BY DEF TypeOK, Before, Threads, Opened
<1>4. SDKFollows'
  BY DEF TypeOK, Before, Threads, Opened, SDKFollows
<1>5. Chosen' /\ UsedWhileOpen'
  BY DEF TypeOK, Before, Threads, Opened, SDKFollows, Chosen, UsedWhileOpen
<1>6. QED
  BY <1>1, <1>2, <1>3, <1>4, <1>5

LEMMA AcquireInv == CameraInv /\ Acquire => CameraInv'
BY DEF Acquire, captureOnly, CameraInv, TypeOK, Before, Threads, Opened, SDKFollows, Chosen,
  UsedWhileOpen, CallerPC, CapturePC

LEMMA BeginGrabInv == CameraInv /\ BeginGrab => CameraInv'
<1> SUFFICES ASSUME CameraInv, BeginGrab PROVE CameraInv'
  OBVIOUS
<1> USE DEF CameraInv, BeginGrab, Throws, captureOnly
<1>1. TypeOK' /\ kind' \in {"galaxy", "replay"}
  <2>1. camera' \in [opened : BOOLEAN, library : BOOLEAN, streaming : BOOLEAN,
                   files : Nat, nextFile : Nat]
    BY DEF TypeOK
  <2>2. sdk' \in [library : BOOLEAN, device : BOOLEAN, acquiring : BOOLEAN, held : Nat]
    BY DEF TypeOK, SDKFollows
  <2>3. kind' \in Kinds /\ kind' \in {"galaxy", "replay"}
    BY DEF TypeOK
  <2>4. caller' \in CallerPC /\ capture' \in CapturePC
    BY DEF TypeOK, CallerPC, CapturePC
  <2>5. stopRequested' \in BOOLEAN /\ processingFailed' \in BOOLEAN /\ misused' \in BOOLEAN
    BY DEF TypeOK
  <2>6. QED
    BY <2>1, <2>2, <2>3, <2>4, <2>5 DEF TypeOK
<1>2. Threads'
  BY DEF TypeOK, Before, Threads, Opened
<1>3. Opened'
  BY DEF TypeOK, Before, Threads, Opened
<1>4. SDKFollows'
  BY DEF TypeOK, Before, Threads, Opened, SDKFollows
<1>5. Chosen' /\ UsedWhileOpen'
  BY DEF TypeOK, Before, Threads, Opened, SDKFollows, Chosen, UsedWhileOpen
<1>6. QED
  BY <1>1, <1>2, <1>3, <1>4, <1>5

LEMMA DequeueInv == CameraInv /\ Dequeue => CameraInv'
<1> SUFFICES ASSUME CameraInv, Dequeue PROVE CameraInv'
  OBVIOUS
<1> USE DEF CameraInv, Dequeue, Throws, captureOnly
<1>1. TypeOK' /\ kind' \in {"galaxy", "replay"}
  <2>1. camera' \in [opened : BOOLEAN, library : BOOLEAN, streaming : BOOLEAN,
                   files : Nat, nextFile : Nat]
    BY DEF TypeOK
  <2>2. sdk' \in [library : BOOLEAN, device : BOOLEAN, acquiring : BOOLEAN, held : Nat]
    BY DEF TypeOK, SDKFollows
  <2>3. kind' \in Kinds /\ kind' \in {"galaxy", "replay"}
    BY DEF TypeOK
  <2>4. caller' \in CallerPC /\ capture' \in CapturePC
    BY DEF TypeOK, CallerPC, CapturePC
  <2>5. stopRequested' \in BOOLEAN /\ processingFailed' \in BOOLEAN /\ misused' \in BOOLEAN
    BY DEF TypeOK
  <2>6. QED
    BY <2>1, <2>2, <2>3, <2>4, <2>5 DEF TypeOK
<1>2. Threads'
  BY DEF TypeOK, Before, Threads, Opened
<1>3. Opened'
  BY DEF TypeOK, Before, Threads, Opened
<1>4. SDKFollows'
  BY DEF TypeOK, Before, Threads, Opened, SDKFollows
<1>5. Chosen' /\ UsedWhileOpen'
  BY DEF TypeOK, Before, Threads, Opened, SDKFollows, Chosen, UsedWhileOpen
<1>6. QED
  BY <1>1, <1>2, <1>3, <1>4, <1>5

LEMMA UseBufferInv == CameraInv /\ UseBuffer => CameraInv'
<1> SUFFICES ASSUME CameraInv, UseBuffer PROVE CameraInv'
  OBVIOUS
<1> USE DEF CameraInv, UseBuffer, Throws, captureOnly
<1>1. TypeOK' /\ kind' \in {"galaxy", "replay"}
  <2>1. camera' \in [opened : BOOLEAN, library : BOOLEAN, streaming : BOOLEAN,
                   files : Nat, nextFile : Nat]
    BY DEF TypeOK
  <2>2. sdk' \in [library : BOOLEAN, device : BOOLEAN, acquiring : BOOLEAN, held : Nat]
    BY DEF TypeOK, SDKFollows
  <2>3. kind' \in Kinds /\ kind' \in {"galaxy", "replay"}
    BY DEF TypeOK
  <2>4. caller' \in CallerPC /\ capture' \in CapturePC
    BY DEF TypeOK, CallerPC, CapturePC
  <2>5. stopRequested' \in BOOLEAN /\ processingFailed' \in BOOLEAN /\ misused' \in BOOLEAN
    BY DEF TypeOK
  <2>6. QED
    BY <2>1, <2>2, <2>3, <2>4, <2>5 DEF TypeOK
<1>2. Threads'
  BY DEF TypeOK, Before, Threads, Opened
<1>3. Opened'
  BY DEF TypeOK, Before, Threads, Opened
<1>4. SDKFollows'
  BY DEF TypeOK, Before, Threads, Opened, SDKFollows
<1>5. Chosen' /\ UsedWhileOpen'
  BY DEF TypeOK, Before, Threads, Opened, SDKFollows, Chosen, UsedWhileOpen
<1>6. QED
  BY <1>1, <1>2, <1>3, <1>4, <1>5

LEMMA ChooseFileInv == CameraInv /\ ChooseFile => CameraInv'
BY DEF ChooseFile, captureOnly, CameraInv, TypeOK, Before, Threads, Opened, SDKFollows, Chosen,
  UsedWhileOpen, CallerPC, CapturePC

LEMMA LoadFileInv == CameraInv /\ LoadFile => CameraInv'
<1> SUFFICES ASSUME CameraInv, LoadFile PROVE CameraInv'
  OBVIOUS
<1> USE DEF CameraInv, LoadFile, Throws, captureOnly
<1>1. TypeOK' /\ kind' \in {"galaxy", "replay"}
  <2>1. camera' \in [opened : BOOLEAN, library : BOOLEAN, streaming : BOOLEAN,
                   files : Nat, nextFile : Nat]
    BY DEF TypeOK
  <2>2. sdk' \in [library : BOOLEAN, device : BOOLEAN, acquiring : BOOLEAN, held : Nat]
    BY DEF TypeOK, SDKFollows
  <2>3. kind' \in Kinds /\ kind' \in {"galaxy", "replay"}
    BY DEF TypeOK
  <2>4. caller' \in CallerPC /\ capture' \in CapturePC
    BY DEF TypeOK, CallerPC, CapturePC
  <2>5. stopRequested' \in BOOLEAN /\ processingFailed' \in BOOLEAN /\ misused' \in BOOLEAN
    BY DEF TypeOK
  <2>6. QED
    BY <2>1, <2>2, <2>3, <2>4, <2>5 DEF TypeOK
<1>2. Threads'
  BY DEF TypeOK, Before, Threads, Opened
<1>3. Opened'
  BY DEF TypeOK, Before, Threads, Opened
<1>4. SDKFollows'
  BY DEF TypeOK, Before, Threads, Opened, SDKFollows
<1>5. Chosen' /\ UsedWhileOpen'
  BY DEF TypeOK, Before, Threads, Opened, SDKFollows, Chosen, UsedWhileOpen
<1>6. QED
  BY <1>1, <1>2, <1>3, <1>4, <1>5

LEMMA StepInv == CameraInv /\ [CameraNext]_cameraVars => CameraInv'
<1>1. SUFFICES ASSUME CameraInv, [CameraNext]_cameraVars PROVE CameraInv'
  OBVIOUS
<1>2. CASE CameraNext
  BY <1>1, <1>2, OpenInv, OpenDeviceInv, SetDeviceInv, StartInv, SpawnCaptureInv,
    SpawnProcessingInv, UndoStopInv, UndoCloseInv, StopSignalInv, StopCameraInv, JoinThreadsInv, CloseInv, AcquireInv,
    BeginGrabInv, DequeueInv, UseBufferInv, ChooseFileInv, LoadFileInv DEF CameraNext
<1>3. CASE UNCHANGED cameraVars
  BY <1>1, <1>3 DEF cameraVars, CameraInv, TypeOK, Before, Threads, Opened, SDKFollows, Chosen, UsedWhileOpen
<1>4. QED
  BY <1>1, <1>2, <1>3

(* The invariant holds in every reachable state.                           *)
THEOREM CameraInvariant == CameraSpec => []CameraInv
<1>1. CameraInit => CameraInv
  BY InitInv
<1>2. CameraInv /\ [CameraNext]_cameraVars => CameraInv'
  BY StepInv
<1>3. QED
  BY <1>1, <1>2, PTL DEF CameraSpec

(* Every member of the camera and the SDK keeps its type.                  *)
THEOREM TypeSafety == CameraSpec => []TypeOK
<1>1. CameraInv => TypeOK
  BY DEF CameraInv
<1>2. QED
  BY <1>1, CameraInvariant, PTL

(* No grab uses a device or a list that was closed under it, but for the      *)
(* thread that start could not make.                                       *)
THEOREM GrabFindsCameraOpen == CameraSpec => []UsedWhileOpen
<1>1. CameraInv => UsedWhileOpen
  BY DEF CameraInv
<1>2. QED
  BY <1>1, CameraInvariant, PTL

(* Every buffer is given back, and an open that threw half-way, a start that  *)
(* failed and a stop leave nothing open but a camera that refused to stop.  *)
THEOREM CameraLeaksNothing == CameraSpec => []NothingLeaks
<1>1. CameraInv => NothingLeaks
  BY DEF CameraInv, TypeOK, Before, Threads, Opened, SDKFollows, NothingLeaks
<1>2. QED
  BY <1>1, CameraInvariant, PTL
=============================================================================
