----------------------------- MODULE CudaEngine -----------------------------
(***************************************************************************)
(* CudaGridEngine: the host's side of process, which keeps the reference   *)
(* on the device from frame to frame, and the CUDA stream, which executes  *)
(* what the host enqueues later, in order, with GaussNewton as the kernel. *)
(* The caller is the processing thread of the pipeline, of which one       *)
(* engine sees session after session; a call that throws ends a session.   *)
(*                                                                         *)
(* A frame is its number, which stands for its pixels and its timestamp.   *)
(* A buffer is an address: buffers are used again, for other frames.  One  *)
(* grid point is followed; how many of the others are valid is arbitrary.  *)
(* Any CUDA call may fail, and what was enqueued before may then still be  *)
(* under way when the next session begins.                                 *)
(***************************************************************************)
EXTENDS GaussNewton, Sequences

CONSTANTS
    Buffers,            \* addresses of frame buffers, on the host
    Pinned,             \* those that are page-locked
    MaxFrames,          \* frames (bound)
    MaxRecoveryPasses,  \* max_recovery_passes
    MayFail             \* may CUDA calls fail?

ASSUME EngineAssumption ==
    /\ Pinned \subseteq Buffers
    /\ Buffers \cap {"none", "reference_staging", "deformed_staging"} = {}
    /\ MaxFrames \in Nat /\ MaxRecoveryPasses \in Nat
    /\ MayFail \in BOOLEAN

VARIABLES
    step,       \* where process is
    memory,     \* the frame in each buffer, and in the two staging images
    frames,     \* frames so far
    session,    \* the reference of the session: its buffer and frame
    input,      \* the deformed frame of the call: its buffer and frame
    allocated,  \* have buffers been allocated for this layout?
    cached,     \* reference_pixels and reference_timestamp
    stream,     \* what the device has not executed
    launched,   \* is the kernel running?
    fallback,   \* fallback_u and _v: the reference they are measured from
    passes,     \* recovery passes of this call so far
    download,   \* host_results: what was downloaded for the point
    output      \* the point as the last call returned it

callerVars == <<memory, frames, session, input>>
host == <<step, allocated, cached, fallback, passes, output>>
device == <<stream, launched, download>>
engineVars == <<kernelVars, callerVars, host, device>>

None == [buffer |-> "none", frame |-> 0]
Staging == {"reference_staging", "deformed_staging"}

EngineInit ==
    /\ KernelInit
    /\ step = "idle"
    /\ memory = [b \in Buffers \cup Staging |-> 0] /\ frames = 0
    /\ session = None /\ input = None
    /\ allocated = FALSE /\ cached = None
    /\ stream = <<>> /\ launched = FALSE
    /\ fallback = 0 /\ passes = 0
    /\ download = NoResult /\ output = NoResult

-----------------------------------------------------------------------------
(* The pipeline.  A session's first frame is its reference, in a buffer    *)
(* where an earlier session's may have been.                               *)
NewFrame(b) ==
    /\ frames < MaxFrames
    /\ frames' = frames + 1
    /\ memory' = [memory EXCEPT ![b] = frames + 1]

BeginSession ==
    /\ step = "idle"
    /\ \E b \in Buffers :
        /\ NewFrame(b)
        /\ session' = [buffer |-> b, frame |-> frames + 1]
    /\ UNCHANGED <<kernelVars, input, host, device>>

(* process: the first call, and only that as the layout stays the same,    *)
(* allocates; when that fails the next call tries again.                   *)
Process ==
    /\ step = "idle" /\ session # None
    /\ \E b \in Buffers \ {session.buffer} :
        /\ NewFrame(b)
        /\ input' = [buffer |-> b, frame |-> frames + 1]
    /\ IF allocated
       THEN UNCHANGED <<allocated, cached, fallback, result>>
       ELSE /\ allocated' = TRUE /\ cached' = None /\ fallback' = 0
            /\ result' = NoResult
    /\ step' = "stage"
    /\ UNCHANGED <<control, partial, shared, images, session, passes, output,
                   device>>

(* An exception leaves process: the pipeline reports a fault, and what     *)
(* follows is another session.                                             *)
Throw ==
    /\ MayFail
    /\ step' = "idle"
    /\ session' = None
    /\ passes' = 0

AllocateFails ==
    /\ step = "idle" /\ session # None /\ ~allocated
    /\ Throw
    /\ UNCHANGED <<kernelVars, memory, frames, input, allocated, cached,
                   fallback, output, device>>

(* Bug for a mutant: the cached reference is recognised by its address.    *)
UploadByAddress == cached.buffer # session.buffer

UploadReference ==
    cached.buffer # session.buffer \/ cached.frame # session.frame

(* Frames that are not in page-locked memory are copied to staging images. *)
Source(frame, staging) == IF frame.buffer \in Pinned THEN frame.buffer ELSE staging

Stage ==
    /\ step = "stage"
    /\ memory' = [memory EXCEPT
           !["reference_staging"] =
               IF UploadReference /\ session.buffer \notin Pinned
               THEN memory[session.buffer] ELSE @,
           !["deformed_staging"] =
               IF input.buffer \notin Pinned THEN memory[input.buffer] ELSE @]
    /\ step' = IF UploadReference THEN "reference" ELSE "deformed"
    /\ UNCHANGED <<kernelVars, frames, session, input, allocated, cached,
                   fallback, passes, output, device>>

(* Operations are enqueued one by one; the next one may fail.              *)
Enqueue(n, operations, next) ==
    /\ stream' = stream \o SubSeq(operations, 1, n)
    /\ \/ Throw
       \/ /\ n = Len(operations) /\ step' = next
          /\ UNCHANGED <<session, passes>>
    /\ UNCHANGED <<kernelVars, memory, frames, input, allocated, fallback,
                   output, launched, download>>

Copy(image, from) == [op |-> image, from |-> from]
Operation(op) == [op |-> op]

(* Bug for a mutant: the displacements of the last session are kept.       *)
ReferenceWithoutReset ==
    <<Copy("reference", Source(session, "reference_staging"))>>
        \o IF InverseCompositional THEN <<Operation("statistics")>> ELSE <<>>

(* A new reference invalidates the displacements, and the gradients        *)
(* summed over it; the fallback stays what it was.                         *)
ReferenceOperations ==
    <<Copy("reference", Source(session, "reference_staging")), Operation("reset")>>
        \o IF InverseCompositional THEN <<Operation("statistics")>> ELSE <<>>

EnqueueReference ==
    /\ step = "reference"
    /\ \E n \in 0 .. Len(ReferenceOperations) :
        /\ Enqueue(n, ReferenceOperations, "deformed")
        /\ cached' = IF n >= 2 THEN session ELSE cached

EnqueueDeformed ==
    /\ step = "deformed"
    /\ \E n \in 0 .. 1 :
        Enqueue(n, <<Copy("deformed", Source(input, "deformed_staging"))>>, "launch")
    /\ UNCHANGED cached

(* launch_and_download: the kernel gets the fallback of now.               *)
Launch ==
    /\ step = "launch"
    /\ \E n \in 0 .. 2 :
        Enqueue(n, <<[op |-> "kernel", fallback |-> fallback],
                     Operation("download")>>, "await")
    /\ UNCHANGED cached

(* Bug for a mutant: the points are run again before the median is taken.  *)
AwaitBeforeMedian ==
    /\ step = "await" /\ stream = <<>>
    /\ \E enough \in BOOLEAN :
        \/ /\ enough /\ passes < MaxRecoveryPasses
           /\ passes' = passes + 1 /\ step' = "launch"
           /\ UNCHANGED fallback
        \/ /\ passes' = 0 /\ step' = "return"
           /\ fallback' = IF enough THEN download.reference ELSE fallback
    /\ UNCHANGED <<kernelVars, callerVars, allocated, cached, output, device>>

(* With enough valid points their median is the new fallback, and with too *)
(* few for the trigger the kernel runs again, a few times.                 *)
Await ==
    /\ step = "await" /\ stream = <<>>
    /\ \E enough \in BOOLEAN :
        /\ fallback' = IF enough THEN download.reference ELSE fallback
        /\ \/ /\ enough /\ passes < MaxRecoveryPasses
              /\ passes' = passes + 1 /\ step' = "launch"
           \/ passes' = 0 /\ step' = "return"
    /\ UNCHANGED <<kernelVars, callerVars, allocated, cached, output, device>>

AwaitFails ==
    /\ step = "await"
    /\ Throw
    /\ UNCHANGED <<kernelVars, memory, frames, input, allocated, cached,
                   fallback, output, device>>

Return ==
    /\ step = "return"
    /\ output' = download
    /\ step' = "idle"
    /\ UNCHANGED <<kernelVars, callerVars, allocated, cached, fallback, passes, device>>

-----------------------------------------------------------------------------
(* The device executes the stream in order.                                *)
Pending(op) == stream # <<>> /\ Head(stream).op = op
Pop == stream' = Tail(stream)

CopyReference ==
    /\ Pending("reference") /\ Pop
    /\ reference' = memory[Head(stream).from]
    /\ UNCHANGED <<control, partial, shared, deformed, statistics, result,
                   callerVars, host, launched, download>>

CopyDeformed ==
    /\ Pending("deformed") /\ Pop
    /\ deformed' = memory[Head(stream).from]
    /\ UNCHANGED <<control, partial, shared, reference, statistics, result,
                   callerVars, host, launched, download>>

Reset ==
    /\ Pending("reset") /\ Pop
    /\ result' = NoResult
    /\ UNCHANGED <<control, partial, shared, images, callerVars, host, launched,
                   download>>

(* precompute_reference_kernel. *)
Precompute ==
    /\ Pending("statistics") /\ Pop
    /\ statistics' = reference
    /\ UNCHANGED <<control, partial, shared, reference, deformed, result,
                   callerVars, host, launched, download>>

KernelBegins ==
    /\ Pending("kernel") /\ ~launched
    /\ launched' = TRUE
    /\ BeginBlock
    /\ UNCHANGED <<callerVars, host, stream, download>>

KernelRuns ==
    /\ launched
    /\ KernelStep(Head(stream).fallback)
    /\ UNCHANGED <<callerVars, host, device>>

KernelEnds ==
    /\ launched /\ Finished
    /\ launched' = FALSE
    /\ Pop
    /\ UNCHANGED <<kernelVars, callerVars, host, download>>

Download ==
    /\ Pending("download") /\ Pop
    /\ download' = result
    /\ UNCHANGED <<kernelVars, callerVars, host, launched>>

-----------------------------------------------------------------------------
HostStep ==
    \/ Stage \/ EnqueueReference \/ EnqueueDeformed \/ Launch
    \/ Await \/ AwaitFails \/ Return

DeviceStep ==
    \/ CopyReference \/ CopyDeformed \/ Reset \/ Precompute
    \/ KernelBegins \/ KernelRuns \/ KernelEnds \/ Download

EngineNext == BeginSession \/ Process \/ AllocateFails \/ HostStep \/ DeviceStep

EngineSpec == EngineInit /\ [][EngineNext]_engineVars

(* A thread inside process runs on, and so does the device; nothing has to *)
(* fail.                                                                   *)
FairEngineSpec ==
    /\ EngineSpec
    /\ WF_engineVars(HostStep /\ UNCHANGED session) /\ WF_engineVars(DeviceStep)

-----------------------------------------------------------------------------
(* Properties, with RaceFree and SumsAreCurrent of GaussNewton.            *)

(* What process returns was computed from the session's reference and the  *)
(* call's frame, and solved with the matrix of that reference, though the  *)
(* reference stays on the device from call to call, buffers are used again *)
(* at the same address, and calls that threw left operations in the stream *)
(* or a reference half prepared.                                           *)
ResultOfThisPair ==
    step = "return" =>
        /\ download.reference = session.frame
        /\ download.deformed = input.frame
        /\ download.matrix = session.frame

(* The reference from which the displacement is measured that the kernel   *)
(* is about to start with: the point's own, or the fallback it was given.  *)
StartOfPoint == IF result.valid THEN result.reference ELSE Head(stream).fallback

(* A point starts from its last accepted displacement only when that was   *)
(* measured from the reference on the device, as a change of reference     *)
(* resets the results before any kernel sees the new image; and the        *)
(* rejected points of a recovery pass start from the median of points of   *)
(* this reference.  What a rejected point starts from in the first pass is *)
(* another question: StartsOfThisReference.                                *)
TrackIsOfThisReference ==
    launched /\ at[0] = "seed" =>
        /\ result.valid => result.reference = reference
        /\ passes > 0 => StartOfPoint = reference

(* The header's comment on the class: the first frame starts at zero       *)
(* displacement, the following ones from the solution before.  With a      *)
(* second reference, in the next session, this fails: the results are      *)
(* reset and the fallback is not, and the first frame starts with the      *)
(* median motion of the session before.                                    *)
StartsOfThisReference ==
    launched /\ at[0] = "seed" => StartOfPoint \in {0, reference}

(* process returns, or throws: no warp waits at a barrier others left, and *)
(* the recovery passes come to an end.                                     *)
ProcessReturns == (step # "idle") ~> (step = "idle")

=============================================================================
