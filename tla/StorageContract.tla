-------------------------- MODULE StorageContract --------------------------
(***************************************************************************)
(* What class AsyncResultWriter promises to the Edge that owns it, with    *)
(* the queue, the files and their contents hidden: when results are        *)
(* accepted, when its thread may fail, how close ends, and what the        *)
(* manifest of the session opened last says afterwards.                    *)
(***************************************************************************)
CONSTANTS
    DiskMayFail,    \* may writing a file fail?
    MayCrash        \* may the process be killed?

VARIABLES
    open,           \* open_
    accepting,      \* accepting_
    faulted,        \* faulted_
    used,           \* has a result been accepted in this session?
    worker,         \* the worker: absent, running, or ready to be joined
    session,        \* has the session no final status yet?
    manifest,       \* status in manifest.json, or "none" without the file
    call,           \* how far close has come
    status,         \* the status close was called with
    error           \* will close throw the error of the worker or a flush?

storageVars == <<open, accepting, faulted, used, worker, session, manifest,
                 call, status, error>>

FinalStatus == {"complete", "interrupted", "faulted"}
Call == {"idle", "join", "finish", "end"}

Init ==
    /\ open = FALSE /\ accepting = FALSE /\ faulted = FALSE /\ used = FALSE
    /\ worker = "none" /\ session = FALSE /\ manifest = "none"
    /\ call = "idle" /\ status = "none" /\ error = FALSE

-----------------------------------------------------------------------------
(* open, enqueue and the worker.                                           *)

Open ==
    /\ call = "idle" /\ ~open
    /\ open' = TRUE /\ accepting' = TRUE /\ faulted' = FALSE /\ used' = FALSE
    /\ worker' = "run" /\ session' = TRUE /\ manifest' = "recording"
    /\ status' = "none"
    /\ UNCHANGED <<call, error>>

OpenFails ==
    /\ call = "idle" /\ ~open
    /\ accepting' = FALSE /\ faulted' = FALSE /\ used' = FALSE
    /\ worker' = "none" /\ session' = FALSE /\ manifest' = "faulted"
    /\ status' = "none"
    /\ UNCHANGED <<open, call, error>>

(* enqueue does not throw; a full queue makes it return false and change   *)
(* nothing that the Edge can tell.                                         *)
Accepts == open /\ accepting /\ ~faulted

Accept ==
    /\ Accepts
    /\ used' = TRUE
    /\ UNCHANGED <<open, accepting, faulted, worker, session, manifest, call,
                   status, error>>

WorkerFault ==
    /\ worker = "run" /\ used /\ DiskMayFail
    /\ faulted' = TRUE /\ accepting' = FALSE
    /\ worker' = "done"
    /\ UNCHANGED <<open, used, session, manifest, call, status, error>>

-----------------------------------------------------------------------------
(* close.                                                                  *)

CloseBegins(final) ==
    /\ call = "idle" /\ open
    /\ status' = final
    /\ accepting' = FALSE
    /\ call' = "join"
    /\ UNCHANGED <<open, faulted, used, worker, session, manifest, error>>

WorkerEnds ==
    /\ worker = "run" /\ call = "join"
    /\ worker' = "done"
    /\ UNCHANGED <<open, accepting, faulted, used, session, manifest, call,
                   status, error>>

Join ==
    /\ call = "join" /\ worker # "run"
    /\ worker' = "none"
    /\ error' = faulted
    /\ call' = "finish"
    /\ UNCHANGED <<open, accepting, faulted, used, session, manifest, status>>

FlushFails ==
    /\ call = "finish" /\ DiskMayFail
    /\ error' = TRUE
    /\ UNCHANGED <<open, accepting, faulted, used, worker, session, manifest,
                   call, status>>

RemoveManifest ==
    /\ call = "finish" /\ session
    /\ manifest' = "none"
    /\ UNCHANGED <<open, accepting, faulted, used, worker, session, call,
                   status, error>>

WriteStatus ==
    /\ call = "finish" /\ session
    /\ manifest' = IF error THEN "faulted" ELSE status
    /\ session' = FALSE
    /\ call' = "end"
    /\ UNCHANGED <<open, accepting, faulted, used, worker, status, error>>

(* An earlier close had no success in it.                                  *)
SkipStatus ==
    /\ call = "finish" /\ ~session
    /\ call' = "end"
    /\ UNCHANGED <<open, accepting, faulted, used, worker, session, manifest,
                   status, error>>

(* close returns, or throws the error of the worker or the last flush.     *)
CloseEnds ==
    /\ call = "end"
    /\ open' = FALSE
    /\ call' = "idle"
    /\ UNCHANGED <<accepting, faulted, used, worker, session, manifest, status,
                   error>>

(* The CSV or the manifest fails: close throws and the writer stays open,  *)
(* for the next close to write the status, or to give it up.               *)
CloseThrows ==
    /\ call = "finish" /\ session /\ DiskMayFail
    /\ session' \in BOOLEAN
    /\ call' = "idle"
    /\ UNCHANGED <<open, accepting, faulted, used, worker, manifest, status,
                   error>>

Crash ==
    /\ MayCrash /\ open
    /\ open' = FALSE /\ accepting' = FALSE /\ faulted' = FALSE
    /\ worker' = "none" /\ session' = FALSE
    /\ call' = "idle" /\ status' = "none" /\ error' = FALSE
    /\ UNCHANGED <<used, manifest>>

-----------------------------------------------------------------------------
Next ==
    \/ Open \/ OpenFails \/ Accept \/ WorkerFault
    \/ \E final \in FinalStatus : CloseBegins(final)
    \/ WorkerEnds \/ Join \/ FlushFails \/ RemoveManifest
    \/ WriteStatus \/ SkipStatus \/ CloseEnds \/ CloseThrows
    \/ Crash

Contract == Init /\ [][Next]_storageVars
=============================================================================
