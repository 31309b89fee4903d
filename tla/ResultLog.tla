----------------------------- MODULE ResultLog -----------------------------
(***************************************************************************)
(* What the storage of results promises to whoever reads the directory of  *)
(* a session: a log that is extended at its end only, of which a prefix    *)
(* that never shrinks is on disk, and a status.  A session marked complete *)
(* has all its results on disk, and one that has its final status does not *)
(* change any more.                                                        *)
(***************************************************************************)
EXTENDS Naturals

VARIABLES
    accepted,   \* number of results accepted in this session
    durable,    \* number of complete records on disk
    status      \* what the manifest says

logVars == <<accepted, durable, status>>

Final == {"complete", "interrupted", "faulted"}

LogInit == accepted = 0 /\ durable = 0 /\ status = "recording"

(* A new session; one that cannot be recorded is marked faulted at once.   *)
Begin ==
    /\ accepted' = 0 /\ durable' = 0
    /\ status' \in {"recording", "faulted"}

Accept ==
    /\ status = "recording"
    /\ accepted' = accepted + 1
    /\ UNCHANGED <<durable, status>>

(* Records reach the disk in order, any number at a time.                  *)
Persist ==
    /\ status = "recording"
    /\ durable' \in durable .. accepted
    /\ UNCHANGED <<accepted, status>>

Finish ==
    /\ status = "recording"
    /\ status' \in Final
    /\ status' = "complete" => durable = accepted
    /\ UNCHANGED <<accepted, durable>>

LogNext == Begin \/ Accept \/ Persist \/ Finish

LogSpec == LogInit /\ [][LogNext]_logVars
=============================================================================
