------------------------------ MODULE Results -------------------------------
(***************************************************************************)
(* The two places the Edge's callback takes a result to, side by side: the *)
(* files of the session, with their reader, and the stream to Studio.  The *)
(* callback gives the result to one after the other and neither knows of   *)
(* the other, so that a behaviour here is one of either.                   *)
(***************************************************************************)
EXTENDS SessionRecovery, ResultStream

VARIABLE receiver   \* the one that is looked at

resultsVars == <<receiver, vars, streamVars>>

ResultsInit == receiver \in {"files", "stream"} /\ Init /\ StreamInit

ResultsNext ==
    \/ receiver = "files" /\ Next /\ UNCHANGED <<receiver, streamVars>>
    \/ receiver = "stream" /\ StreamNext /\ UNCHANGED <<receiver, vars>>

(* The fairness of both.  In their initial states nothing is under it, so  *)
(* that the one that is not looked at may rest.                            *)
ResultsSpec ==
    /\ ResultsInit /\ [][ResultsNext]_resultsVars
    /\ WF_vars(WorkerStep) /\ WF_vars(CloseStep)
    /\ WF_streamVars(ThreadStep) /\ WF_streamVars(OwnerContinues)
=============================================================================
