---------------------------- MODULE AsyncWriter ----------------------------
(***************************************************************************)
(* Storage of results: class AsyncResultWriter with the files it writes,   *)
(* results.p2dic (SessionBinaryWriter), results.csv and manifest.json      *)
(* (ResultWriter).  Three threads meet here:                               *)
(*                                                                         *)
(*   - the producer, the processing thread of the pipeline, in enqueue,    *)
(*   - the worker, worker_loop, which writes what was queued,              *)
(*   - the caller of open and close, one call at a time (the Edge holds    *)
(*     command_mutex).                                                     *)
(*                                                                         *)
(* The worker's condition is changed only under mutex_, so its wait is the *)
(* guard of a step; close is split wherever it touches a file, because a   *)
(* step may fail and the process may be killed between any two.            *)
(*                                                                         *)
(* A result is its number in the session, counted from 1 by enqueue.  The  *)
(* file variables describe the directory of the session opened last: an    *)
(* open that throws before the worker starts leaves a directory without    *)
(* results and changes nothing else.  What a killed process handed to the  *)
(* operating system is on disk; power failures are not modelled.           *)
(***************************************************************************)
EXTENDS Integers, Sequences

CONSTANTS
    QueueCapacity,  \* storage_queue_capacity
    FlushEvery,     \* storage_flush_every_frames
    CsvEnabled,     \* storage_csv_enabled
    MaxResults,     \* results offered in a session (bound)
    DiskMayFail,    \* may writing a file fail?
    MayCrash        \* may the process be killed?

ASSUME ConfigAssumption ==
    /\ QueueCapacity \in Nat \ {0} /\ FlushEvery \in Nat \ {0}
    /\ MaxResults \in Nat
    /\ CsvEnabled \in BOOLEAN
    /\ DiskMayFail \in BOOLEAN /\ MayCrash \in BOOLEAN

VARIABLES
    open,           \* open_
    accepting,      \* accepting_
    stopRequested,  \* stop_requested_
    faulted,        \* faulted_, and whether fault_message_ is set
    queue,          \* queue_
    enqueued,       \* enqueued_
    overruns,       \* overruns_
    written,        \* written_
    worker,         \* program counter of the worker
    result,         \* the result the worker took, or 0
    sinceFlush,     \* since_flush, and frames_since_flush_ of the CSV
    records,        \* records written to the stream of results.p2dic
    durable,        \* how many of them are on disk completely
    torn,           \* does part of a record follow them on disk?
    badStream,      \* has the stream failed?
    streamOpen,     \* stream_.is_open()
    rows,           \* results written to the stream of results.csv
    badCsv,         \* has that stream failed?
    csvOpen,        \* ResultWriter's session_open_
    manifest,       \* status in manifest.json, or "none" without the file
    caller,         \* program counter of close
    status,         \* the status close was called with, or "none"
    closeError      \* is worker_error of close set?

control == <<open, accepting, stopRequested, faulted>>
counters == <<enqueued, overruns, written>>
binary == <<records, durable, torn, badStream, streamOpen>>
csv == <<rows, badCsv, csvOpen>>
close == <<caller, status, closeError>>
vars == <<control, queue, counters, worker, result, sinceFlush, binary, csv,
          manifest, close>>

FinalStatus == {"complete", "interrupted", "faulted"}
WorkerPC == {"none", "wait", "append", "csv", "flush", "count", "fault", "done"}
CallerPC == {"idle", "join", "flush", "csv", "manifest", "rename", "finish"}

Init ==
    /\ open = FALSE /\ accepting = FALSE /\ stopRequested = FALSE
    /\ faulted = FALSE
    /\ queue = <<>> /\ enqueued = 0 /\ overruns = 0 /\ written = 0
    /\ worker = "none" /\ result = 0 /\ sinceFlush = 0
    /\ records = <<>> /\ durable = 0 /\ torn = FALSE
    /\ badStream = FALSE /\ streamOpen = FALSE
    /\ rows = 0 /\ badCsv = FALSE /\ csvOpen = FALSE
    /\ manifest = "none"
    /\ caller = "idle" /\ status = "none" /\ closeError = FALSE

-----------------------------------------------------------------------------
(* open and enqueue.                                                       *)

(* The part of open after the files were created.                          *)
NewSession ==
    /\ caller = "idle" /\ ~open
    /\ queue' = <<>> /\ stopRequested' = FALSE /\ faulted' = FALSE
    /\ enqueued' = 0 /\ overruns' = 0 /\ written' = 0
    /\ result' = 0 /\ sinceFlush' = 0
    /\ records' = <<>> /\ durable' = 0 /\ torn' = FALSE /\ badStream' = FALSE
    /\ rows' = 0 /\ badCsv' = FALSE
    /\ status' = "none"
    /\ UNCHANGED <<caller, closeError>>

Open ==
    /\ NewSession
    /\ open' = TRUE /\ accepting' = TRUE
    /\ worker' = "wait"
    /\ streamOpen' = TRUE /\ csvOpen' = TRUE
    /\ manifest' = "recording"

(* The worker cannot be spawned: both files are closed again.              *)
OpenFails ==
    /\ NewSession
    /\ open' = FALSE /\ accepting' = FALSE
    /\ worker' = "none"
    /\ streamOpen' = FALSE /\ csvOpen' = FALSE
    /\ manifest' = "faulted"

(* Bug for a mutant: a full queue gives up its oldest result and reports   *)
(* success.                                                                *)
EnqueueEvicts ==
    /\ open /\ accepting /\ ~faulted
    /\ enqueued + overruns < MaxResults
    /\ queue' = IF Len(queue) >= QueueCapacity
                THEN Append(Tail(queue), enqueued + 1)
                ELSE Append(queue, enqueued + 1)
    /\ enqueued' = enqueued + 1
    /\ UNCHANGED <<control, overruns, written, worker, result, sinceFlush,
                   binary, csv, manifest, close>>

(* enqueue returns true.                                                   *)
Enqueue ==
    /\ open /\ accepting /\ ~faulted
    /\ enqueued + overruns < MaxResults
    /\ Len(queue) < QueueCapacity
    /\ queue' = Append(queue, enqueued + 1)
    /\ enqueued' = enqueued + 1
    /\ UNCHANGED <<control, overruns, written, worker, result, sinceFlush,
                   binary, csv, manifest, close>>

(* enqueue returns false: the queue is full.                               *)
Overrun ==
    /\ open /\ accepting /\ ~faulted
    /\ enqueued + overruns < MaxResults
    /\ Len(queue) >= QueueCapacity
    /\ overruns' = overruns + 1
    /\ UNCHANGED <<control, queue, enqueued, written, worker, result,
                   sinceFlush, binary, csv, manifest, close>>

-----------------------------------------------------------------------------
(* The worker.                                                             *)

(* Bug for a mutant: the worker does not look at the queue before a stop is  *)
(* requested.                                                              *)
TakeLate ==
    /\ worker = "wait" /\ queue # <<>> /\ stopRequested
    /\ result' = Head(queue) /\ queue' = Tail(queue)
    /\ worker' = "append"
    /\ UNCHANGED <<control, counters, sinceFlush, binary, csv, manifest, close>>

(* The wait ends with the oldest queued result.                            *)
Take ==
    /\ worker = "wait" /\ queue # <<>>
    /\ result' = Head(queue) /\ queue' = Tail(queue)
    /\ worker' = "append"
    /\ UNCHANGED <<control, counters, sinceFlush, binary, csv, manifest, close>>

(* Bug for a mutant: the worker leaves as soon as a stop is requested.     *)
WorkerExitUndrained ==
    /\ worker = "wait" /\ stopRequested
    /\ worker' = "done"
    /\ UNCHANGED <<control, queue, counters, result, sinceFlush, binary, csv,
                   manifest, close>>

(* The wait ends with an empty queue and a requested stop.                 *)
WorkerExit ==
    /\ worker = "wait" /\ queue = <<>> /\ stopRequested
    /\ worker' = "done"
    /\ UNCHANGED <<control, queue, counters, result, sinceFlush, binary, csv,
                   manifest, close>>

(* A stream whose records are `to': any of them may get to the disk.       *)
SpillOf(to) == durable' \in durable .. Len(to)

(* SessionBinaryWriter::append.                                            *)
AppendRecord ==
    /\ worker = "append" /\ ~badStream
    /\ records' = Append(records, result)
    /\ SpillOf(records')
    /\ worker' = "csv"
    /\ UNCHANGED <<control, queue, counters, result, sinceFlush, torn,
                   badStream, streamOpen, csv, manifest, close>>

(* It throws: the device took a part of what was buffered.                 *)
AppendFails ==
    /\ worker = "append" /\ DiskMayFail
    /\ badStream' = TRUE
    /\ SpillOf(records) /\ torn' \in BOOLEAN
    /\ worker' = "fault"
    /\ UNCHANGED <<control, queue, counters, result, sinceFlush, records,
                   streamOpen, csv, manifest, close>>

(* ResultWriter::append, including its own flush.                          *)
AppendRows ==
    /\ worker = "csv"
    /\ rows' = IF CsvEnabled THEN rows + 1 ELSE rows
    /\ sinceFlush' = sinceFlush + 1
    /\ worker' = IF sinceFlush + 1 >= FlushEvery THEN "flush" ELSE "count"
    /\ UNCHANGED <<control, queue, counters, result, binary, badCsv, csvOpen,
                   manifest, close>>

AppendRowsFails ==
    /\ worker = "csv" /\ CsvEnabled /\ DiskMayFail
    /\ badCsv' = TRUE
    /\ worker' = "fault"
    /\ UNCHANGED <<control, queue, counters, result, sinceFlush, binary, rows,
                   csvOpen, manifest, close>>

(* SessionBinaryWriter::flush.                                             *)
FlushRecords ==
    /\ worker = "flush"
    /\ durable' = Len(records)
    /\ sinceFlush' = 0
    /\ worker' = "count"
    /\ UNCHANGED <<control, queue, counters, result, records, torn, badStream,
                   streamOpen, csv, manifest, close>>

FlushFails ==
    /\ worker = "flush" /\ DiskMayFail
    /\ badStream' = TRUE
    /\ SpillOf(records)
    /\ torn' \in BOOLEAN /\ (torn' => durable' < Len(records))
    /\ worker' = "fault"
    /\ UNCHANGED <<control, queue, counters, result, sinceFlush, records,
                   streamOpen, csv, manifest, close>>

CountWritten ==
    /\ worker = "count"
    /\ written' = written + 1
    /\ result' = 0
    /\ worker' = "wait"
    /\ UNCHANGED <<control, queue, enqueued, overruns, sinceFlush, binary, csv,
                   manifest, close>>

(* Bug for a mutant: the fault is not recorded.                            *)
ReportFaultQuietly ==
    /\ worker = "fault"
    /\ accepting' = FALSE
    /\ worker' = "done"
    /\ UNCHANGED <<open, stopRequested, faulted, queue, counters, result,
                   sinceFlush, binary, csv, manifest, close>>

(* The handlers of worker_loop call report_fault.                          *)
ReportFault ==
    /\ worker = "fault"
    /\ faulted' = TRUE /\ accepting' = FALSE
    /\ worker' = "done"
    /\ UNCHANGED <<open, stopRequested, queue, counters, result, sinceFlush,
                   binary, csv, manifest, close>>

-----------------------------------------------------------------------------
(* close.                                                                  *)

(* Bug for a mutant: the worker is joined without being told to stop.      *)
CloseForgetsStop ==
    /\ caller = "idle" /\ open
    /\ status' \in FinalStatus
    /\ status' = "complete" => status = "none"
    /\ accepting' = FALSE
    /\ caller' = "join"
    /\ UNCHANGED <<open, stopRequested, faulted, queue, counters, worker,
                   result, sinceFlush, binary, csv, manifest, closeError>>

(* A session is closed as complete once; when that throws, the Edge closes *)
(* it again as faulted or interrupted (RESET, shutdown, the destructor).   *)
CloseBegins ==
    /\ caller = "idle" /\ open
    /\ status' \in FinalStatus
    /\ status' = "complete" => status = "none"
    /\ accepting' = FALSE /\ stopRequested' = TRUE
    /\ caller' = "join"
    /\ UNCHANGED <<open, faulted, queue, counters, worker, result, sinceFlush,
                   binary, csv, manifest, closeError>>

Join ==
    /\ caller = "join" /\ worker \in {"none", "done"}
    /\ worker' = "none"
    /\ closeError' = faulted
    /\ caller' = "flush"
    /\ UNCHANGED <<control, queue, counters, result, sinceFlush, binary, csv,
                   manifest, status>>

(* The last flush of the stream, and its closing, which ignores errors.    *)
CloseStream ==
    /\ caller = "flush" /\ (streamOpen => ~badStream)
    /\ durable' = IF streamOpen THEN Len(records) ELSE durable
    /\ streamOpen' = FALSE
    /\ caller' = "csv"
    /\ UNCHANGED <<control, queue, counters, worker, result, sinceFlush,
                   records, torn, badStream, csv, manifest, status, closeError>>

CloseStreamFails ==
    /\ caller = "flush" /\ streamOpen /\ (badStream \/ DiskMayFail)
    /\ badStream' = TRUE
    /\ IF torn THEN UNCHANGED <<durable, torn>>
               ELSE SpillOf(records) /\ torn' \in BOOLEAN
    /\ streamOpen' = FALSE
    /\ closeError' = TRUE
    /\ caller' = "csv"
    /\ UNCHANGED <<control, queue, counters, worker, result, sinceFlush,
                   records, csv, manifest, status>>

(* ResultWriter::close: nothing to do, or the CSV is flushed and closed.   *)
CloseCsv ==
    /\ caller = "csv" /\ ~(csvOpen /\ badCsv)
    /\ caller' = IF csvOpen THEN "manifest" ELSE "finish"
    /\ UNCHANGED <<control, queue, counters, worker, result, sinceFlush,
                   binary, csv, manifest, status, closeError>>

(* The flush fails: close throws, and leaves the session open.             *)
CloseCsvFails ==
    /\ caller = "csv" /\ csvOpen /\ CsvEnabled /\ (badCsv \/ DiskMayFail)
    /\ badCsv' = TRUE /\ csvOpen' = FALSE
    /\ caller' = "idle"
    /\ UNCHANGED <<control, queue, counters, worker, result, sinceFlush,
                   binary, rows, manifest, status, closeError>>

(* write_manifest: the new file is written and the old one removed ...     *)
RemoveManifest ==
    /\ caller = "manifest"
    /\ manifest' = "none"
    /\ caller' = "rename"
    /\ UNCHANGED <<control, queue, counters, worker, result, sinceFlush,
                   binary, csv, status, closeError>>

(* ... or one of the two fails, and close throws.                          *)
WriteManifestFails ==
    /\ caller = "manifest" /\ DiskMayFail
    /\ caller' = "idle"
    /\ UNCHANGED <<control, queue, counters, worker, result, sinceFlush,
                   binary, csv, manifest, status, closeError>>

(* Bug for a mutant: the manifest has the status of the call.              *)
RenameManifestAsAsked ==
    /\ caller = "rename"
    /\ manifest' = status
    /\ csvOpen' = FALSE
    /\ caller' = "finish"
    /\ UNCHANGED <<control, queue, counters, worker, result, sinceFlush,
                   binary, rows, badCsv, status, closeError>>

(* The new file takes the old one's place.                                 *)
RenameManifest ==
    /\ caller = "rename"
    /\ manifest' = IF closeError THEN "faulted" ELSE status
    /\ csvOpen' = FALSE
    /\ caller' = "finish"
    /\ UNCHANGED <<control, queue, counters, worker, result, sinceFlush,
                   binary, rows, badCsv, status, closeError>>

RenameFails ==
    /\ caller = "rename" /\ DiskMayFail
    /\ caller' = "idle"
    /\ UNCHANGED <<control, queue, counters, worker, result, sinceFlush,
                   binary, csv, manifest, status, closeError>>

(* close returns, or throws worker_error.                                  *)
CloseEnds ==
    /\ caller = "finish"
    /\ open' = FALSE /\ queue' = <<>>
    /\ caller' = "idle"
    /\ UNCHANGED <<accepting, stopRequested, faulted, counters, worker, result,
                   sinceFlush, binary, csv, manifest, status, closeError>>

(* The process is killed; a new one, with nothing open, takes its place.   *)
(* The counters stay, to tell what the directory should hold.              *)
Crash ==
    /\ MayCrash /\ open
    /\ open' = FALSE /\ accepting' = FALSE /\ stopRequested' = FALSE
    /\ faulted' = FALSE
    /\ queue' = <<>> /\ worker' = "none" /\ result' = 0 /\ sinceFlush' = 0
    /\ \/ UNCHANGED torn
       \/ (durable < Len(records) \/ worker = "append") /\ torn' = TRUE
    /\ streamOpen' = FALSE /\ badStream' = FALSE
    /\ csvOpen' = FALSE /\ badCsv' = FALSE
    /\ caller' = "idle" /\ status' = "none" /\ closeError' = FALSE
    /\ UNCHANGED <<counters, records, durable, rows, manifest>>

-----------------------------------------------------------------------------
Produce == Enqueue \/ Overrun

WorkerStep ==
    \/ Take \/ WorkerExit
    \/ AppendRecord \/ AppendFails
    \/ AppendRows \/ AppendRowsFails
    \/ FlushRecords \/ FlushFails
    \/ CountWritten \/ ReportFault

CloseStep ==
    \/ Join
    \/ CloseStream \/ CloseStreamFails
    \/ CloseCsv \/ CloseCsvFails
    \/ RemoveManifest \/ WriteManifestFails
    \/ RenameManifest \/ RenameFails
    \/ CloseEnds

Next ==
    \/ Open \/ OpenFails \/ CloseBegins
    \/ Produce \/ WorkerStep \/ CloseStep
    \/ Crash

Spec == Init /\ [][Next]_vars

(* The worker and a pending close run; nobody has to open or to enqueue.   *)
FairSpec == Spec /\ WF_vars(WorkerStep) /\ WF_vars(CloseStep)

-----------------------------------------------------------------------------
(* Properties.                                                             *)

(* Every variable has its type; the queue never exceeds its capacity.      *)
TypeOK ==
    /\ open \in BOOLEAN /\ accepting \in BOOLEAN
    /\ stopRequested \in BOOLEAN /\ faulted \in BOOLEAN
    /\ queue \in Seq(Nat) /\ Len(queue) <= QueueCapacity
    /\ enqueued \in Nat /\ overruns \in Nat /\ written \in Nat
    /\ worker \in WorkerPC /\ result \in Nat
    /\ sinceFlush \in 0 .. FlushEvery
    /\ records \in Seq(Nat) /\ durable \in 0 .. Len(records)
    /\ torn \in BOOLEAN /\ badStream \in BOOLEAN /\ streamOpen \in BOOLEAN
    /\ rows \in Nat /\ badCsv \in BOOLEAN /\ csvOpen \in BOOLEAN
    /\ manifest \in FinalStatus \cup {"none", "recording"}
    /\ caller \in CallerPC /\ status \in FinalStatus \cup {"none"}
    /\ closeError \in BOOLEAN

(* The file holds the first results accepted, each once and in order,      *)
(* whatever failed, was closed or was killed in between.                   *)
FileIsPrefix ==
    /\ \A i \in 1 .. Len(records) : records[i] = i
    /\ Len(records) <= enqueued

(* Until the worker fails, every result for which enqueue returned true is *)
(* in the file, in the worker's hand, or queued.                           *)
B2N(b) == IF b THEN 1 ELSE 0
NothingLostSilently ==
    open /\ ~faulted /\ worker # "fault" =>
        enqueued = Len(records) + B2N(worker = "append") + Len(queue)

(* A session marked complete has every accepted result on disk, in the CSV *)
(* too when there is one, and nothing after the last record.               *)
CompleteMeansDurable ==
    manifest = "complete" =>
        /\ durable = enqueued /\ ~torn
        /\ CsvEnabled => rows = enqueued

(* A crash loses fewer than FlushEvery of the results the metrics count as *)
(* written.                                                                *)
LossWindow == written < durable + FlushEvery

(* The directory is an append-only log with a final status.                *)
Log == INSTANCE ResultLog WITH
           accepted <- enqueued,
           durable <- durable,
           status <- IF manifest = "none" THEN "recording" ELSE manifest
ImplementsLog == Log!LogSpec

(* The Edge sees a simpler machine: the writer keeps the contract the Edge *)
(* is built on.                                                            *)
Owner == INSTANCE StorageContract WITH
             used <- enqueued > 0,
             worker <- IF worker \in {"none", "done"} THEN worker ELSE "run",
             session <- csvOpen,
             call <- CASE caller = "idle" -> "idle"
                       [] caller = "join" -> "join"
                       [] caller = "finish" -> "end"
                       [] OTHER -> "finish",
             error <- closeError
KeepsContract == Owner!Contract

(* close returns or throws.                                                *)
CloseReturns == caller # "idle" ~> caller = "idle"

(* An accepted result is written while the session goes on: nothing waits  *)
(* for the next one, or for close.                                         *)
ResultsAreWritten ==
    \A n \in 1 .. MaxResults :
        open /\ enqueued = n ~> Len(records) >= n \/ faulted \/ ~open
=============================================================================
