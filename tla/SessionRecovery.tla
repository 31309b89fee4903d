-------------------------- MODULE SessionRecovery --------------------------
(***************************************************************************)
(* AsyncWriter and the reader of its files together: whatever the writer   *)
(* has done when it is killed, scan_session_binary is run on what is on     *)
(* disk at that moment (dic_export_csv, and the self-test of the Edge).     *)
(***************************************************************************)
EXTENDS AsyncWriter, SessionScan

(* The number of the record a part of which may follow the whole ones.     *)
CutRecord == IF durable < Len(records) THEN records[durable + 1] ELSE Len(records) + 1

(* What results.p2dic may hold: the header, which is buffered like the      *)
(* rest, the durable records, and a part of one more.                      *)
FilesOnDisk ==
    LET whole == FileHeader \o RecordBytes(SubSeq(records, 1, durable))
    IN  IF torn THEN {whole \o SubSeq(Record(CutRecord), 1, cut) : cut \in 1 .. RecordSize - 1}
        ELSE {whole} \cup IF durable = 0 THEN {SubSeq(FileHeader, 1, FileHeaderSize - 1), <<>>}
                          ELSE {}

(* A reader of the file, whenever it is opened and whatever has failed or   *)
(* been killed before, gets the first accepted results, each once and in    *)
(* order, all but the last FlushEvery of those counted as written; it is    *)
(* told of damage exactly when a part of a record follows.                 *)
RecoveryFindsPrefix ==
    \A file \in FilesOnDisk :
        LET found == Scan(file)
        IN  /\ found.results = [i \in 1 .. durable |-> i]
            /\ durable <= enqueued
            /\ written < Len(found.results) + FlushEvery
            /\ found.validBytes # 0 =>
                 /\ found.damaged <=> torn
                 /\ found.validBytes = FileHeaderSize + durable * RecordSize
=============================================================================
