---------------------------- MODULE SessionScan ----------------------------
(***************************************************************************)
(* The layout of results.p2dic and scan_session_binary, which finds in a    *)
(* file what can be recovered from it (src/session_binary.cpp).             *)
(*                                                                         *)
(* A byte is the pair of the record it was written for and its place in    *)
(* it; record 0 is the header of the file.  Sizes are those of the          *)
(* constants.  A checksum that agrees by accident is left out: it agrees    *)
(* with a payload exactly when the payload is the one it was computed from. *)
(***************************************************************************)
EXTENDS Naturals, Sequences

CONSTANTS FileHeaderSize, RecordHeaderSize, PayloadSize

ASSUME ScanSizesAssumption ==
    /\ FileHeaderSize \in Nat \ {0}
    /\ RecordHeaderSize \in Nat \ {0}
    /\ PayloadSize \in Nat \ {0}

RecordSize == RecordHeaderSize + PayloadSize

FileHeader == [i \in 1 .. FileHeaderSize |-> <<0, i>>]

(* What append writes for record n.                                        *)
Record(n) == [i \in 1 .. RecordSize |-> <<n, i>>]

(* One record after the other.                                             *)
RecordBytes(numbers) ==
    [k \in 1 .. Len(numbers) * RecordSize |->
        Record(numbers[((k - 1) \div RecordSize) + 1])[((k - 1) % RecordSize) + 1]]

(* read_exact at a position: are there size bytes left?                    *)
ReadExact(file, at, size) == at + size <= Len(file)

(* The bytes from a position are those of a record header: its magic, a     *)
(* size within the limits, and a reserved field of zero.                   *)
HeaderAt(file, at) ==
    \E n \in {file[at + 1][1]} \ {0} :
        SubSeq(file, at + 1, at + RecordHeaderSize) = SubSeq(Record(n), 1, RecordHeaderSize)

(* They are followed by the payload the header's checksum was taken of.    *)
PayloadAt(file, at) ==
    SubSeq(file, at + RecordHeaderSize + 1, at + RecordSize)
        = SubSeq(Record(file[at + 1][1]), RecordHeaderSize + 1, RecordSize)

(* A record that starts at a position.                                     *)
WholeRecordAt(file, at) ==
    /\ ReadExact(file, at, RecordHeaderSize) /\ HeaderAt(file, at)
    /\ ReadExact(file, at + RecordHeaderSize, PayloadSize) /\ PayloadAt(file, at)

Recovered(results, validBytes, damaged) ==
    [results |-> results, validBytes |-> validBytes, damaged |-> damaged]

(* Bug for a mutant: a record counts once its header was read.             *)
ScanHeaders(file) ==
    LET from[at \in 0 .. Len(file) + RecordSize] ==
            IF at >= Len(file) THEN Recovered(<<>>, at, FALSE)
            ELSE IF ReadExact(file, at, RecordHeaderSize) /\ HeaderAt(file, at)
            THEN LET rest == from[at + RecordSize]
                 IN  [rest EXCEPT !.results = <<file[at + 1][1]>> \o @]
            ELSE Recovered(<<>>, at, TRUE)
    IN  IF ReadExact(file, 0, FileHeaderSize) /\ SubSeq(file, 1, FileHeaderSize) = FileHeader
        THEN from[FileHeaderSize]
        ELSE Recovered(<<>>, 0, TRUE)

(* scan_session_binary: whole records one after the other, up to the end of *)
(* the file or the first that is cut off or damaged.  Where the header of    *)
(* the file is not whole the code throws; nothing is recovered either.      *)
Scan(file) ==
    LET from[at \in 0 .. Len(file)] ==
            IF at = Len(file) THEN Recovered(<<>>, at, FALSE)
            ELSE IF WholeRecordAt(file, at)
            THEN LET rest == from[at + RecordSize]
                 IN  [rest EXCEPT !.results = <<file[at + 1][1]>> \o @]
            ELSE Recovered(<<>>, at, TRUE)
    IN  IF ReadExact(file, 0, FileHeaderSize) /\ SubSeq(file, 1, FileHeaderSize) = FileHeader
        THEN from[FileHeaderSize]
        ELSE Recovered(<<>>, 0, TRUE)
=============================================================================
