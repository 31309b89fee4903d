----------------------------- MODULE ConfigSave -----------------------------
(***************************************************************************)
(* The configuration of the Edge: CONFIG key=value..., CONFIG SAVE, and a   *)
(* start from --config PATH (src/edge_config.cpp, apps/dic_edge.cpp).       *)
(*                                                                         *)
(* save_edge_config replaces the file in steps: it writes PATH.partial,     *)
(* copies PATH to PATH.bak, removes PATH and renames PATH.partial to PATH;  *)
(* if the rename fails it copies PATH.bak back.  Any step may fail and the  *)
(* process may be killed between any two.  The commands run one at a time,  *)
(* under command_mutex.                                                     *)
(*                                                                         *)
(* Of a configuration the model keeps three of the values CONFIG can set,   *)
(* those between which EdgeConfig::validate has rules: the width and the    *)
(* horizontal offset of the camera image, which must fit on the sensor, and *)
(* the frame rate, at least twice the frequency of the synthetic motion     *)
(* (a value only the file gives).                                           *)
(***************************************************************************)
EXTENDS Integers

CONSTANTS
  Widths, Offsets, \* the values of image.width and camera.offset_x in use
  Rates,           \* the values of image.fps in use, in units finer than a file keeps
  SensorWidth,     \* 4504 in the code
  Frequency,       \* synthetic.frequency_hz, in the units of Rates
  Precision,       \* what is written of a rate is a multiple of this
  NoFile, Torn,    \* contents of a file: it does not exist; it was cut off
  NoConfig,        \* the process is not running
  MaxFaults        \* bound: failed file operations and crashes

ASSUME ConfigValuesAssumption ==
  /\ Widths \subseteq Nat /\ Offsets \subseteq Nat /\ Rates \subseteq Nat
  /\ SensorWidth \in Nat /\ Frequency \in Nat /\ Precision \in Nat \ {0}
  /\ NoFile # Torn
  /\ {NoFile, Torn} \cap [width : Nat, offset : Nat, rate : Int] = {}

VARIABLES
  running,   \* config of main, as CONFIG shows it
  disk,      \* the contents of PATH, PATH.partial and PATH.bak
  saveStep,  \* where main or save_edge_config is
  answer,    \* the response to the last CONFIG SAVE since the start
  accepted,  \* history: what PATH may hold now: the text last promised by
             \* CONFIG_SAVED or found at the start, and those of later attempts
  faults     \* how many operations have failed, crashes included

configVars == <<running, disk, saveStep, answer, accepted, faults>>

Config == [width : Nat, offset : Nat, rate : Int]

Files == {"path", "partial", "bak"}

Steps == {"down", "serving", "open", "write", "exists", "copy", "remove", "rename",
          "restore", "copyBack"}

(* The rules of validate between values that can change; the others are     *)
(* about values that are checked once, when the file is loaded.            *)
Validate(c) ==
  /\ c.width >= 64 /\ c.rate > 0
  /\ c.offset + c.width <= SensorWidth
  /\ 2 * Frequency <= c.rate

(* A number is written with twelve digits.                                 *)
Rounded(n) == ((n + (Precision - 1) \div 2) \div Precision) * Precision

(* The text of a configuration, by the configuration it is read back as.   *)
Text(c) == [c EXCEPT !.rate = Rounded(c.rate)]

Whole(file) == disk[file] \notin {NoFile, Torn}

(* What load_edge_config can return.  A missing key keeps its default, so a  *)
(* text that was cut off may be read without an error.                     *)
Loadable(content) ==
  {c \in [width : Widths, offset : Offsets, rate : {Rounded(r) : r \in Rates}] :
     Validate(c) /\ content \in {Torn, c}}

(* What the arguments of a CONFIG command make of a configuration, one after  *)
(* the other: each key has the last of its values, or the one it had.  A key *)
(* that is not runtime configurable, or a value that does not parse or is    *)
(* out of its range, throws.                                               *)
ApplySettings(c) ==
  [width : Widths \cup {c.width}, offset : Offsets \cup {c.offset}, rate : Rates \cup {c.rate}]

ConfigInit ==
  /\ \E w \in Widths, o \in Offsets, r \in Rates :
       LET c == [width |-> w, offset |-> o, rate |-> Rounded(r)]
       IN  /\ Validate(c)
           /\ disk = [f \in Files |-> IF f = "path" THEN c ELSE NoFile]
           /\ accepted = {c}
  /\ running = NoConfig
  /\ saveStep = "down" /\ answer = "none" /\ faults = 0

(* main loads the file and makes the pipeline, or exits with status 2.     *)
StartEdge ==
  /\ saveStep = "down"
  /\ running' \in Loadable(disk["path"])
  /\ saveStep' = "serving"
  /\ accepted' = {running'}
  /\ answer' = "none"
  /\ UNCHANGED <<disk, faults>>

(* The operator puts a file in place by which the Edge starts again.       *)
RepairByHand ==
  /\ saveStep = "down" /\ Loadable(disk["path"]) = {}
  /\ \E c \in UNION {Loadable(f) : f \in [width : Widths, offset : Offsets, rate : Rates]} :
       /\ disk' = [disk EXCEPT !["path"] = c]
       /\ accepted' = {c}
  /\ UNCHANGED <<running, saveStep, answer, faults>>

(* CONFIG key=value...: a copy is changed, validated and made into a new     *)
(* pipeline before it replaces the configuration; whatever throws before    *)
(* leaves both as they are.                                                *)
Change ==
  /\ saveStep = "serving"
  /\ running' \in ApplySettings(running)
  /\ Validate(running')
  /\ UNCHANGED <<disk, saveStep, answer, accepted, faults>>

(*------------------------- save_edge_config -------------------------*)

Save ==
  /\ saveStep = "serving"
  /\ Validate(running)
  /\ saveStep' = "open"
  /\ answer' = "none"
  /\ accepted' = accepted \cup {Text(running)}
  /\ UNCHANGED <<running, disk, faults>>

(* One step of the save that succeeds, goes on and leaves `content` in `file`. *)
Put(file, content, from, to) ==
  /\ saveStep = from /\ saveStep' = to
  /\ disk' = [disk EXCEPT ![file] = content]
  /\ UNCHANGED <<running, answer, accepted, faults>>

(* One that fails, and with it the command.                                *)
Fail(from) ==
  /\ saveStep = from /\ saveStep' = "serving"
  /\ faults < MaxFaults /\ faults' = faults + 1
  /\ answer' = "error"
  /\ UNCHANGED <<running, disk, accepted>>

OpenPartial  == Put("partial", Torn, "open", "write")
WritePartial == Put("partial", Text(running), "write", "exists")

(* The stream could not be opened, or writing or flushing it failed.       *)
WriteFails == Fail("open") \/ Fail("write")

CheckPath ==
  /\ saveStep = "exists"
  /\ saveStep' = IF disk["path"] = NoFile THEN "rename" ELSE "copy"
  /\ UNCHANGED <<running, disk, answer, accepted, faults>>

(* A copy that leaves the backup there is as it is.                        *)
FinishBackupNotOver ==
  Put("bak", IF disk["bak"] = NoFile THEN disk["path"] ELSE disk["bak"], "copy", "remove")

(* copy_file truncates the backup first.                                   *)
BeginBackup  == disk["bak"] # Torn /\ Put("bak", Torn, "copy", "copy")
FinishBackup == Put("bak", disk["path"], "copy", "remove")

(* Without the test of the error.                                          *)
BackupFailsUnnoticed ==
  /\ saveStep = "copy" /\ saveStep' = "remove"
  /\ faults < MaxFaults /\ faults' = faults + 1
  /\ UNCHANGED <<running, disk, answer, accepted>>

BackupFails == Fail("copy")

RemovePath == Put("path", NoFile, "remove", "rename")

RemoveFails == Fail("remove")

(* The rename of .partial to PATH; CONFIG_SAVED is the answer.             *)
Commit ==
  /\ saveStep = "rename" /\ saveStep' = "serving"
  /\ disk' = [disk EXCEPT !["path"] = disk["partial"], !["partial"] = NoFile]
  /\ answer' = "CONFIG_SAVED"
  /\ accepted' = {Text(running)}
  /\ UNCHANGED <<running, faults>>

RenameFails ==
  /\ saveStep = "rename" /\ saveStep' = IF disk["bak"] = NoFile THEN "serving" ELSE "restore"
  /\ faults < MaxFaults /\ faults' = faults + 1
  /\ answer' = "error"
  /\ UNCHANGED <<running, disk, accepted>>

BeginRestore  == Put("path", Torn, "restore", "copyBack")
FinishRestore == Put("path", disk["bak"], "copyBack", "serving")

(* The error of the second copy is not reported, the first one is.         *)
RestoreFails == Fail("restore") \/ Fail("copyBack")

(* The process is killed, or ends, at any point.                           *)
Crash ==
  /\ saveStep # "down" /\ saveStep' = "down"
  /\ faults < MaxFaults /\ faults' = faults + 1
  /\ running' = NoConfig
  /\ UNCHANGED <<disk, answer, accepted>>

ConfigNext ==
  \/ StartEdge \/ RepairByHand \/ Change \/ Save
  \/ OpenPartial \/ WritePartial \/ WriteFails
  \/ CheckPath \/ BeginBackup \/ FinishBackup \/ BackupFails
  \/ RemovePath \/ RemoveFails \/ Commit
  \/ RenameFails \/ BeginRestore \/ FinishRestore \/ RestoreFails
  \/ Crash

ConfigSpec == ConfigInit /\ [][ConfigNext]_configVars

-----------------------------------------------------------------------------

(* What PATH holds, and a restart loads, is the text last promised by       *)
(* CONFIG_SAVED (or found at the start) or one of the saves tried since,     *)
(* never an older one; after CONFIG_SAVED it is there; and it takes two      *)
(* failures before it can be cut off.                                      *)
PathHoldsSaved ==
  /\ Whole("path") => disk["path"] \in accepted
  /\ answer = "CONFIG_SAVED" => Whole("path")
  /\ disk["path"] = Torn => faults >= 2 \/ (faults = 1 /\ saveStep = "copyBack")

(* Up to two failures, crashes included, leave a whole configuration under  *)
(* one of the three names at every moment.  (With a third failure there is   *)
(* none: rename and restore fail, the next save copies the cut-off file over *)
(* the backup, fails to rename, and the one after truncates .partial.)       *)
SomethingSurvives ==
  faults <= 2 => \E f \in Files : Whole(f)
=============================================================================
