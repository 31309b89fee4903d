--------------------------- MODULE ConfigSaveProofs ---------------------------
(***************************************************************************)
(* The three names under which a configuration is kept, for any values of   *)
(* the settings and any number of failures.                                *)
(***************************************************************************)
EXTENDS ConfigSave, TLAPS

Contents == Config \cup {NoFile, Torn}

Typed ==
    /\ disk \in [Files -> Contents]
    /\ saveStep \in Steps
    /\ saveStep # "down" => running \in Config
    /\ faults \in Nat

(* Between the writing of .partial and its rename it holds the new text, and *)
(* the backup that was made is that of the file that is removed.           *)
Partial == saveStep \in {"exists", "copy", "remove", "rename", "restore", "copyBack"}

SaveInProgress ==
    /\ Partial => disk["partial"] \in Config /\ disk["partial"] = Text(running)
    /\ saveStep \in {"copy", "remove"} => disk["path"] # NoFile
    /\ saveStep = "remove" => disk["bak"] = disk["path"]
    /\ saveStep \in {"rename", "restore"} => disk["path"] = NoFile
    /\ saveStep = "copyBack" => disk["path"] = Torn
    /\ saveStep \in {"restore", "copyBack"} => faults >= 1
    /\ saveStep \notin {"down", "serving"} => answer # "CONFIG_SAVED"

(* Without PATH the backup is what PATH held, unless two failures came before. *)
BackupServes ==
    /\ (disk["path"] = NoFile \/ saveStep = "copyBack") => (Whole("bak") => disk["bak"] \in accepted)
    /\ disk["path"] = NoFile => Whole("bak") \/ faults >= 2
    /\ saveStep \in {"restore", "copyBack"} => Whole("bak") \/ faults >= 3
    /\ (disk["path"] = NoFile /\ saveStep \notin {"down", "rename", "restore"}) => faults >= 2

(* After a second failure the new text is a third place to look, until it is *)
(* renamed.                                                                *)
TwoFailures ==
    faults = 2 => Whole("path") \/ Whole("bak") \/ saveStep \in {"exists", "copy", "remove", "rename"}

FilesInv == Typed /\ SaveInProgress /\ BackupServes /\ TwoFailures /\ PathHoldsSaved

LEMMA ContentsDiffer == NoFile # Torn /\ NoFile \notin Config /\ Torn \notin Config
BY ConfigValuesAssumption DEF Config

LEMMA TextIsConfig == ASSUME NEW c \in Config PROVE Text(c) \in Config
<1>1. Rounded(c.rate) \in Int
  BY ConfigValuesAssumption DEF Rounded, Config
<1>2. QED
  BY <1>1 DEF Text, Config

LEMMA LoadableIsConfig ==
    ASSUME NEW content, NEW c \in Loadable(content)
    PROVE  c \in Config /\ content \in {Torn, c}
<1>1. \A r \in Rates : Rounded(r) \in Int
  BY ConfigValuesAssumption DEF Rounded
<1>2. QED
  BY <1>1, ConfigValuesAssumption DEF Loadable, Config

LEMMA InitInv == ConfigInit => FilesInv
<1>1. SUFFICES ASSUME ConfigInit PROVE FilesInv
  OBVIOUS
<1>2. PICK w \in Widths, o \in Offsets, r \in Rates :
        LET c == [width |-> w, offset |-> o, rate |-> Rounded(r)]
        IN  /\ disk = [f \in Files |-> IF f = "path" THEN c ELSE NoFile]
            /\ accepted = {c}
  BY <1>1 DEF ConfigInit
<1>3. Rounded(r) \in Int
  BY ConfigValuesAssumption DEF Rounded
<1>4. disk["path"] \in Config /\ disk["path"] \in accepted
  BY <1>2, <1>3, ConfigValuesAssumption DEF Config, Files
<1>5. Typed
  BY <1>1, <1>2, <1>3, ConfigValuesAssumption DEF ConfigInit, Typed, Files, Contents, Config, Steps
<1>6. QED
  BY <1>1, <1>4, <1>5, ContentsDiffer DEF ConfigInit, FilesInv, SaveInProgress, Partial, BackupServes,
    TwoFailures, PathHoldsSaved, Whole

LEMMA StartInv == FilesInv /\ StartEdge => FilesInv'
<1>1. SUFFICES ASSUME FilesInv, StartEdge PROVE FilesInv'
  OBVIOUS
<1>2. running' \in Config /\ disk["path"] \in {Torn, running'}
  BY <1>1, LoadableIsConfig DEF StartEdge
<1>3. disk["path"] # NoFile
  BY <1>2, ContentsDiffer
<1>4. QED
  BY <1>1, <1>2, <1>3, ContentsDiffer DEF StartEdge, FilesInv, Typed, Files, Steps, Contents,
  SaveInProgress, Partial, BackupServes, TwoFailures, PathHoldsSaved, Whole

LEMMA RepairByHandInv == FilesInv /\ RepairByHand => FilesInv'
<1>1. SUFFICES ASSUME FilesInv, RepairByHand PROVE FilesInv'
  OBVIOUS
<1>2. PICK c \in UNION {Loadable(f) : f \in [width : Widths, offset : Offsets, rate : Rates]} :
        /\ disk' = [disk EXCEPT !["path"] = c]
        /\ accepted' = {c}
  BY <1>1 DEF RepairByHand
<1>3. c \in Config
  <2>1. PICK f : c \in Loadable(f)
    BY <1>2
  <2>2. QED
    BY <2>1, LoadableIsConfig
<1>4. QED
  BY <1>1, <1>2, <1>3, ContentsDiffer DEF RepairByHand, FilesInv, Typed, Files, Steps, Contents,
  SaveInProgress, Partial, BackupServes, TwoFailures, PathHoldsSaved, Whole

LEMMA ChangeInv == FilesInv /\ Change => FilesInv'
<1>1. SUFFICES ASSUME FilesInv, Change PROVE FilesInv'
  OBVIOUS
<1>2. running \in Config
  BY <1>1 DEF Change, FilesInv, Typed
<1>3. running' \in Config
  <2>1. /\ Widths \cup {running.width} \subseteq Nat
        /\ Offsets \cup {running.offset} \subseteq Nat
        /\ Rates \cup {running.rate} \subseteq Int
    <3>1. running.width \in Nat /\ running.offset \in Nat /\ running.rate \in Int
      BY <1>2 DEF Config
    <3>2. Widths \subseteq Nat /\ Offsets \subseteq Nat /\ Rates \subseteq Int
      BY ConfigValuesAssumption
    <3>3. QED
      BY <3>1, <3>2
  <2>2. running' \in ApplySettings(running)
    BY <1>1 DEF Change
  <2>3. QED
    BY <2>1, <2>2 DEF ApplySettings, Config
<1>4. QED
  BY <1>1, <1>3, ContentsDiffer DEF Change, FilesInv, Typed, Files, Steps, Contents,
  SaveInProgress, Partial, BackupServes, TwoFailures, PathHoldsSaved, Whole

LEMMA BeginSaveInv == FilesInv /\ Save => FilesInv'
BY ContentsDiffer DEF Save, FilesInv, Typed, Files, Steps, Contents,
  SaveInProgress, Partial, BackupServes, TwoFailures, PathHoldsSaved, Whole

LEMMA OpenPartialInv == FilesInv /\ OpenPartial => FilesInv'
BY ContentsDiffer DEF OpenPartial, Put, FilesInv, Typed, Files, Steps, Contents,
  SaveInProgress, Partial, BackupServes, TwoFailures, PathHoldsSaved, Whole

LEMMA WritePartialInv == FilesInv /\ WritePartial => FilesInv'
<1>1. SUFFICES ASSUME FilesInv, WritePartial PROVE FilesInv'
  OBVIOUS
<1>2. Text(running) \in Config
  BY <1>1, TextIsConfig DEF WritePartial, Put, FilesInv, Typed
<1>3. QED
  BY <1>1, <1>2, ContentsDiffer DEF WritePartial, Put, FilesInv, Typed, Files, Steps, Contents,
  SaveInProgress, Partial, BackupServes, TwoFailures, PathHoldsSaved, Whole

LEMMA WriteFailsInv == FilesInv /\ WriteFails => FilesInv'
BY ContentsDiffer DEF WriteFails, Fail, FilesInv, Typed, Files, Steps, Contents,
  SaveInProgress, Partial, BackupServes, TwoFailures, PathHoldsSaved, Whole

LEMMA CheckPathInv == FilesInv /\ CheckPath => FilesInv'
BY ContentsDiffer DEF CheckPath, FilesInv, Typed, Files, Steps, Contents,
  SaveInProgress, Partial, BackupServes, TwoFailures, PathHoldsSaved, Whole

LEMMA BeginBackupInv == FilesInv /\ BeginBackup => FilesInv'
BY ContentsDiffer DEF BeginBackup, Put, FilesInv, Typed, Files, Steps, Contents,
  SaveInProgress, Partial, BackupServes, TwoFailures, PathHoldsSaved, Whole

LEMMA FinishBackupInv == FilesInv /\ FinishBackup => FilesInv'
BY ContentsDiffer DEF FinishBackup, Put, FilesInv, Typed, Files, Steps, Contents,
  SaveInProgress, Partial, BackupServes, TwoFailures, PathHoldsSaved, Whole

LEMMA BackupFailsInv == FilesInv /\ BackupFails => FilesInv'
BY ContentsDiffer DEF BackupFails, Fail, FilesInv, Typed, Files, Steps, Contents,
  SaveInProgress, Partial, BackupServes, TwoFailures, PathHoldsSaved, Whole

LEMMA RemovePathInv == FilesInv /\ RemovePath => FilesInv'
BY ContentsDiffer DEF RemovePath, Put, FilesInv, Typed, Files, Steps, Contents,
  SaveInProgress, Partial, BackupServes, TwoFailures, PathHoldsSaved, Whole

LEMMA RemoveFailsInv == FilesInv /\ RemoveFails => FilesInv'
BY ContentsDiffer DEF RemoveFails, Fail, FilesInv, Typed, Files, Steps, Contents,
  SaveInProgress, Partial, BackupServes, TwoFailures, PathHoldsSaved, Whole

LEMMA CommitInv == FilesInv /\ Commit => FilesInv'
<1>1. SUFFICES ASSUME FilesInv, Commit PROVE FilesInv'
  OBVIOUS
<1>2. Text(running) \in Config
  BY <1>1, TextIsConfig DEF Commit, FilesInv, Typed
<1>3. disk["partial"] \in Config
  BY <1>1 DEF Commit, FilesInv, SaveInProgress, Partial
<1>4. Typed'
  <2>1. disk' \in [Files -> Contents]
    BY <1>1, <1>3 DEF Commit, FilesInv, Typed, Files, Contents
  <2>2. QED
    BY <1>1, <2>1 DEF Commit, FilesInv, Typed, Steps
<1>5. disk'["path"] = disk["partial"] /\ disk'["bak"] = disk["bak"]
  BY <1>1 DEF Commit, FilesInv, Typed, Files
<1>6. disk["partial"] = Text(running)
  BY <1>1 DEF Commit, FilesInv, SaveInProgress, Partial
<1>7. QED
  BY <1>1, <1>2, <1>3, <1>4, <1>5, <1>6, ContentsDiffer DEF Commit, FilesInv,
    SaveInProgress, Partial, BackupServes, TwoFailures, PathHoldsSaved, Whole

LEMMA RenameFailsInv == FilesInv /\ RenameFails => FilesInv'
BY ContentsDiffer DEF RenameFails, FilesInv, Typed, Files, Steps, Contents,
  SaveInProgress, Partial, BackupServes, TwoFailures, PathHoldsSaved, Whole

LEMMA BeginRestoreInv == FilesInv /\ BeginRestore => FilesInv'
BY ContentsDiffer DEF BeginRestore, Put, FilesInv, Typed, Files, Steps, Contents,
  SaveInProgress, Partial, BackupServes, TwoFailures, PathHoldsSaved, Whole

LEMMA FinishRestoreInv == FilesInv /\ FinishRestore => FilesInv'
BY ContentsDiffer DEF FinishRestore, Put, FilesInv, Typed, Files, Steps, Contents,
  SaveInProgress, Partial, BackupServes, TwoFailures, PathHoldsSaved, Whole

LEMMA RestoreFailsInv == FilesInv /\ RestoreFails => FilesInv'
BY ContentsDiffer DEF RestoreFails, Fail, FilesInv, Typed, Files, Steps, Contents,
  SaveInProgress, Partial, BackupServes, TwoFailures, PathHoldsSaved, Whole

LEMMA CrashInv == FilesInv /\ Crash => FilesInv'
BY ContentsDiffer DEF Crash, FilesInv, Typed, Files, Steps, Contents,
  SaveInProgress, Partial, BackupServes, TwoFailures, PathHoldsSaved, Whole

LEMMA StepInv == FilesInv /\ [ConfigNext]_configVars => FilesInv'
<1>1. SUFFICES ASSUME FilesInv, [ConfigNext]_configVars PROVE FilesInv'
  OBVIOUS
<1>2. CASE ConfigNext
  BY <1>1, <1>2, StartInv, RepairByHandInv, ChangeInv, BeginSaveInv, OpenPartialInv,
    WritePartialInv, WriteFailsInv, CheckPathInv, BeginBackupInv, FinishBackupInv,
    BackupFailsInv, RemovePathInv, RemoveFailsInv, CommitInv, RenameFailsInv,
    BeginRestoreInv, FinishRestoreInv, RestoreFailsInv, CrashInv DEF ConfigNext
<1>3. CASE UNCHANGED configVars
  BY <1>1, <1>3 DEF configVars, FilesInv, Typed, SaveInProgress, Partial, BackupServes, TwoFailures,
    PathHoldsSaved, Whole
<1>4. QED
  BY <1>1, <1>2, <1>3

(* What each of the three names holds, at every step of a save, whatever has *)
(* failed before.                                                          *)
THEOREM FilesInvariant == ConfigSpec => []FilesInv
<1>1. ConfigInit => FilesInv
  BY InitInv
<1>2. FilesInv /\ [ConfigNext]_configVars => FilesInv'
  BY StepInv
<1>3. QED
  BY <1>1, <1>2, PTL DEF ConfigSpec

(* The file a restart loads is the one last saved, or one of the attempts      *)
(* since, and it takes two failures to cut it off.                         *)
THEOREM SavedConfigurationIsThere == ConfigSpec => []PathHoldsSaved
<1>1. FilesInv => PathHoldsSaved
  BY DEF FilesInv
<1>2. QED
  BY <1>1, FilesInvariant, PTL

(* Up to two failures leave a whole configuration under one of the names.   *)
THEOREM ConfigurationSurvives == ConfigSpec => []SomethingSurvives
<1>1. FilesInv => SomethingSurvives
  <2>1. SUFFICES ASSUME FilesInv, faults <= 2 PROVE \E f \in Files : Whole(f)
    BY DEF SomethingSurvives
  <2>2. Whole("path") \/ Whole("bak") \/ Whole("partial")
    BY <2>1, ContentsDiffer DEF FilesInv, Typed, Files, Contents, SaveInProgress, Partial,
      BackupServes, TwoFailures, PathHoldsSaved, Whole
  <2>3. QED
    BY <2>2 DEF Files
<1>2. QED
  BY <1>1, FilesInvariant, PTL
=============================================================================
