\* Anything may fail, clients speak, leave or stay silent. The process may end.
SPECIFICATION FairSpec
CONSTANTS
    MaxFrames = 2
    CameraMayFail = TRUE
    EngineMayFail = TRUE
    StorageMayFill = TRUE
    DiskMayFail = TRUE
CHECK_DEADLOCK FALSE
INVARIANTS
    IdleIsQuiet
    StorageOutlivesPipeline
    NoGhostMeasurement
PROPERTIES
    FaultIsSticky
    StopOkMeansComplete
    CommandsAnswered
    FaultEndsMeasurement
    ShutdownCompletes
