\* Nothing fails: does STOP answer OK?
SPECIFICATION Spec
CONSTANTS
    MaxFrames = 2
    CameraMayFail = FALSE
    EngineMayFail = FALSE
    StorageMayFill = FALSE
    DiskMayFail = FALSE
CHECK_DEADLOCK FALSE
PROPERTIES
    StopAnswersOk
