\* Nothing fails and no wakeup is lost: does a signal end the process?
SPECIFICATION PromptSpec
CONSTANTS
    MaxFrames = 2
    CameraMayFail = FALSE
    EngineMayFail = FALSE
    StorageMayFill = FALSE
    DiskMayFail = FALSE
CHECK_DEADLOCK FALSE
PROPERTIES
    ShutdownReturns
