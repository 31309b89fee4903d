\* No failures: does every call return?
SPECIFICATION FairSpec
CONSTANTS
    PoolSize = 5
    QueueCapacity = 2
    MaxFrames = 3
    CameraMayFail = FALSE
    ProcessingMayFail = FALSE
    CallerMayPause = TRUE
PROPERTIES
    CallsReturn
