\* Everything may fail, the caller pauses and resumes: safety and progress.
SPECIFICATION FairSpec
CONSTANTS
    PoolSize = 5
    QueueCapacity = 2
    MaxFrames = 6
    CameraMayFail = TRUE
    ProcessingMayFail = TRUE
    CallerMayPause = TRUE
INVARIANTS
    PoolConserved
    NoSilentDrop
PROPERTIES
    PauseFreezes
    KeepsContract
    OnlyLostWakeupsHang
