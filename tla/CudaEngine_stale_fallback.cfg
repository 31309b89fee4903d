SPECIFICATION EngineSpec
CONSTANTS
    Warps = 1
    MaxIterations = 1
    InverseCompositional = FALSE
    Buffers = {"one", "other"}
    Pinned = {}
    MaxFrames = 4
    MaxRecoveryPasses = 1
    MayFail = FALSE
INVARIANTS
    StartsOfThisReference
CHECK_DEADLOCK FALSE
