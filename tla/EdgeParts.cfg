\* Everything may fail. The camera and the configuration go on for ever, the
\* engine has its last frame and the grid its last point.
SPECIFICATION EdgePartsSpec
CONSTANTS
    Warps = 2
    MaxIterations = 2
    InverseCompositional = TRUE
    Buffers = {"heap", "pinned"}
    Pinned = {"pinned"}
    MaxFrames = 4
    MaxRecoveryPasses = 1
    MayFail = TRUE
    Kinds = {"galaxy", "replay"}
    MaxFiles = 2
    Widths = {2252, 4504}
    Offsets = {0, 2252}
    Rates = {10, 12}
    SensorWidth = 4504
    Frequency = 5
    Precision = 4
    NoFile = NoFile
    Torn = Torn
    NoConfig = NoConfig
    MaxFaults = 3
    GridStep = 2
    Layouts <- TestLayouts
    Gradients <- TestGradients
    Capacity = 3
    Samples = {0, 1, 2}
    MaxSamples = 5
    Width = 13
    SubsetRadius = 2
    SearchRadius = 1
    PointStep = 1
    MaxRefinements = 3
    Parts = 2
    Tolerance = 1
    Deltas <- TestDeltas
    NotFinite = NotFinite
CHECK_DEADLOCK FALSE
INVARIANTS
    RaceFree
    ResultOfThisPair
    TrackIsOfThisReference
    UsedWhileOpen
    NothingLeaks
    PathHoldsSaved
    SomethingSurvives
    StrainIsOfTheField
    SnapshotIsOfTheLast
    ReadsStayInside
    ValidMeansMeasured
PROPERTIES
    ProcessReturns
