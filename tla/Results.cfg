\* The disk may fail at any write, the process may be killed; connections stall,
\* break, are left and made again.
SPECIFICATION ResultsSpec
CONSTANTS
    QueueCapacity = 2
    FlushEvery = 2
    CsvEnabled = TRUE
    MaxResults = 5
    DiskMayFail = TRUE
    MayCrash = TRUE
    FileHeaderSize = 2
    RecordHeaderSize = 2
    PayloadSize = 2
    MaxPublications = 3
    Chunks = 2
    WireCapacity = 3
    StreamBacklog = 2
    MaxFaults = 2
    SignalsBrokenPipe = TRUE
CHECK_DEADLOCK FALSE
INVARIANTS
    RecoveryFindsPrefix
    NothingLostSilently
    CompleteMeansDurable
    FramingHolds
    ReconnectPending
PROPERTIES
    ImplementsLog
    KeepsContract
    CloseReturns
    ResultsAreWritten
    ResultsMoveOn
    OwnerReturns
    OnlyStaleLinkHoldsBack
