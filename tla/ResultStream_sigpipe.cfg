\* No packet and no connection is lost by the network: does the Edge survive Studio?
SPECIFICATION FairStreamSpec
CONSTANTS
    MaxPublications = 2
    Chunks = 2
    WireCapacity = 3
    StreamBacklog = 2
    MaxFaults = 0
    SignalsBrokenPipe = TRUE
INVARIANTS
    EdgeSurvives
CHECK_DEADLOCK FALSE
