\* No packet and no connection is lost by the network: is Studio that comes back served?
SPECIFICATION FairStreamSpec
CONSTANTS
    MaxPublications = 2
    Chunks = 2
    WireCapacity = 3
    StreamBacklog = 2
    MaxFaults = 0
    SignalsBrokenPipe = FALSE
PROPERTIES
    NewestArrives
CHECK_DEADLOCK FALSE
