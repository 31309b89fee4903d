\* Nothing is lost and the Edge serves: does Studio come back by itself?
SPECIFICATION ServedSpec
CONSTANTS
    Backlog = 1
    NetworkMayFail = FALSE
PROPERTIES
    FailureIsRetried
