\* Anything may be slow or lost, and the operator may press anything.
SPECIFICATION FairSpec
CONSTANTS
    Backlog = 1
    NetworkMayFail = TRUE
INVARIANTS
    AnswerOfThisRequest
PROPERTIES
    RequestsEnd
    ShownCatchesUp
