CONSTANTS
    Workers = {w1, w2}
    Inputs <- Several
    Budget = 3
    BatchCues = 2
    RetryCues = 1
    MaxChunks = 3
    MaxLevels = 1
    NoWorker = NoWorker
    NoDoc = NoDoc
    NoReply = NoReply
SPECIFICATION FairSpec
CHECK_DEADLOCK FALSE
INVARIANTS
    EveryCueOnce
    CitesEvidence
    NeverPaidTwiceUnasked
    RequestsFit
PROPERTIES
    HandlerEnds
