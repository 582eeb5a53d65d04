CONSTANTS
    Workers = {w1, w2}
    MaxAttempt = 1
    Mode = "cloud"
    Cos = TRUE
    Overlap = FALSE
    NoWorker = NoWorker
SPECIFICATION FairSpec
CHECK_DEADLOCK FALSE
PROPERTIES
    SubmissionEnds
    CleanupCompletes
