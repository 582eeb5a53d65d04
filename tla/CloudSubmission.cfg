CONSTANTS
    Workers = {w1, w2}
    MaxAttempt = 2
    Mode = "auto"
    Cos = TRUE
    Overlap = FALSE
    NoWorker = NoWorker
SPECIFICATION Spec
SYMMETRY Symmetry
CHECK_DEADLOCK FALSE
INVARIANTS
    PaidOnce
    AcceptedIsOnRecord
    EndedIsCleanedUp
