CONSTANTS
    t1 = t1
    t2 = t2
    i1 = i1
    i2 = i2
    Tasks = {t1}
    Items = {i1, i2}
    Workers = {w1, w2}
    Resources = {gpu}
    TaskOf <- TwoItems
    PlannedStages <- Transcript
    QueueOrder <- Order
    UploadItems = {}
    WarningValues = {FALSE}
    MaxAttempt = 1
    StageLease = 2
    ResourceLease = 2
    CancelableTasks = {}
    Outages = TRUE
    NoWorker = NoWorker
    NoClaim = NoClaim
    NoToken = NoToken
    NoRead = NoRead
SPECIFICATION Spec
SYMMETRY Symmetry
CHECK_DEADLOCK FALSE
INVARIANTS
    ResourceExclusion
    ResourceFollowsRun
