CONSTANTS
    t1 = t1
    t2 = t2
    i1 = i1
    i2 = i2
    Tasks = {t1, t2}
    Items = {i1, i2}
    Workers = {w1, w2}
    Resources = {gpu}
    TaskOf <- TwoTasks
    PlannedStages <- Transcript
    QueueOrder <- Order
    UploadItems = {i2}
    WarningValues = {TRUE}
    MaxAttempt = 1
    StageLease = 1
    ResourceLease = 1
    CancelableTasks = {}
    Outages = FALSE
    NoWorker = NoWorker
    NoClaim = NoClaim
    NoToken = NoToken
    NoRead = NoRead
SPECIFICATION FairSpec
CHECK_DEADLOCK FALSE
PROPERTIES
    QueueDrains
