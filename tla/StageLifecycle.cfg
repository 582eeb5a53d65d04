CONSTANTS
    t1 = t1
    t2 = t2
    i1 = i1
    i2 = i2
    Tasks = {t1}
    Items = {i1}
    Workers = {w1, w2}
    Resources = {gpu}
    TaskOf <- OneTask
    PlannedStages <- Notes
    QueueOrder <- Order
    UploadItems = {}
    WarningValues = {FALSE}
    MaxAttempt = 2
    StageLease = 1
    ResourceLease = 1
    CancelableTasks = {t1}
    Outages = TRUE
    NoWorker = NoWorker
    NoClaim = NoClaim
    NoToken = NoToken
    NoRead = NoRead
SPECIFICATION Spec
SYMMETRY Symmetry
CHECK_DEADLOCK FALSE
INVARIANTS
    LeaseIffRunning
    OneOpenAttempt
    ActiveHasInputs
    ClosedTaskIsQuiet
PROPERTIES
    FencedSpec
