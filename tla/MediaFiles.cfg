CONSTANTS
    t1 = t1
    t2 = t2
    s1 = s1
    s2 = s2
    b1 = b1
    b2 = b2
    Tasks = {t1}
    Slots = {s1}
    TaskOf <- OneTask
    UploadSlots = {}
    SampleTasks = {}
    Assets = {a1, a2}
    Bytes = {b1, b2}
    Results = results
    Threads = {p1, p2}
    Maintenance = maintenance
    Overlaps = {TRUE, FALSE}
    Mortal = {p1, p2, maintenance}
    Faults = FALSE
    Nothing = Nothing
SPECIFICATION Spec
SYMMETRY Symmetry
CHECK_DEADLOCK FALSE
INVARIANTS
    NothingIsLost
    OneCopy
PROPERTIES
    PurgeIsLawful
