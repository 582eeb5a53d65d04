CONSTANTS
    t1 = t1
    t2 = t2
    s1 = s1
    s2 = s2
    b1 = b1
    b2 = b2
    Tasks = {t1, t2}
    Slots = {s1, s2}
    TaskOf <- TwoTasks
    UploadSlots = {s2}
    SampleTasks = {t2}
    Assets = {a1, a2}
    Bytes = {b1}
    Results = results
    Threads = {p1}
    Maintenance = maintenance
    Overlaps = {FALSE}
    Mortal = {p1}
    Faults = TRUE
    Nothing = Nothing
SPECIFICATION FairSpec
CHECK_DEADLOCK FALSE
PROPERTIES
    DueIsPurged
    ReconcilerRuns
