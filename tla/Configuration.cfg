CONSTANTS
    Threads = {t1, t2}
    Confs = {here, there}
    Options = {small, big}
    Purposes = {"notes", "cloud_asr"}
    None = None
    MaxRef = 3
    MaxRevision = 2
    Requests = 6
    Faults = 1
SPECIFICATION Spec
SYMMETRY Symmetry
CHECK_DEADLOCK FALSE
INVARIANTS
    LiveSecretIsKept
    
    SentAsConsented
