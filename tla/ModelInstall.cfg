CONSTANTS
    N = 2
    Size = 2
    Etags = {e1, e2}
    Pinned = e1
    NoTag = NoTag
    Deaths = 1
    Faults = 1
SPECIFICATION FairSpec
CHECK_DEADLOCK FALSE
INVARIANTS
    InstalledIsWhole
    PartIsOneVersion
PROPERTIES
    OnlyTheUserRevives
    InstallConcludes
