SPECIFICATION Spec
CONSTANTS
    t1 = t1
    t2 = t2
    i1 = i1
    i2 = i2
    Tasks = {t1, t2}
    Items = {i1, i2}
    Collections = {shelf}
    Searchers = {s1, s2}
    Nothing = Nothing
    Unfiled = Unfiled
    TaskOf <- MCTaskOf
    Changes = 3
    RowLimit = 1000
SYMMETRY Alike
INVARIANTS
    IndexTellsTheTruth
    TablesAgree
    SearchIsCurrent
