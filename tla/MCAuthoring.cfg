SPECIFICATION Spec
CONSTANTS
    w1 = w1
    w2 = w2
    c1 = c1
    c2 = c2
    s1 = s1
    s2 = s2
    d1 = d1
    None = None
    Workers <- Two
    Candidates <- MCCandidates
    Streets <- MCStreets
    Destinations = {d1}
    MaxOperations = 5
    MaxRevision = 3
SYMMETRY Symmetry
INVARIANTS
    SavesOnWhatWasOpened
    SnapshotsAreWhole
    RecordsTellTheTruth
    WalksWhatWasGenerated
CHECK_DEADLOCK FALSE
