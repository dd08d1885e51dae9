SPECIFICATION Spec
CONSTANTS
    c1 = c1
    c2 = c2
    vault = vault
    floor = floor
    stairs = stairs
    NoCandidate = NoCandidate
    NotBuilt = NotBuilt
    Omitted = Omitted
    NoLock = NoLock
    NoPackage = NoPackage
    Candidates <- Two
    SiteOutputs <- MCSiteOutputs
    ThemedOutputs <- JustWhole
    ShellOutputs <- MCShellOutputs
    LayerSets <- MCLayerSets
    MaxRuns = 1
    MaxCommands = 3
SYMMETRY Symmetry
INVARIANTS
    ShipsWhatWasLocked
    PiecesFollowTheSelection
    NothingBlockedShips
CHECK_DEADLOCK FALSE
