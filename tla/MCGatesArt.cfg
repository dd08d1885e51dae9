SPECIFICATION Spec
CONSTANTS
    c1 = c1
    c2 = c2
    vault = vault
    floor = floor
    stairs = stairs
    NoCandidate = NoCandidate
    NotBuilt = NotBuilt
    Omitted = Omitted
    NoLock = NoLock
    NoPackage = NoPackage
    Candidates <- One
    SiteOutputs <- JustWhole
    ThemedOutputs <- WholeOrGrounded
    ShellOutputs <- MCShellOutputs
    LayerSets <- MCLayerSets
    MaxRuns = 1
    MaxCommands = 2
SYMMETRY Symmetry
INVARIANT ArtKeepsTheLock
CHECK_DEADLOCK FALSE
