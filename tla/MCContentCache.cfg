SPECIFICATION Spec
CONSTANTS
    f1 = f1
    f2 = f2
    a = a
    b = b
    c = c
    w1 = w1
    w2 = w2
    None = None
    Fingerprint <- FingerprintMC
    Content <- ContentMC
    Outputs <- OutputsMC
    Worker <- WorkerMC
    MaxLookups = 3
    MaxUpkeep = 2
SYMMETRY WorkerSymmetry
INVARIANTS
    ManifestHasBlobs
PROPERTIES
    HitIsWhole
    PruneTakesUnreferenced
CHECK_DEADLOCK FALSE
