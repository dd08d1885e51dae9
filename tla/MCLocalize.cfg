SPECIFICATION Spec
CONSTANTS
    Name <- MCName
    Inputs <- MCInputs
    ClassOf <- MCClassOf
    Drives <- MCDrives
    Listed <- MCListed
    Quoted <- MCQuoted
    WalkScenes <- MCWalkScenes
    Layers <- MCLayers
    SkinReads <- MCSkinReads
    Hashed <- MCHashed
    MaxPasses = 5
INVARIANTS
    CleanReportIsClean
    KeepsItsFile
    KeepsItsOwn
    StaysClosed
CHECK_DEADLOCK FALSE
