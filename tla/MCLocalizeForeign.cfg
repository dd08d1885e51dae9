SPECIFICATION Spec
CONSTANTS
    Name <- MCName
    Inputs <- Foreign
    ClassOf <- MCClassOf
    Drives <- MCDrives
    Listed <- MCListed
    Quoted <- MCQuoted
    WalkScenes <- MCWalkScenes
    Layers <- MCLayers
    SkinReads <- MCSkinReads
    Hashed <- MCHashed
    MaxPasses = 5
INVARIANTS
    ShipsSelfContained
CHECK_DEADLOCK FALSE
