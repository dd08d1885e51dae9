SPECIFICATION FairSpec
CONSTANTS
    shellA = shellA
    laserA = laserA
    walkA = walkA
    artA = artA
    shellB = shellB
    laserB = laserB
    skins = skins
    candA = candA
    candB = candB
    None = None
    Job <- JobsMC
    Class <- ClassMC
    Candidate <- CandidateMC
    Deps <- DepsMC
    ClassOf <- ClassOfMC
    CandidateOf <- CandidateOfMC
    Concurrency <- ConcurrencyMC
INVARIANTS
    FailureIsScoped
PROPERTIES
    ImplementsDagRun
    Terminates
