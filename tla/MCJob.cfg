SPECIFICATION JobFairSpec
CONSTANTS
    wide = wide
    slim = slim
    index_json = index_json
    mesh = mesh
    report = report
    None = None
    leader = leader
    c1 = c1
    c2 = c2
    Fingerprint <- FingerprintMC
    File <- FileMC
    Plan <- PlanMC
    Blocking <- BlockingMC
    JobSpecs <- JobSpecsMC
    MaxRuns = 3
    Plans <- PlansMC
    Widths <- WidthsMC
    Advisory = FALSE
    Child <- ChildMC
    HasTimeout = TRUE
INVARIANTS
    SuccessIsExact
    FailureLeavesOut
    ReplayGradesAsBuilt
    CacheHonest
    LogInPlanOrder
    AloneIsAlone
    NothingLeftRunning
    OutcomeHonest
PROPERTIES
    EveryRunEnds
    StopReturns
