SPECIFICATION PlannerSpec
CONSTANTS
    Missions = {1, 2}
    Candidates = {1, 2}
    Buildings = {11, 12, 13}
    None <- MCNone
    NoAsk = NoAsk
    Site <- MCSite
    BatchName = 0
    Graphs <- MCGraphs
    Asks <- MCAsks
    Before <- MCBefore
    Pairs = {{"art", "light", "gameplay"}, {"art"}, {}, {"gameplay"}}
    FamilyOf <- MCFamilyOf
    Briefs <- BriefsOK
INVARIANTS
    OrderRespectsDeps
    RefusesOnlyCycles
    PlansAreOrdered
    DeliverableHasItAll
    AsVariedAsCanBe
    HolesAsWanted
CHECK_DEADLOCK FALSE
