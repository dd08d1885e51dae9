SPECIFICATION Spec
CONSTANTS
    r1 = r1
    r2 = r2
    r3 = r3
    l1 = l1
    l2 = l2
    NoSlot = NoSlot
    NoArgument = NoArgument
    Slots <- MCSlots
    Arguments <- MCLevels
    LongOps <- MCLongOps
    QuickOps <- MCQuickOps
    MayNotStart = TRUE
    MaxClicks = 3
    MaxRestarts = 1
SYMMETRY Symmetry
INVARIANTS
    AnswersItsOperation
CHECK_DEADLOCK FALSE
