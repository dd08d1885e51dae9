SPECIFICATION RunSpec
CONSTANTS
    r1 = r1
    r2 = r2
    NoSlot = NoSlot
    NoArgument = NoArgument
    Slots <- MCSlots
    Arguments = {}
    LongOps = {"walk_level"}
    QuickOps = {"open_design"}
    MaxLines = 2
INVARIANTS
    EventsBeforeTheAnswer
    NoResultIsFinal
PROPERTIES
    StartedIsAnswered
    ImplementsServiceCall
CHECK_DEADLOCK FALSE
