SPECIFICATION FairSpec
CONSTANTS
    Producers = {p1, p2}
    None = None
    Sizes = {1, 2}
    Capacity = 2
    MediaSlots = 1
    ControlBytes = 3
    MediaBytes = 2
    MaxGeneration = 2
INVARIANTS
    BudgetIsExact
PROPERTIES
    ImplementsEventFeed
    DropCompletes
