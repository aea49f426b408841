SPECIFICATION AllSpec
CONSTANTS
    Wrap = 6
    MaxNalBytes = 4
    Totals = {1, 2, 3, 5}
    Delay = 3
    FrameLimit = 5
    MaxPackets = 9
    MaxBuffers = 2
    MaxBytes = 7
    StartCode = 1
    UnitSizes = {1, 3}
    FrameSlots = 2
    CounterWrap = 8
    MaxUnits = 5
    QueueCapacity = 2
    MaxMessages = 2
    MaxPlays = 2
    MaxPauses = 1
    Endings = {"stop", "shutdown", "drop", "dropOutsideRuntime"}
INVARIANTS
    ReassemblyIsExact
    EncodedQueueIsBounded
    NoUnitIsSkipped
    WorkersAreJoined
    FirstFailureWins
PROPERTIES
    FailureStopsStream
    EndingsReturn
