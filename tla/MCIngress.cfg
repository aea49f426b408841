\* Chunks of three keys at the limits; two LiDAR workers, jobs of three epochs.
SPECIFICATION IngressSpec
CONSTANTS
    Keys = {k1, k2, k3}
    Schemas = {data, file}
    Payloads <- SomePayloads
    Numbers = {0, 1, 2, 3, 4}
    MaxChunks = 3
    MaxTransferBytes = 3
    MaxTransfers = 2
    MaxRetainedBytes = 4
    Nobody = Nobody
    Workers = {w1, w2}
    JobCapacity = 1
    EventSlots = 2
    MaxEpoch = 2
    MaxHandles = 2
    MaxText = 20
    MaxNodes = 6
    MaxDepth = 2
    MaxBytes = 10
    NodeBytes = 1
    MediaQuota = 16
    MaxUsize = 100
    MaxHeader = 4
    MaxWireId = 3
    ByteBits = 2
    RowBytes = 2
    SliceBytes = 4
    MaxPoints = 6
    MaxBitmap = 5
    MaxF32 = 8
    MaxF64 = 40
    MaxPicture = 18
    Block = 4
    Overhead = 2
    Interval = 2
    MaxChunkBytes = 3
    Error = Error
INVARIANTS
    CompletedIsWhole
    KeptCanComplete
    EpochsInOrder
    BudgetsAreExact
    ConversionsAgree
PROPERTY
    NothingIsKeptForever
