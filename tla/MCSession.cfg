SPECIFICATION SessionSpec
CONSTANTS
    MaxRegions = 1
    MaxTotalBytes = 2
    U64 = 32
    RKeys = {7, 8}
    MaxLKey = 2
    CellMod = 2
    PDs = {1, 2}
    Accesses <- MCAccesses
    Lens = {2}
    Offsets = {0, 1}
    Payloads <- MCPayloads
    Operands = {1}
    SeqSpace = 2
    Wrids = {1}
    ICC = 8
    RecvQueueDepth = 2
    MaxOutstandingReads = 1
    MrRegRateLimit = 1
    DefaultMaxMsgSize = 2
    Sizes = {2, 3}
    MaxInFlight = 1
INVARIANTS
    SessionTypeOK
    StoreTypeOK
    ReadOnlyStaysZero
PROPERTIES
    ErrorsChangeOnlyPending
    WriteCompMeansWritten
    MemoryChangesAreAnswered
    StoreUsedAsSpecified
    RkeysNeverReused
CHECK_DEADLOCK FALSE
