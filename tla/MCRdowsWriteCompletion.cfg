SYMMETRY Symmetry
SPECIFICATION RdowsSpec
CONSTANTS
    Verbs = {"reg_mr", "rdma_write", "write_local_mr", "poll_cq"}
    MaxLag = 2
    CqCapacity = 1
    SgLists <- SgMemory
    LocalWrites <- OneWrite
    MaxRegions = 2
    MaxTotalBytes = 2
    k1 = k1
    k2 = k2
    U64 = 32
    RKeys <- MCRKeys
    MaxLKey = 2
    CellMod = 2
    PDs = {1}
    Accesses <- MCAccesses
    Lens = {1}
    Offsets = {0, 1}
    Payloads <- MCPayloads
    Operands = {1}
    SeqSpace = 4
    Wrids = {0, 1, 2, 3}
    ICC = 8
    RecvQueueDepth = 1
    MaxOutstandingReads = 1
    MrRegRateLimit = 1
    DefaultMaxMsgSize = 2
    Sizes = {0, 1, 2}
    MaxInFlight = 0
PROPERTIES
    WriteCompletesWhenWritten
CHECK_DEADLOCK FALSE
