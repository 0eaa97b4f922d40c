SPECIFICATION RdowsSpec
CONSTANTS
    Verbs = {"reg_mr", "post_send", "rdma_write", "poll_cq"}
    MaxLag = 1
    CqCapacity = 1
    SgLists <- SgReturns
    LocalWrites = {}
    MaxRegions = 1
    MaxTotalBytes = 2
    k1 = k1
    k2 = k2
    U64 = 32
    RKeys = {k1}
    MaxLKey = 1
    CellMod = 2
    PDs = {1}
    Accesses <- MCAccesses
    Lens = {2}
    Offsets = {0}
    Payloads <- MCPayloads
    Operands = {}
    SeqSpace = 4
    Wrids = {0, 1, 2, 3}
    ICC = 8
    RecvQueueDepth = 1
    MaxOutstandingReads = 1
    MrRegRateLimit = 1
    DefaultMaxMsgSize = 2
    Sizes = {0, 1, 2, 3}
    MaxInFlight = 0
PROPERTIES
    SequenceGapCloses
CHECK_DEADLOCK FALSE
