SYMMETRY Symmetry
SPECIFICATION RdowsSpec
CONSTANTS
    Verbs = {"reg_mr", "dereg_mr", "post_atomic", "rdma_write", "rdma_read", "write_local_mr", "poll_cq"}
    MaxLag = 0
    CqCapacity = 1
    SgLists <- SgMemory
    LocalWrites <- OneWrite
    MaxRegions = 2
    MaxTotalBytes = 3
    k1 = k1
    k2 = k2
    U64 = 32
    RKeys <- MCRKeys
    MaxLKey = 2
    CellMod = 2
    PDs = {1}
    Accesses <- MCAccesses
    Lens = {1, 2, 31}
    Offsets = {0, 1}
    Payloads <- MCPayloads
    Operands = {1, 3}
    SeqSpace = 2
    Wrids = {0, 1}
    ICC = 8
    RecvQueueDepth = 1
    MaxOutstandingReads = 1
    MrRegRateLimit = 1
    DefaultMaxMsgSize = 2
    Sizes = {0, 1, 2}
    MaxInFlight = 0
INVARIANTS
    ClientTypeOK
    AnswersPaired
    HandlesAgree
    KeysAgree
    AccountingExact
PROPERTIES
    OkMeansDone
    RegionsKeepTheirShape
CHECK_DEADLOCK FALSE
