CONSTANTS
    h1 = h1
    h2 = h2
    Handlers <- MCHandlers
    Requests <- Service
    Hash <- MCHash
    SLOT_COUNT = 2
    MAX_KEY_LEN = 2
    MAX_VALUE_LEN = 1
    MaxUnread = 0
SPECIFICATION KvSpec
INVARIANTS
    KvTypeOK
    StoredKeysAreFound
PROPERTIES
    ImplementsMap
    GetsAreTrue
