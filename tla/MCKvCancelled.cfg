CONSTANTS
    h1 = h1
    h2 = h2
    Handlers <- MCHandlers
    Requests <- PutGet
    Hash <- MCHash
    SLOT_COUNT = 3
    MAX_KEY_LEN = 2
    MAX_VALUE_LEN = 1
    MaxUnread = 2
SPECIFICATION KvSpec
PROPERTY GetsAreTrue
