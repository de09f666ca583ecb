SPECIFICATION KernelSpec
CONSTANTS
    MAX_PAGES = 5
    MEMORY_START = 1
    NTABLES = 2
    ENTRIES = 2
    FRAMES = 8
    FlagFrames = {0, 6}
    WithFlags <- BitOr
    MAX_IPC_QUEUE = 3
    IPC_MAX_DATA_SIZE = 1
    Messages = {m1, m2, m3}
    NoMessage = NoMessage
    Processes = {1, 2}
INVARIANTS AllocFailsOnlyWhenFull NoPageSharedOrLost PagingSafe NothingLostOrDuplicated
PROPERTIES RefusedOnlyWhenFull ImplementsRelayQueue
