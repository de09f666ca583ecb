SPECIFICATION Spec
CONSTANTS
    page_table_size = 2
    SwapDevices = {2, 3, 4}
    SwapAddresses = {0, 2, 3}
    SwapVersions = {1, 2}
    MaxSeconds = 1
    h1 = h1
    h2 = h2
    h3 = h3
    Hosts = {h1, h2, h3}
    MacOf <- Macs
    XidOf <- Macs
    MAX_LEASES = 1
    PoolSizes = {1, 2}
    MaxRestarts = 1
    NDirect = 1
    PtrsPerBlock = 2
    NefsDevices = {5}
    Inodes = {0, 1, 2}
    InodesPerBlock = 2
    TableBlocks = 1
    MaxWrites = 3
    MAX_SERVICES = 2
    Capacity = 2
    Clients = {2, 3}
    Documented = {3}
    ServiceIds = {1, 2}
    MaxRequests = 3
    IPC_QUEUE_SIZE = 3
    MAX_MESSAGES = 5
    KernelRequests = 2
    HtKeys = {1, 2, 3, 4}
    HtVersions = {1, 2}
    Hash1 <- StartSlots
    Hash2 <- Increments
    HtAnnounced = {1, 3}
    LoadShare = 4
    OutJobs = {"A", "R", "B"}
    SubJobs = {"B"}
    RecursiveJob = "R"
    LinesOf <- TwoLines
    OutModes = {"line", "target", "recurse"}
    MaxFaults = 1
    EcOps = {"malloc", "free", "realloc", "open", "close", "read", "register", "unregister", "stat", "access", "getcwd", "fork", "getppid", "pipe", "time", "window", "text"}
    Addresses = {1, 2}
    MaxEcCalls = 3
    MaxEcFaults = 2
    EnvNames <- EnvNameSet
    EnvValues <- EnvValueSet
    ServiceNames = {"s1", "s2", "s3"}
    MAX_EC_SERVICES = 2
    MaxServiceIds = 4
    UtilTexts = {1, 2}
    UtilLen = 5
    WORD = 8
    CellContents <- FileCells
    HeaderAsEntry <- HeaderCell
    UnsetWords = {1, 7}
    MaxCells = 3
    MaxFileSteps = 4
    ScStrings = {1, 2, 3, 4, 5, 6}
    ScLength <- StringLengths
    BUFSIZE = 6
    FullAfter = 2
    USHRT_MAX = 9
    MaxHuge = 2
INVARIANTS SwapCorrect DhcpCorrect NefsCorrect RegistryCorrect BootCorrect TablesCorrect OutputCorrect UserSpaceCorrect
PROPERTIES LookupStable OutputEnds
CHECK_DEADLOCK FALSE
