CONSTANTS
    TsThreads = {m, a, b}
    TsMain = m
    TsInlines = {i, j}
    TsPages = {p, q}
    TsNone = none
    TsLogCPUs = 1
    TsForkAfterJoin = FALSE
    OutThreads = {m, a, b}
    OutMain = m
    OutCapacities = {0, 9}
    OutMaxSteps = 3
    OutOptimized = {TRUE, FALSE}
    CvThreads = {m, a, b}
    CvMain = m
    CvMaxCalls = 2
    CvOptimized = {TRUE, FALSE}
    BhProcs = {m, a, b}
    BhMain = m
    BhHeaps = {1, 2}
    BhChunks = 3
    BhSlots = 2
    BhAllRefill = FALSE
    HpPage = 64
    HpChunk = 256
    HpBase = 8
    HpEnd = 800
    HpSizes = {12, 60, 100}
    HpMaxLive = 2
    XcWords = {0, 1}
    XcAbovePbos = 1
    XcMaxDepth = 5
    XcMaxStackSize = 3
    XcFrame = 3
    IoProcs = {m, a}
    IoMain = m
    IoFds = {f, g}
    IoSockets = {g}
    IoMaxWrites = 2
    IoOptimized = {TRUE, FALSE}
    DlRequests = {20, 2000, 140000}
    DlGroups <- TunedGroups
    DlAlignments = {64}
    DlOptions <- TunedOptions
    DlForeign = {4104}
    DlBase = 1048576
    DlBreakLimit = 1200000
    DlMapLow = 4194304
    DlMapHigh = 5500000
    DlMaxLive = 4
    DlMaxSteps = 4
    TrAddresses = {1, 2, 3, 4}
    TrSizes = {24, 32, 40}
    AofSizes = {8, 16, 32}
    AofEnd = 96
    AofThreshold = 64
    MhThreads = {a, b}
    MhPages = 3
    MhSizes = {1, 2}
    MhBins = 2
    MhNone = none
    LhSizes = {8, 72, 135160}
    LhEnd = 320
    LhSlack = 0
    LhMmapAbove = 131072
    LhMaxMapped = 1
    LhMaxSteps = 8
    LhBefore = {0, 8}
    ObSizes = {12, 24}
    ObChunkSize = 48
    ObEnd = 280
    ObMaxHeld = 2
    AsThreads = {a, b}
    AsOwner = a
    AsChunks = {i, j}
    AsSlots = 2
    AsMaxFree = 0
    AsLocked = TRUE
    AsNone = none
    LsChunks = {i, j, a}
    LsSlots = 3
    LsFraction = 2
    LsSlack = 6
    HlThreads = {a, b, m}
    HlMain = m
    HlNone = none
    HlMaxDepth = 3
    WsThreads = {a, b}
    WsSizes <- WinSizes
    WsPage = 2
    WsGranule = 4
    WsGranules = 5
    WsMaxBytes = 10
    WsNone = none
    RsReserve = 12
    BsBits = 40
    BsLengths = {9, 20}
    BsAlignments = {1, 8}
    OrReaps = {i, j, p, q}
    OrNone = none
    OrSizes = {40}
    OrMaxObjects = 6
    OrMaxSize = 80
    NhHeaps = {a, b, i, j}
    NhNull = none
    FlObjects = 4
    FlSizes = {1, 2}
    FlBatch = 2
    BlSizes = {5, 24}
    BlChunk = 32
    BlSlop = 16
    BlArena = 64
    BlEnd = 88
SPECIFICATION Spec
CHECK_DEADLOCK FALSE
INVARIANTS
    JoinGetsResult
    FirstWritesInOrder
    TouchingOutputIsSequential
    OneWaitPerSignal
    ObjectsGivenOnce
    OnlyMovedObjectsCollide
    WritesReachTheFile
    MallocStateChecks
    ObjectsIntact
    AccountsAddUp
    TreapFindsBestFit
    AofListIsCoalesced
    HeldRegionsRecorded
    BoundaryTagsAgree
    ObjectsKeepTheirPlace
    BitmapsMatchSlots
    ChunksSortedByFullness
    OneThreadInside
    BytesStayCommitted
    BitsMatchRuns
    ReapsStackUp
    ClearReachesAllBelow
    FreedObjectsInOrder
    RoomStaysKnown
PROPERTIES
    RollbackRestores
    AsksSystemLast
    MallocedChunkChecks
