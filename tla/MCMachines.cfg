CONSTANTS
    Frames <- SomeFrames
    MaxFrames = 3
    MaxPayload = 2
    MaxControl = 1
    Compression = TRUE
    Limit = 3
    Chunk = 2
    PipeSize = 2
    InputSize = 2
    Dispatchers = {d1, d2}
    Sessions = {s1, s2}
    NoPty = NoPty
    MaxTerminals = 1
    Dialers = {d1}
    Hosts = {h1, h2}
    Addresses <- SomeAddresses
    Servers = 2
    CacheSize = 1
    Ttl = 2
    LastMoment = 2
    Targets <- SomeTargets
    Entries <- SomeEntries
    MaxEntries = 2
    MaxHead = 2
    Bits = 2
    Endpoints <- SomeEndpoints
    WsPaths <- SomePaths
    WsTokens <- SomeTokens
    WsKeys = {"k1", "k2"}
    Replies <- SomeReplies
    MaxHeadSize = 15
    ShortSize = 3
    WordSize = 6
    MaskChunk = 4
    Masks <- SomeMasks
    WsPayloads <- SomePayloads
    MaxSends = 2
    MaxBody = 2
    MaxLines = 2
    MaxResponse = 11
    ResponseLimit = 1
    GithubOrigins = {"github", "api"}
    RunningVersions <- SomeRunning
    Wants <- SomeWants
    ReleaseLists <- SomeReleases
    ServerPages <- SomePages
    Numbers <- SomeNumbers
    Canonical = {"0", "1", "2"}
    MaxRedirects = 2
    MaxHeaders = 9
    LimitOf <- SomeLimits
    Messages <- SomeMessages
    Policies <- SomePolicies
    HighLatency = 2
    Retransmission = 1
    MaxRetries = 2
    MaxHops = 3
    MaxAddresses = 2
    Slow = 4
    w1 = w1
    w2 = w2
    Workers = {w1, w2}
    Trees <- SomeTrees
    Requests <- SomeRequests
    Stage = "stage"
    Mount = "m"
    MaxResults = 1
    MaxChunk = 2
    MaxPosts = 2
    MaxDepth = 3
    MaxArgs = 2
    Nics = {n1, n2}
    Width = 4
    DaysPerMonth = 2
    RotateDays = {0, 2}
    LastDay = 4
    MaxMoves = 2
    MaxUpsets = 1
    MaxTokens = 9
    MaxNesting = 2
    Levels = 2
    BufferSize = 11
    Inputs <- SomeInputs
    Compressed <- SomeStreams
    Window = 9
    ChainLimit = 2
    Enough = 32
    Buckets = 4
    ChecksumSize = 9
    MaxInflate = 300
    NicPatterns <- SomePatterns
    NicNames <- SomeNames
    BuiltIn <- SomeBuiltIn
    Alphabet <- SomeAlphabet
    MaxPatterns = 1
    Mounts <- SomeMounts
    MaxMounts = 3
    MaxDisks = 2
    SomeFilters <- SomePathLists
    Pages <- SomeBodies
    NicKinds <- SomeNicKinds
    MaxNics = 2
    NicLists <- SomeNicLists
    Plain4 = 1
    Trace4 = 1
    Services6 = 1
    PageLimit = 20
    CounterLimit = 256
SPECIFICATION Spec
INVARIANTS
    TypeOK MemoryBounded CaptureExact NothingLeft SlotsAccounted
    ConnectionsSound TextsSound ResponseWhole MeasuredOnce TrafficAccounted TasksAnswered FilesKept LayersResolve
PROPERTIES
    ImplementsMessageStream
CHECK_DEADLOCK FALSE
