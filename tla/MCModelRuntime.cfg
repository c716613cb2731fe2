CONSTANTS
    N = 3
    NumSlots = 2
    Words = {1, 2}
    ImagePad = 9
    ImageToken = 8
    Prompts <- SomePrompts
    Block = 2
    MaxLen = 5
    VocabSize = 16000000
    MaxNgram = 4
    NumHeads = 8
    NumEmbeddings <- Sealed
    TrialBound = 4010
    NumRows = 3
    TP = 4
    Layouts = {"device", "shared", "private"}
    LocalRows <- Prepared
    MaxIds = 1
    NumFiles = 4
    MaxWorkers = 2
    LocalRanks = 2
    Threads = 1
    Loader = {p1, p2}
    Shards = {s1, s2}
    MaxDeaths = 2
    NumLanes = 2
    PageSize = 4
    IndexPage = 1
    NumPages = 2
    RingSize = 2
    DraftLen = 2
    MaxTokens = 6
    MaxChunk = 3
    MaxPad = 1
    MaxBlocks = 1
    MaxLives = 1
    NumRequests = 2
    MaxRows = 4
    TailLen = 2
    CpSizes = {1, 2, 3}
    Ratio = 2
    GraphSizes = {1, 2}
    DraftSteps = 3
    LiveBatches = {"b1", "b2"}
    MaxWarmups = 1
SPECIFICATION RuntimeSpec
INVARIANTS
    HashedWithOwnText
    StoreHoldsColumns
    LookupIsOwnersRow
    ShardsArrive
    LoadsWholeModel
    EveryRowAttendsOwnPairs
    TailServedWithItsOwn
    ReplayReadsItsBatch
CHECK_DEADLOCK FALSE
