SPECIFICATION CodecSpec
CONSTANTS
    Conversations <- MCConversations
    MaxFrameBytes = 6
    TagBytes = 1
    MaxIOSize = 9
    Alignment = 4
    ChunkOverhead = 6
    MaxResponses = 2
    SizeMax = 998
    Tasks <- MCTasks
    Characters <- MCCharacters
    TextLength = 9
    MaxDepth = 1
    FragmentBytes = 6
    Characteristics = {"on", "level", "count", "delta", "heat", "name", "blob", "button"}
    UnknownTLV <- MCUnknownTLV
    StringBytes = {1, 10, 34, 65, 92, 110, 127, 128, 144, 160, 191, 193, 194, 224, 237, 240, 244, 245}
    StringLength = 3
    Attributes <- MCAttributes
    Bits <- MCBits
    Aid = 1
    Iid <- MCIid
    UUID <- MCUUID
    MaxLength <- MCMaxLength
    Infinity = 99999
    Byte <- MCByte
    UIntMax = 127
    IntMax = 63
    SmallMin <- MCSmallMin
    NumberBytes = 6
    MaxTTL = 100
    Precision = 4
    MinExponent <- MCMinExponent
    MaxExponent = 7
    MaxMantissa = 1000
    MinExp10 <- MCMinExp10
    MaxExp10 = 2
    MinFixed <- MCMinFixed
    MaxFixed = 1
    RequestParts <- MCRequestParts
    PipeSize = 6
    MaxContext = 3
    CharIsSigned = TRUE
    MaxTime = 2
    MaxStreams = 2
    Inodes = {1, 2, 3, 4, 5, 6, 7, 8, 9, 10}
    Parts = 2
    Capacity = 3
    MaxPairings = 2
    MaxCN = 2
    MaxMade = 6
INVARIANTS StoreOutlivesCrashes CallbacksAreInOrder RequestsAreUnderstood RequestsInOrder ValuesSurvive TLVsStayReadable ContentLengthExact DatabaseIsWhole
CHECK_DEADLOCK FALSE
