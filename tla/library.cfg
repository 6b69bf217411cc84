SPECIFICATION Spec
CONSTANTS
    ByteBase = 4
    BitsPerByte = 2
    Buckets <- MCBuckets
    MaxPrecision = 9
    NaN = 99999999
    NanoDigits = 4
    WireScale = 2
    DaySecs = 6
    MinSecs = 2
    Fragments = 3
    Days1900 = 30
    MaxDay = 60
    MaxOffset = 4
    RpcChars = 6
    PlpMax = 30
    VariantMax = 20
    MaxTokenBody = 200
    OffsetBase = 1000
    Pages <- MCPages
    LcidPages <- MCLcidPages
    SortIdPages <- MCSortIdPages
    Columns <- MCColumns
    Broadcast <- MCBroadcast
    Tables <- MCTables
    Fields <- MCFields
    Inputs <- MCInputs
    InputNames <- MCInputNames
    TableTypes <- MCTableTypes
    MaxBound = 2
    Schemas <- MCSchemas
    Descriptor = 5
    ResultSets <- MCResultSets
    MaxTokens = 2
    Layouts <- MCLayouts
    MaxPacket = 3
    PreallocCap = 2
    Nobody = Nobody
    Stranger = Stranger
    Addrs = {a1, a2}
    MaxAddrs = 2
    None = None
    Builds <- MCBuilds
    MaxCalls = 2
    Dicts <- MCDicts
    ExtraCas <- MCExtraCas
    Certificates <- MCCertificates
    NameChars <- MCNameChars
    ValueChars <- MCValueChars
    MaxText = 4
    HeaderBytes = 3
    LengthMax = 7
    Flights <- SmallFlights
    RawBytes = 2
    Faults = {"close", "bad", "empty"}
INVARIANTS
    WrittenFaithfully ReadFaithfully StatementsArrive ResponsesUnderstood NoByteLost
    LookupFaithful TrustRespected HelloArrives TextsKeepMeaning
    InboundFaithful OutboundFaithful FlushedMeansSent NoSpuriousEof
PROPERTIES WaitsEnd HandshakeEnds
CHECK_DEADLOCK FALSE
