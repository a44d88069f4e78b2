SPECIFICATION FairSpec
CONSTANTS
    registryEvent = registryEvent
    bzzTransfer = bzzTransfer
    first = first
    second = second
    Types = {registryEvent, bzzTransfer}
    Transfer = bzzTransfer
    Procs = {first}
    Genesis = 1
    MaxBlock = 3
    ChunkSize = 2
    ToBlocks = {1}
    OnlyFinal = TRUE
    MaxCrashes = 2
    NoHead = NoHead
    Torn = Torn
    NoEntry = NoEntry
INVARIANTS
    StoreTypeOK
    EntryComplete
    CopiesNeedCrashes
PROPERTIES
    FinalBlocksAreIndexed
