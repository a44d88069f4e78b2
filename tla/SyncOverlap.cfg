SPECIFICATION Spec
CONSTANTS
    registryEvent = registryEvent
    bzzTransfer = bzzTransfer
    first = first
    second = second
    Types = {registryEvent, bzzTransfer}
    Transfer = bzzTransfer
    Procs = {first, second}
    Genesis = 1
    MaxBlock = 2
    ChunkSize = 1
    ToBlocks = {1}
    OnlyFinal = TRUE
    MaxCrashes = 2
    NoHead = NoHead
    Torn = Torn
    NoEntry = NoEntry
INVARIANTS
    StoreCoversHead
