SPECIFICATION Spec
CONSTANTS
    registryEvent = registryEvent
    bzzTransfer = bzzTransfer
    first = first
    second = second
    Types = {registryEvent, bzzTransfer}
    Transfer = bzzTransfer
    Procs = {first}
    Genesis = 1
    MaxBlock = 2
    ChunkSize = 1
    ToBlocks = {2}
    OnlyFinal = FALSE
    MaxCrashes = 0
    NoHead = NoHead
    Torn = Torn
    NoEntry = NoEntry
INVARIANTS
    SameAsResync
