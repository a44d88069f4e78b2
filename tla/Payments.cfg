SPECIFICATION Spec
CONSTANTS
    o1 = o1
    o2 = o2
    p1 = p1
    p2 = p2
    s1 = s1
    s2 = s2
    reg = reg
    Zero = Zero
    Registry = reg
    Owners = {o1}
    Payers = {p1}
    Signers = {s1, s2}
    ExternalIds <- ExternalOne
    MaxMint = 1
    MaxNonce = 1
    Depths = {1, 2, 5}
    Chunks <- MCChunks
    MinBucketDepth = 1
    Word = 64
    GraceBlocks = 4
    BzzPermitExpiry = TRUE
    HasPermit = TRUE
    Prices = {1}
    Validities = {1, 5}
    Ttls = {0, 2}
    MaxNow = 3
    Grants = {16}
    PermitExpiries = {1}
    Deposits = {32}
    MaxBalance = 32
    ExternalFunds = {1}
    MaxRemaining = 4
    Pauses = {TRUE}
    BzzPauses = {TRUE}
INVARIANTS
    TypeOK
    RegistryHoldsNothing
    TriggerRevertsOnlyOnFaults
PROPERTIES
    TriggerRetiresForCause
