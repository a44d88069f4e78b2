SPECIFICATION SSpec
CONSTANTS
    o1 = o1
    o2 = o2
    p1 = p1
    p2 = p2
    s1 = s1
    s2 = s2
    reg = reg
    Zero = Zero
    Registry = reg
    Owners = {o1}
    Payers = {p1}
    Signers = {s1}
    ExternalIds <- ExternalOne
    MaxMint = 1
    MaxNonce = 1
    Depths = {2, 3}
    Chunks <- MCChunks
    MinBucketDepth = 1
    Word = 256
    GraceBlocks = 2
    BzzPermitExpiry = TRUE
    HasPermit = TRUE
    Prices = {1, 2}
    Validities = {0}
    Ttls = {0}
    MaxNow = 3
    Grants = {8}
    PermitExpiries = {}
    Deposits = {16}
    MaxBalance = 32
    ExternalFunds = {1}
    MaxRemaining = 4
    Pauses = {}
    BzzPauses = {}
INVARIANTS
    PromisesAreKept
    PromisesAreCovered
PROPERTIES
    ChargeBuysRunway
    ImportLeavesRunway
