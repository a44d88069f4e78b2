SPECIFICATION Spec
CONSTANTS
    o1 = o1
    o2 = o2
    p1 = p1
    p2 = p2
    s1 = s1
    s2 = s2
    reg = reg
    Zero = Zero
    Registry = reg
    Owners = {o1, o2}
    Payers = {p1, p2}
    Signers = {s1}
    ExternalIds <- ExternalOne
    MaxMint = 1
    MaxNonce = 1
    Depths = {2}
    Chunks <- MCChunks
    MinBucketDepth = 1
    Word = 256
    GraceBlocks = 3
    BzzPermitExpiry = TRUE
    HasPermit = TRUE
    Prices = {1}
    Validities = {1}
    Ttls = {0}
    MaxNow = 1
    Grants = {12}
    PermitExpiries = {}
    Deposits = {12}
    MaxBalance = 12
    ExternalFunds = {1}
    MaxRemaining = 2
    Pauses = {}
    BzzPauses = {}
SYMMETRY Swapped
INVARIANTS
    ActiveSetConsistent
    NextIdsAreFree
PROPERTIES
    NonInterference
    ImplementsLedger
    TriggersSettle
