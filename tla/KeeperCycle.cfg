SPECIFICATION FairSpec
CONSTANTS
    v1 = v1
    v2 = v2
    v3 = v3
    Volumes = {v1, v2}
    Selected <- SelectTwo
    PageSize = 1
    Limits = {1, 2}
    MaxPool = 2
    Forgets = FALSE
    NoNonce = NoNonce
INVARIANTS
    KeeperTypeOK
    OkMeansMaintained
    NoTailIsStarved
PROPERTIES
    DueVolumesAreReached
