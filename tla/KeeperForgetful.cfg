SPECIFICATION Spec
CONSTANTS
    v1 = v1
    v2 = v2
    v3 = v3
    Volumes = {v1, v2}
    Selected <- SelectOne
    PageSize = 1
    Limits = {1, 2}
    MaxPool = 2
    Forgets = TRUE
    NoNonce = NoNonce
INVARIANTS
    OkMeansMaintained
