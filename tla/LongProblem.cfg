SPECIFICATION Spec
CONSTANTS
    Endpoints = 2
    MaxVolumes = 2
    HeaderLines = 5
    TailLines = 1
    MaxLength = 14
    Deployments <- SomeDeployments
    Interval = 16
    ProbeTimeout = 1
    Request = 1
    CycleTimeout = 6
    ReceiptTimeout = 3
    AlertTimeout = 1
    KeepsFailovers = FALSE
INVARIANTS
    MessagesFit
