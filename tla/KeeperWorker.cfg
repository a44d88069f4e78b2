SPECIFICATION Spec
CONSTANTS
    Endpoints = 2
    MaxVolumes = 3
    HeaderLines = 5
    TailLines = 1
    MaxLength = 14
    Deployments <- SomeDeployments
    Interval = 16
    ProbeTimeout = 1
    Request = 1
    CycleTimeout = 6
    ReceiptTimeout = 2
    AlertTimeout = 1
    KeepsFailovers = FALSE
INVARIANTS
    WorkerTypeOK
    OneRunSends
    RunsEndInTime
    QuietRunsAreClean
    DeferredVolumesAreCounted
    NoAlertIsLost
    AlertsFit
