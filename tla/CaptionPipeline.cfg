SPECIFICATION Spec
CONSTANTS
    SegIds = {1, 2, 3}
    Order <- MCInOrder
    Configs <- MCConfigs
    MaxRevision = 2
    Explored <- MCExplored
    MaxPages = 2
    MaxGeneration = 1
    MaxInFlight = 1
    MaxQueued = 1
    MaxWaiting = 2
    MaxManaged = 2
    MaxRetryQueued = 1
    MaxRetryInFlight = 1
    MaxChunks = 2
    MinPage = 1
    StaleAge = 1
    Lifetime = 2
    MinRemaining = 1
    MaxRecent = 1
INVARIANTS
    TypeOK
    StatesAgree
    MetadataReclaimable
PROPERTIES
    CorrectionInPlace
    JobsStayAgreed
