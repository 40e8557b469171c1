SPECIFICATION Spec
CONSTANTS
    SegIds = {1}
    Order <- MCInOrder
    Configs <- MCConfigs
    MaxRevision = 2
    Explored <- MCOneRevised
    MaxPages = 1
    MaxGeneration = 1
    MaxInFlight = 1
    MaxQueued = 1
    MaxWaiting = 1
    MaxManaged = 1
    MaxRetryQueued = 1
    MaxRetryInFlight = 1
    MaxChunks = 2
    MinPage = 1
    StaleAge = 1
    Lifetime = 2
    MinRemaining = 1
    MaxRecent = 1
PROPERTY
    RetryLivesWithItsPage
