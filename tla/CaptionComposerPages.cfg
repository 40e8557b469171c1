SPECIFICATION FairSpec
CONSTANTS
    SegIds = {1, 2}
    Order <- MCInOrder
    Configs <- MCTwoConfigs
    MaxRevision = 1
    MaxPages = 2
    MaxManaged = 2
    MaxWaiting = 2
    MaxChunks = 2
    MinPage = 1
    StaleAge = 1
    Lifetime = 2
PROPERTIES
    PageKeepsMinimum
    CaptionLeaves
    WaitingSettles
