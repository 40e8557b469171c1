SPECIFICATION FairSpec
CONSTANTS
    SegIds = {1, 2, 3}
    Revisions = {1}
    Orders = {1, 2}
    Pages = {}
    Lifetimes = {}
    Verdicts = {}
    MaxGeneration = 1
    MaxInFlight = 1
    MaxQueued = 1
    MaxWaiting = 1
    MaxManaged = 2
    MaxRetryQueued = 1
    MaxRetryInFlight = 1
    StaleAge = 2
    MinRemaining = 1
INVARIANTS
    TypeOK
    QueuesBounded
    NoSegmentStranded
PROPERTIES
    RetiredForGood
    WaitingSettles
    QueuedJobsLeave
