SPECIFICATION Spec
CONSTANTS
    SegIds = {1}
    Revisions = {1, 2}
    Orders = {1}
    Pages = {1, 2}
    Lifetimes = {1, 2}
    Verdicts = {TRUE}
    MaxGeneration = 1
    MaxInFlight = 2
    MaxQueued = 2
    MaxWaiting = 2
    MaxManaged = 3
    MaxRetryQueued = 1
    MaxRetryInFlight = 1
    StaleAge = 2
    MinRemaining = 1
INVARIANTS
    FreshRevisionKeepsItsRetry
