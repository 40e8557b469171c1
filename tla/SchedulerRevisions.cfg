SPECIFICATION Spec
CONSTANTS
    SegIds = {1, 2}
    Revisions = {1, 2}
    Orders = {1}
    Pages = {}
    Lifetimes = {1}
    Verdicts = {TRUE}
    MaxGeneration = 2
    MaxInFlight = 2
    MaxQueued = 2
    MaxWaiting = 1
    MaxManaged = 3
    MaxRetryQueued = 2
    MaxRetryInFlight = 1
    StaleAge = 1
    MinRemaining = 2
CONSTRAINT MCOutlived
INVARIANTS
    JobsAreCurrent
    SlotsBounded
    OneRetryQueued
PROPERTIES
    DispatchedOnce
    TextNeverGoesBack
    RetriesYield
