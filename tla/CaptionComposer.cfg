SPECIFICATION Spec
CONSTANTS
    SegIds = {1, 2, 3}
    Order <- MCOrder
    Configs <- MCOneConfig
    MaxRevision = 2
    MaxPages = 1
    MaxManaged = 3
    MaxWaiting = 2
    MaxChunks = 2
    MinPage = 1
    StaleAge = 1
    Lifetime = 1
INVARIANTS
    TypeOK
    DisplayOwnsSlot
    ReplacementsAnchored
    WindowFollowsSlot
PROPERTIES
    ShownTextNeverGoesBack
    CaptionsInOrder
    ReplacedCaptionStays
