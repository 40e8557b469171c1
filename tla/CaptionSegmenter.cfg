SPECIFICATION Spec
CONSTANTS
    Vocabularies <- MCVocabularies
    Latin <- MCLatin
    Digits <- MCDigits
    MinWidth = 2
    Target = 5
    MaxWidth = 6
    HoldBack = 1
    MaxSource = 7
    MaxSnapshots = 3
    MaxSegments = 2
    StableAge = 1
    OpenAge = 2
    MaxId = 4
INVARIANTS
    TypeOK
    ConsumerAgrees
    TranscriptKept
PROPERTIES
    NothingSaidTwice
    OnlyStableTextCut
    ImplementsFeed
