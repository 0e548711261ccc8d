SPECIFICATION Spec
CONSTANTS
    MaxIndex = 9
    MaxTerm = 6
    MaxStops = 2
    MaxCacheCapacity = 2
    ShortSnaps = FALSE
    EmptySnaps = FALSE
    PromptIngest = TRUE
INVARIANTS
    TypeOK
    ReadsMatchLog
    DataMatchesApplyState
    NeverStuck
PROPERTIES
    DurableLogSpec
