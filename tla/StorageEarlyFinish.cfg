SPECIFICATION Spec
CONSTANTS
    MaxIndex = 8
    MaxTerm = 6
    MaxStops = 1
    MaxCacheCapacity = 2
    ShortSnaps = FALSE
    EmptySnaps = FALSE
    PromptIngest = FALSE
INVARIANT
    DataMatchesApplyState
