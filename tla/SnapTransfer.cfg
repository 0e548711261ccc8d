SPECIFICATION FairSpec
CONSTANTS
    Leaders = {1}
    MaxIndex = 2
    MaxTotal = 1
    MaxFaults = 1
    FreshKeys = TRUE
    TornDelete = FALSE
INVARIANTS
    TypeOK
    
    
    InUseKept
    SizeCovers
 
CHECK_DEADLOCK FALSE
