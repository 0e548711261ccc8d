SPECIFICATION FairSpec
CONSTANTS
    MaxRegions = 2
    MaxKey = 2
    MaxVersions = 3
    MaxCrashes = 1
INVARIANTS
    TypeOK
    NoMetaPanic
    MetaMatches
    DiskDisjoint
    MemberSurvives
 
CHECK_DEADLOCK FALSE
