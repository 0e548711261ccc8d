SPECIFICATION FairSpec
CONSTANTS
    Procs = {p1, p2, p3}
    Hashes = {1, 2, 3}
    NoProc = NoProc
    p1 = p1
    p2 = p2
    p3 = p3
INVARIANTS
    TypeOK
    SlotsAreOwned
    MutualExclusion
    WaitsUpwards
PROPERTY
    Progress
