\* Two readers, two clock ticks, two elections, two entries.
CONSTANTS
    r1 = r1
    r2 = r2
    Readers = {r1, r2}
    MaxLease = 1
    ElectionTimeout = 2
    MaxTime = 2
    MaxTerm = 3
    MaxLog = 2
    AtomicChecks = TRUE
    JoinWhileSuspect = FALSE
    MergedRoles = FALSE

SPECIFICATION Spec
SYMMETRY ReaderSymmetry

INVARIANTS
    TypeOK
    
    
    WaitersQueued
    RemoteWithinLease

\* The clock, the terms and the log are bounded.
CHECK_DEADLOCK FALSE
