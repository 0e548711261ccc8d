SPECIFICATION Spec
CONSTANTS
    Cmds = {a, b}
    Confs = {}
    NilCbs = {b}
    Barriers = {a}
    Noop = Noop
    Foreign = Foreign
    RemoveMe = RemoveMe
    ForeignCmds = {Noop, Foreign}
    SnapIndexes = {}
    MayGC = FALSE
    a = a
    b = b
    MaxIndex = 3
    MaxTerm = 3
CHECK_DEADLOCK FALSE
INVARIANTS
    TypeOK
    CallbackConserved
    AckedDurable
    NoFalseFailure
    DiskConsistent
