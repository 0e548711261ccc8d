SPECIFICATION Spec
CONSTANTS
    Cmds = {a, x}
    Confs = {x}
    NilCbs = {}
    Barriers = {}
    Noop = Noop
    Foreign = Foreign
    RemoveMe = RemoveMe
    ForeignCmds = {Noop, RemoveMe}
    SnapIndexes = {}
    MayGC = FALSE
    a = a
    x = x
    MaxIndex = 3
    MaxTerm = 2
CHECK_DEADLOCK FALSE
INVARIANT
    AbortedConfChangeSkipped
