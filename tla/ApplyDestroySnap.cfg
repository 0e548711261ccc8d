SPECIFICATION Spec
CONSTANTS
    Cmds = {a, x}
    Confs = {x}
    NilCbs = {}
    Barriers = {}
    Noop = Noop
    Foreign = Foreign
    RemoveMe = RemoveMe
    ForeignCmds = {Noop, RemoveMe}
    SnapIndexes = {3}
    MayGC = TRUE
    a = a
    x = x
    MaxIndex = 3
    MaxTerm = 2
CHECK_DEADLOCK FALSE
INVARIANT
    NotDestroyedWhileApplying
