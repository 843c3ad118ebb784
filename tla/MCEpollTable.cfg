CONSTANTS
    Fds = {f1, f2}
    Nothing = nothing
    CacheSize = 3
SYMMETRY Symmetry
SPECIFICATION Spec
INVARIANTS NoDangling DupsOwned WriteRequestKept
PROPERTIES RemovedSilent
