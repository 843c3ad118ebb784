CONSTANTS
    Fds = {f1, f2}
    InPlace = TRUE
    Nothing = nothing
    MaxGen = 4
SYMMETRY Symmetry
SPECIFICATION Spec
INVARIANTS RunningKept
