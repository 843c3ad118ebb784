CONSTANTS
    Fds = {f1, f2}
    InPlace = FALSE
    Nothing = nothing
    MaxGen = 4
SYMMETRY Symmetry
SPECIFICATION Spec
INVARIANTS TableMatches ArmedAsAsked DupsOwned
PROPERTIES NoStaleCallback
