CONSTANTS
    Updaters = {u1, u2}
    Amounts = {1, 2}
    MaxAbs = 3
SPECIFICATION Spec
INVARIANTS AddedOnce
