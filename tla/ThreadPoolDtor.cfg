CONSTANTS
    NumWorkers = 1
    Clients = {c1}
    Tasks = {a}
    Nested = {}
    NoTask = none
    NoOne = nobody
SPECIFICATION Spec
PROPERTIES DestructorReturns
CHECK_DEADLOCK FALSE
