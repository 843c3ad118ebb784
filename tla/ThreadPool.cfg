CONSTANTS
    NumWorkers = 2
    Clients = {c1, c2}
    Tasks = {a, b, m, n}
    Nested = {m, n}
    NoTask = none
    NoOne = nobody
SPECIFICATION Spec
INVARIANTS WorkersAccounted TasksConserved NoSleepOnTask
PROPERTIES TaskRuns
CHECK_DEADLOCK FALSE
