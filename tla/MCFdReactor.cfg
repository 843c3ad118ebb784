CONSTANTS
    Backends = {"poll", "epoll"}
    Threads = {t1, t2}
    Reactor = r
    Queues = {q1}
    Callbacks = {c1}
    Removals = {x1, x2}
    RunRemovals = rr
    Nothing = nothing
    MaxPushes = 1
    MaxFailures = 1
    MaxWakes = 2
    MaxRuns = 1
SYMMETRY Symmetry
SPECIFICATION Spec
INVARIANTS OneWakeToken NoLostCallback NoLostWakeup InOrder
CHECK_DEADLOCK FALSE
