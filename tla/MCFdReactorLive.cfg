CONSTANTS
    Backends = {"poll", "epoll"}
    Threads = {t1}
    Reactor = r
    Queues = {q1}
    Callbacks = {c1}
    Removals = {x1}
    RunRemovals = rr
    Nothing = nothing
    MaxPushes = 2
    MaxFailures = 0
    MaxWakes = 2
    MaxRuns = 1
SPECIFICATION Spec
PROPERTIES Served PostedRuns StopTerminates
CHECK_DEADLOCK FALSE
