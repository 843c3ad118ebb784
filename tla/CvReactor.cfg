CONSTANTS
    Threads = {t1}
    Reactor = r
    Queues = {q1, q2}
    VectorQueues = {q2}
    Pinned = {q1}
    Callbacks = {c1, c2}
    NoQueue = none
    Capacity = 1
    MaxPushes = 1
    MaxRuns = 1
SPECIFICATION Spec
INVARIANTS NoLostWakeup NoLostCallback CallbacksInOrder RemovedIsQuiet
PROPERTIES Served CallbackRuns StopTerminates
