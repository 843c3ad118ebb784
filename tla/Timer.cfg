CONSTANTS
    Threads = {t1}
    Reactor = reactor
    Callbacks = {x1, x2}
    Delays = {0, 3}
    Backends = {"cv", "poll", "epoll", "pwait2"}
    Grain = 2
    MaxWait = 1
    CvTimeout = 2
    NoCall = nocall
    Forever = forever
    MaxTime = 3
SPECIFICATION Spec
INVARIANTS OneFate InOrder WaitFits
PROPERTIES TimerRuns
