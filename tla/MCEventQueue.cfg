CONSTANTS
    Items = {a, b, c, d}
    NoItem = none
    Capacities = {0, 1, 2, 3, 4, 5}
    Threads = {t1, t2, t3}
    Blocks = {b1, b2}
    Null = null
    Sizes = {8, 16, 17}
    NumPools = 2
    MaxQueue = 2
SYMMETRY Symmetry
SPECIFICATION QueueSpec
INVARIANTS SlotsMatch OneOwner SizeFits NoSleepOnElement
PROPERTIES FifoSpec
