CONSTANTS
    t1 = t1
    t2 = t2
    v1 = v1
    v2 = v2
    v3 = v3
    Threads = {t1, t2}
    Views = {v1, v2, v3}
    Owner <- MCOwner
    Storages = {s1, s2}
    Null = null
    NoView = noview
    MaxCapacity = 2
    Word = 4
SPECIFICATION Spec
INVARIANTS RefsExact NoUseAfterFree ViewsInRange
PROPERTIES LastViewDeletes
