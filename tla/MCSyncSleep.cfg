CONSTANTS
    Task = {t1, t2, t3}
    Main = t1
    NoTask = NoTask
    AnyTask = AnyTask
    m = m
    l = l
    e = e
    f = f
    Mutex = {m}
    Lock = {l}
    Event = {e, f}
    Patience = 2
    Nap = 1
    Setups <- Sleepers
SPECIFICATION Spec
INVARIANTS LocksRespected
