CONSTANTS
    Task = {t1, t2}
    Main = t1
    NoTask = NoTask
    AnyTask = AnyTask
    Mutex = {m1}
    None = None
    MaxCount = 1
    CreateMayFail = TRUE
SPECIFICATION Spec
CHECK_DEADLOCK FALSE
INVARIANTS NoLottoDeadlock
