CONSTANTS
    Task = {t1, t2, t3}
    Main = t1
    NoTask = NoTask
    AnyTask = AnyTask
    Mutex = {m1}
    None = None
    MaxCount = 1
    CreateMayFail = FALSE
SYMMETRY Symmetry
SPECIFICATION Spec
INVARIANTS TypeOK EngineContract PlanContract BlockedExact TargetIsReady MutexRespected NoLottoDeadlock
PROPERTIES UsesSwitcher
