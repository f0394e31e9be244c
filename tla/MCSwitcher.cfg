CONSTANTS
    Task = {1, 2, 3}
    Main = 1
    NoTask = 0
    AnyTask = 99
    NBuckets = 2
    CanAbort = TRUE
SPECIFICATION Spec
CHECK_DEADLOCK FALSE
INVARIANTS TypeOK NoLostWakeup OneRunner CounterExact
