CONSTANTS
    Main = 1
    NoTask = 0
    AnyTask = 99
    Task = {1, 2}
    Setup <- AgainSetup
SPECIFICATION Spec
CHECK_DEADLOCK FALSE
INVARIANTS Faithful
