CONSTANTS
    Main = 1
    NoTask = 0
    AnyTask = 99
    Task = {1, 2, 3}
    Setup <- MCSetup
SPECIFICATION Spec
CHECK_DEADLOCK FALSE
INVARIANTS TypeOK Faithful LoadAgrees ClocksAgree BlockedSound TargetComes
