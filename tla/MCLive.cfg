CONSTANTS
    Task = {1, 3, 5}
    Main = 1
    NoTask = 0
    AnyTask = 99
    NBuckets = 2
    CanAbort = FALSE
    Mutex = {m1}
    None = None
    MaxCount = 2
SPECIFICATION LiveSpec
CHECK_DEADLOCK FALSE
PROPERTIES ImplementsLiveAbs SelectedResumes ReplayReachesGoal
