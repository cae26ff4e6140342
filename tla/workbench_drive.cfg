SPECIFICATION Spec
CONSTANTS
    Steps = 2
    Generations = {0, 1, 2}
    Runs = {0, 1, 2}
    NoRequest = NoRequest
    WakeupBound = 3
    Operations = {"mode", "replace", "close", "apply", "quit"}
    RunBound = 2
    QueueBound = 1
    ShotBound = 2
    None = None
CHECK_DEADLOCK FALSE
INVARIANTS
    ProgressCurrent
    PumpSound
PROPERTIES
    RunAdvances
    FinishedRunsGetResults
