SPECIFICATION Spec
CONSTANTS
    Steps = 1
    Generations = {0, 1, 2}
    Runs = {0, 1, 2}
    NoRequest = NoRequest
    WakeupBound = 3
    Operations = {"replace"}
    RunBound = 2
    QueueBound = 2
    ShotBound = 2
    None = None
CHECK_DEADLOCK FALSE
PROPERTY EveryFinishedRunGetsResult
