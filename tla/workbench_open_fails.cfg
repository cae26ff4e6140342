SPECIFICATION Spec
CONSTANTS
    Steps = 2
    Generations = {0, 1}
    Runs = {0, 1}
    NoRequest = NoRequest
    WakeupBound = 2
    Operations = {"mode", "replace", "replaceFails"}
    RunBound = 1
    QueueBound = 1
    ShotBound = 2
    None = None
CHECK_DEADLOCK FALSE
PROPERTY RunAdvances
