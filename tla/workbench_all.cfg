SPECIFICATION Spec
CONSTANTS
    Steps = 2
    Generations = {0, 1, 2, 3}
    Runs = {0, 1, 2, 3}
    NoRequest = NoRequest
    WakeupBound = 4
    Operations = {"mode", "replace", "replaceFails", "close", "apply", "applyAndSave", "save", "quit"}
    RunBound = 3
    QueueBound = 2
    ShotBound = 2
    None = None
CHECK_DEADLOCK FALSE
INVARIANTS
    ResultIsOfShownRun
    PresentationCurrent
    NoThreadOutlivesShutdown
