SPECIFICATION Spec
CONSTANTS
    Generations = {1, 2}
    Runs = {10, 11}
    NoRequest = NoRequest
    WakeupBound = 2
INVARIANTS
    WorkerServesRequest
    AnswersSound
PROPERTIES
    ImplementsResultService
    RequestsAreAnswered
