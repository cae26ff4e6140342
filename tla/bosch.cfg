SPECIFICATION SuiteSpec
CONSTANTS
    StopTick = 15
    NetworkCapacity = 2
    WindowSize = 2
    SampleSteps = 2
    Periods = {3}
    Responses = {1, 3}
    Offsets = {0, 1}
    Delays = {1, 4}
    InstanceIds = {1, 2}
    InitialReals = 2
    Unreadable = Unreadable
    Invalid = Invalid
    MaxTick = 20003
    Supplied = {"curve", "lane_change"}
    MaxSequence = 3
    Phases = {"MessageDelivery", "JobRelease"}
    MaxOfferedTick = 1
CHECK_DEADLOCK FALSE
INVARIANTS
    ObservationsFollowTrace
    PulsesLastOneTick
    LifecycleMatchesSlave
    QueueSound
    ConformanceVerdicts
    ExperimentsReadBack
PROPERTIES
    ImplementsSlaveProtocol
