SPECIFICATION Spec
CONSTANTS
    TaskIds <- SingleTasks
    ResourceIds <- SingleResources
    MaxTick = 12
    Configs <- ZeroDelayConfigs
    NoJob = NoJob
INVARIANT
    ValidRoutesAreSimulated
