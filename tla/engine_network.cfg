SPECIFICATION FunctionalSpec
CONSTANTS
    TaskIds <- NetworkTasks
    ResourceIds <- NetworkResources
    MaxTick = 12
    Configs <- AllConfigs
    CoupledConfigs <- ModelledConfigs
    NoJob = NoJob
INVARIANTS
    MatchesTickReference
    MessagesSound
    ObservationsSound
    ActionsSeenNextTick
    NothingRunsWithoutModel
    ReplayReproducesRun
