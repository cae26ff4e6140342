SPECIFICATION Spec
CONSTANTS
    TaskIds <- SingleTasks
    ResourceIds <- SingleResources
    MaxTick = 9
    Configs <- SingleConfigs
    NoJob = NoJob
INVARIANTS
    TypeOK
    MembershipAgrees
    CandidatesSound
    AccountsExact
    DecisionsSound
    MatchesTickReference
    TraceSound
PROPERTIES
    NothingIsTakenBack
    Terminates
