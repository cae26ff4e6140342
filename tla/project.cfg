SPECIFICATION SuiteSpec
CONSTANTS
    Subjects = {"store", "document", "workspace", "caches", "exports", "frontend", "results", "documents", "views"}
    Aside = Aside
    Roots = {r1, r2}
    Systems = {1, 2}
    Plans = {1, 2}
    Compatible <- MatchingPairs
    Workspaces = {1, 2}
    Defaults = 1
    Kinds = {"bosch"}
    Missing = Missing
    Damaged = Damaged
    MaxAttempts = 1
    Unassigned = Unassigned
    Closed = Closed
    Original <- OriginalProject
    Layouts = {1, 2}
    NewIds = {0, 2}
    NewNames <- TypedNames
    NewTimings <- TypedTimings
    NewTimes = {2}
    NewPeriods = {0}
    NewStops = {2}
    MaxChanges = 2
    Touched <- TouchedSettings
    RowIds = {1}
    MaxSettings = 2
    NotFinite = NotFinite
    Unset = Unset
    Broken = Broken
    Experiments <- ShownExperiments
    SearchTexts = {NoText, "miss"}
    Found <- MatchingTypes
    NoText = NoText
    Nothing = Nothing
    Diagnosed = Diagnosed
    Ongoing = Ongoing
    RunIds = {"run"}
    Outcomes = {1, 2}
    None = None
    MaxSuffix = 1
    MaxTick = 127
    Unreadable = Unreadable
    ProjectA = ProjectA
    ProjectB = ProjectB
    Known = {ProjectA, ProjectB, ProjectC}
    Created = {ProjectA, ProjectB}
    Fading = {ProjectB}
    Arranged = {ProjectA}
    FoundPreferences <- PreferencesFound
    MaxRecent = 2
    Stock = Stock
    Nowhere = Nowhere
    NoRow = Unassigned
    LabelLength <- LabelWidth
SYMMETRY RootSymmetry
CHECK_DEADLOCK FALSE
INVARIANTS
    FilesSound
    EditsSound
    CachesCurrent
    FrontendFilesSound
    ResultsFaithful
    DocumentsReadBack
    ViewsSound
