---------------------------- MODULE ProjectSuite ----------------------------
(***************************************************************************)
(* The parts around one project, checked side by side: its files, the      *)
(* editing of its system, its workspace, the views' caches, the export of  *)
(* results, the front end's own files, and the pure algorithms that read   *)
(* documents, derive results and lay out graphs.  They share no state.  An *)
(* initial state picks the subject; the other parts rest then.             *)
(***************************************************************************)
EXTENDS ProjectStore, DocumentEditing, WorkspaceState, ObservationCaches, RunResults,
        ConfigDocuments, FrontendFiles, ArchitectureGraph

CONSTANTS
    Subjects,       \* the parts that a run looks at
    Aside           \* the state of a part that is not the subject

VARIABLES
    subject,    \* the part that runs
    input       \* what a pure algorithm is applied to

suiteVars == <<subject, input, storeVars, documentVars, workspaceVars, cacheVars, exportVars, frontendVars>>
RootSymmetry == Permutations(Roots)

NoInput == [none |-> TRUE]

-----------------------------------------------------------------------------
(* Values of the constants. *)

MatchingPairs == {<<1, 1>>, <<2, 2>>}

Timing == [period |-> 10, deadline |-> 10, offset |-> 0, priority |-> 0]
OriginalProject ==
    [system |-> [tick_period |-> 1, resources |-> <<[id |-> 1, name |-> <<1>>]>>,
                 tasks |-> <<[id |-> 1, name |-> <<1>>, timing |-> Timing]>>,
                 profiles |-> <<[task |-> 1, resource |-> 1, time |-> 1]>>,
                 routes |-> <<[source |-> 1, destination |-> 1, kind |-> Communication, delay |-> 1]>>],
     plan |-> [stop |-> 1, assignments |-> <<[task |-> 1, resource |-> 1]>>]]
TypedNames == {<<2>>}
TypedTimings == {[Timing EXCEPT !.deadline = 1]}

TouchedSettings ==
    {<<"panels", "events">>, <<"visualizer", "markers">>, <<"visualizer", "y_min">>, <<"visualizer", "y_max">>,
     <<"visualizer", "auto_y">>, <<"splitters", "center">>, <<"splitters", "left_sidebar">>, <<"active_tabs", "upper">>,
     <<"active_tabs", "lower">>, <<"execution", "tick_batch_size">>, <<"event_filters", "task">>,
     <<"architecture", "zoom">>, <<"top", "theme">>}

\* An event: sequence, tick, type, task, job, resource, message, cause.
LogRow(e) == [sequence |-> e[1], tick |-> e[2], type |-> e[3], phase |-> RequiredPhase(e[3]), task |-> e[4],
              job |-> e[5], resource |-> e[6], message |-> e[7], cause |-> e[8]]
LogOf(rows) == [i \in DOMAIN rows |-> LogRow(rows[i])]
SamplesOf(values) == [i \in DOMAIN values |-> [tick |-> i - 1, values |-> [y |-> values[i]]]]

\* Task 2 preempts task 1, which misses its deadline; the log ends with a send.
OneResource ==
    [config |-> "one resource", tasks |-> {1, 2}, resources |-> {1}, registry |-> {"y"},
     observations |-> SamplesOf(<<5, 6, 7, 8, 9>>),
     events |-> LogOf(<<<<1, 0, "JobRelease", 1, 1, 1, 0, 0>>, <<3, 0, "JobStart", 1, 1, 1, 0, 1>>,
                        <<2, 1, "JobRelease", 2, 1, 1, 0, 0>>, <<5, 1, "JobPreempt", 1, 1, 1, 0, 2>>,
                        <<6, 1, "JobStart", 2, 1, 1, 0, 2>>, <<7, 2, "JobFinish", 2, 1, 1, 0, 6>>,
                        <<8, 2, "JobResume", 1, 1, 1, 0, 7>>, <<4, 3, "DeadlineMiss", 1, 1, 1, 0, 1>>,
                        <<9, 4, "JobFinish", 1, 1, 1, 0, 8>>, <<10, 4, "MessageSend", 1, 1, 0, 1, 9>>>>)]
\* The same releases on two resources, with a delivery.
TwoResources ==
    [config |-> "two resources", tasks |-> {1, 2}, resources |-> {1, 2}, registry |-> {"y"},
     observations |-> SamplesOf(<<4, 6, 8, 10, 12>>),
     events |-> LogOf(<<<<1, 0, "JobRelease", 1, 1, 1, 0, 0>>, <<3, 0, "JobStart", 1, 1, 1, 0, 1>>,
                        <<2, 1, "JobRelease", 2, 1, 2, 0, 0>>, <<5, 1, "JobStart", 2, 1, 2, 0, 2>>,
                        <<6, 2, "JobFinish", 2, 1, 2, 0, 5>>, <<7, 3, "JobFinish", 1, 1, 1, 0, 3>>,
                        <<8, 3, "MessageSend", 1, 1, 0, 1, 7>>, <<9, 4, "MessageDelivery", 1, 1, 0, 1, 8>>>>)]
ShownExperiments == {OneResource, TwoResources}
MatchingTypes == [text \in {"miss"} |-> {"DeadlineMiss"}]

CONSTANTS ProjectA, ProjectB
PreferencesFound ==
    {Nowhere, <<"damaged">>, <<"list", <<<<ProjectB, 2>>, <<ProjectA, 1>>, <<ProjectB, 1>>>>>>,
     <<"list", <<<<ProjectB, 1>>, <<ProjectB, 2>>, <<ProjectA, 1>>>>>>, <<"list", <<<<ProjectB, 1>>, <<>>>>>>}

LabelWidth(row) == Len(row.name)

-----------------------------------------------------------------------------
(* Inputs of the pure algorithms. *)

ResultOf(x, now, accounts) ==
    [experiment |-> x, events |-> UpTo(x.events, now), observations |-> UpTo(x.observations, now),
     names |-> <<"y">>, accounts |-> accounts, now |-> now]
Accounts == {<<[id |-> 1, busy |-> 4, idle |-> 0]>>,
             <<[id |-> 2, busy |-> 1, idle |-> 3], [id |-> 1, busy |-> 0, idle |-> 0]>>}
Bounds == 0 .. 5
PlotSeriesChoices == [unit : {"m", "rad"}, digital : BOOLEAN]
ResultInputs ==
    [part : {"metrics"}, result : {ResultOf(x, now, a) : x \in ShownExperiments, now \in 2 .. 4, a \in Accounts},
     range : {None} \cup Bounds \X Bounds]
    \cup [part : {"series"}, boolean : {TRUE}, values : [1 .. 6 -> 0 .. 1], maximum : {1, 3, 4, 5},
          range : {<<0, 5>>, <<1, 4>>, <<4, 1>>}]
    \cup [part : {"series"}, boolean : {FALSE}, values : [1 .. 6 -> 0 .. 2], maximum : {0, 1, 3, 4, 5},
          range : {<<0, 5>>, <<4, 1>>}]
    \cup [part : {"lanes"}, selected : {s \in SeqOf(PlotSeriesChoices, 3) : IsInjective(s)}, known : SUBSET PlotSeriesChoices]
    \cup [part : {"range"}, now : {0, 3, 5}, mode : {"complete", "selected", "custom"},
          chosen : {None} \cup {<<a, b>> \in {0, 2, 4, 7} \X {0, 2, 4, 7} : a <= b},
          custom : {-1, 0, 2, 4, 7} \X {-1, 0, 2, 4, 7}]

Route(ends, sort, delay) == [source |-> ends[1], destination |-> ends[2], kind |-> sort, offset |-> 1, delay |-> delay]
Named(id, names) == [id |-> id, name |-> names[id]]
NamedTask(id, names, deadline) == Named(id, names) @@ [timing |-> [Timing EXCEPT !.deadline = deadline]]
Mapped(F(_), s) == [i \in DOMAIN s |-> F(s[i])]

ShortNames == <<<<"sense">>, <<"act">>>>
Devices == {<<Named(1, ShortNames), Named(2, ShortNames)>>, <<Named(2, ShortNames), Named(1, ShortNames)>>}
FileTasks == {<<NamedTask(1, ShortNames, 10), NamedTask(2, ShortNames, 9)>>,
              <<NamedTask(2, ShortNames, 9), NamedTask(1, ShortNames, 10)>>}
ProfileRow(p) == [task |-> p[1], resource |-> p[2], time |-> p[3]]
FileProfiles == {Mapped(ProfileRow, <<<<1, 1, 1>>, <<1, 2, 1>>, <<2, 1, 1>>>>),
                 Mapped(ProfileRow, <<<<2, 1, 1>>, <<1, 2, 1>>, <<1, 1, 1>>>>),
                 Mapped(ProfileRow, <<<<1, 1, 1>>, <<2, 1, 3>>>>)}
FileConfigs == [tick_period : {5}, preemption : Modes, resources : Devices, tasks : FileTasks, profiles : FileProfiles,
                routes : {<<>>, <<Route(<<1, 2>>, Logical, 0)>>, <<Route(<<1, 2>>, Communication, 2)>>}]
PlanOn(c) == [stop |-> 4, assignments |-> Mapped(LAMBDA t : [task |-> t.id, resource |-> 1], c.tasks)]

LongNames == <<"a", "sensing", "a rather long label for one node">>
TaskOrders == {<<1, 2, 3>>, <<3, 1, 2>>}
Ends == {<<1, 2>>, <<2, 1>>, <<2, 3>>, <<3, 1>>, <<1, 3>>}
DrawnRoutes ==
    {<<>>} \cup {<<e>> : e \in Ends} \cup {p \in Ends \X Ends : p[1] # p[2]}
    \cup {<<<<2, 3>>, <<1, 2>>, <<1, 3>>>>, <<<<1, 2>>, <<2, 3>>, <<3, 1>>>>}
DrawnConfig(tasks, resources, routes) ==
    [tasks |-> Mapped(LAMBDA t : NamedTask(t, LongNames, 10), tasks),
     resources |-> Mapped(LAMBDA r : Named(r, LongNames), resources),
     profiles |-> Mapped(ProfileRow, <<<<3, 1, 4>>, <<1, 1, 2>>, <<2, 2, 4>>, <<1, 2, 3>>>>),
     routes |-> Mapped(LAMBDA e : IF e[1] = 1 THEN Route(e, Logical, 0) ELSE Route(e, Communication, 2), routes)]
DrawnConfigs == {DrawnConfig(t, r, e) : t \in TaskOrders, r \in {<<1, 2>>, <<2, 1>>}, e \in DrawnRoutes}
DrawnPlans ==
    {Mapped(LAMBDA t : [task |-> t, resource |-> placed[t]], order) :
        order \in TaskOrders \cup {<<1, 2>>, <<1, 1, 2>>}, placed \in [1 .. 3 -> 1 .. 2]}
Moved == [tasks |-> 2 :> [x |-> 400, y |-> 10], resources |-> 1 :> [x |-> 5, y |-> 500, width |-> 70, height |-> 80]]

InputsOf(part) ==
    CASE part = "results" -> ResultInputs
      [] part = "documents" -> [config : FileConfigs, other : FileConfigs]
      [] part = "views" -> [config : DrawnConfigs, assignments : DrawnPlans, layout : {NoRow, Moved}]

-----------------------------------------------------------------------------
\* A part that is not the subject stays as it begins; where it begins in many ways it has one
\* beginning, or no state.
IdleDocument ==
    /\ kind = Aside /\ document = Closed /\ applied = Original /\ pending = Aside /\ layout = Aside
    /\ stored = Original /\ history = Aside /\ position = Aside /\ changes = Aside
IdleWorkspace == workspace = Aside /\ workspace_file = Aside /\ settings = Aside
IdleCaches ==
    /\ shown = Aside /\ timeline = Aside /\ signals = Aside /\ table = Aside
    /\ completed = Nothing /\ generation = Aside /\ plot = Aside
IdleFrontend == preferences = Nowhere /\ layoutFiles = [p \in Known |-> Nowhere]

SuiteInit ==
    /\ subject \in Subjects /\ input = NoInput
    /\ StoreInit /\ ExportInit /\ FrontendInit
    /\ IF subject = "document" THEN DocumentInit ELSE IdleDocument
    /\ IF subject = "workspace" THEN WorkspaceInit ELSE IdleWorkspace
    /\ IF subject = "caches" THEN CachesInit ELSE IdleCaches
    /\ subject # "frontend" => IdleFrontend

Choose ==
    /\ subject \in {"results", "documents", "views"} /\ input = NoInput
    /\ input' \in InputsOf(subject)
    /\ UNCHANGED <<subject, storeVars, documentVars, workspaceVars, cacheVars, exportVars, frontendVars>>

SuiteNext ==
    \/ Choose
    \/ /\ subject = "store" /\ StoreNext
       /\ UNCHANGED <<subject, input, documentVars, workspaceVars, cacheVars, exportVars, frontendVars>>
    \/ /\ subject = "document" /\ DocumentNext
       /\ UNCHANGED <<subject, input, storeVars, workspaceVars, cacheVars, exportVars, frontendVars>>
    \/ /\ subject = "workspace" /\ WorkspaceNext
       /\ UNCHANGED <<subject, input, storeVars, documentVars, cacheVars, exportVars, frontendVars>>
    \/ /\ subject = "caches" /\ CachesNext
       /\ UNCHANGED <<subject, input, storeVars, documentVars, workspaceVars, exportVars, frontendVars>>
    \/ /\ subject = "exports" /\ ExportNext
       /\ UNCHANGED <<subject, input, storeVars, documentVars, workspaceVars, cacheVars, frontendVars>>
    \/ /\ subject = "frontend" /\ FrontendNext
       /\ UNCHANGED <<subject, input, storeVars, documentVars, workspaceVars, cacheVars, exportVars>>

SuiteSpec == SuiteInit /\ [][SuiteNext]_suiteVars

-----------------------------------------------------------------------------
\* However snapshots are published, sessions replaced and filters typed, what timeline, signal
\* and event views have kept is what a rebuild from the shown snapshot gives
\* (timeline_model, observation_models).
CachesCurrent == subject = "caches" => CachesMatchRebuild

\* A published export is complete and of one result; metrics and tables of a range describe
\* exactly that range; thinned series, lanes and plot ranges lose nothing they must show
\* (export_run_result, derive_run_metrics, downsample_signal, build_plot_lanes).
ResultsFaithful ==
    /\ ExportsComplete
    /\ subject = "results" /\ input # NoInput =>
           CASE input.part = "metrics" -> ResultSound(input.result, input.range)
             [] input.part = "series" ->
                    SeriesSound([i \in DOMAIN input.values |-> [tick |-> i - 1, value |-> input.values[i]]],
                                input.boolean, input.range[1], input.range[2], input.maximum)
             [] input.part = "lanes" -> LanesSound(input.selected, input.known)
             [] input.part = "range" -> PlotRangeSound(input.now, input.mode, input.chosen, input.custom)

\* What is written reads back as itself: a configuration in every schema version that can
\* hold it, a plan only by the experiment it was made for, and a workspace as far as its file
\* is whole; an older or damaged workspace file costs no more than what is missing in it
\* (json_config, run_plan_json, parse_project_workspace_json, workspace_state).
DocumentsReadBack ==
    /\ subject = "workspace" => WorkspaceSound
    /\ subject = "documents" /\ input # NoInput =>
           /\ input.config = input.other => ConfigReadsBack(input.config)
           /\ PlanReadsBack(input.config, PlanOn(input.config), input.other)

\* The description of an experiment does not depend on the order of its file, and the graph
\* drawn from it shows every task in the box of its resource and nowhere else
\* (build_experiment_presentation, build_architecture_graph).
ViewsSound ==
    subject = "views" /\ input # NoInput =>
        /\ DescriptionSound(input.config, input.assignments)
        /\ GraphSound(Presentation(input.config, input.assignments),
                      IF input.layout = NoRow THEN <<>> ELSE <<<<2, 3>>, <<1, 2>>>>, FALSE, input.layout)

\* The badge a task has in the architecture view names the resource that the assignment dock
\* shows for it (build_draft_experiment_presentation and build_task_node_presentations
\* against QtResourceAssignmentModel::rebuild).
ArchitectureShowsAssignments ==
    Open => TaskBadges(DraftPresentation(Draft, document.assignments)) = DockRows(Draft, document.assignments)
=============================================================================
