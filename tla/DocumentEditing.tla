--------------------------- MODULE DocumentEditing ---------------------------
(***************************************************************************)
(* Editing the system of the active project in the Qt workbench: every     *)
(* edit pushes a snapshot before and after on one undo stack; Apply        *)
(* rebuilds the project from the draft; Save, Save As, Open and Close      *)
(* decide from the dirty flags what has to be asked and written.  Editing  *)
(* happens while the simulation is paused.                                 *)
(***************************************************************************)
EXTENDS SystemDraft

CONSTANTS
    Original,       \* the system and the plan of the project on disk at the start
    Layouts,        \* normalized workspaces
    NewIds, NewNames, NewTimings, NewTimes, NewPeriods, NewStops,   \* values typed into the editors
    MaxChanges,       \* bound: changes the user makes in one behaviour
    Closed          \* no project

\* What an experiment file can hold, whether its rows make sense or not; 0 is read like any other
\* number.  The program starts with a project that was loaded, and so validated.
Timings == [period : Int, deadline : Int, offset : Int, priority : Int]
Drafts == [tick_period : Int,
           resources : Seq([id : Nat, name : Seq(Nat)]),
           tasks : Seq([id : Nat, name : Seq(Nat), timing : Timings]),
           profiles : Seq([task : Nat, resource : Nat, time : Int]),
           routes : Seq([source : Nat, destination : Nat, kind : {Logical, Communication}, delay : Int])]
Assignments == Seq([task : Nat, resource : Nat \cup {Unassigned}])

\* A system and a plan that can run, the plan listing the tasks in their order.
Runnable(system, assignments) ==
    /\ ConfigAccepts(system) /\ PlanAccepts(system, assignments)
    /\ Canonical(system, assignments) = assignments

ASSUME DocumentAssumption ==
    /\ NewIds \subseteq Nat /\ NewNames \subseteq Seq(Nat) /\ NewTimings \subseteq Timings
    /\ NewTimes \cup NewPeriods \subseteq Int
    /\ Original.system \in Drafts /\ Original.plan.assignments \in Assignments
    /\ Runnable(Original.system, Original.plan.assignments)

VARIABLES
    kind,           \* the scenario kind of the project
    document,       \* the draft, its baseline, the run assignments and the selection
    applied,        \* system and plan of the active project
    pending,        \* the session's run-plan draft
    layout,         \* the workspace of the application, and the one the project holds
    stored,         \* what the project's files hold
    history, position,   \* the undo stack
    changes         \* history: changes made so far

documentVars == <<kind, document, applied, pending, layout, stored, history, position, changes>>

Open == document # Closed
Draft == document.draft
Changing == changes < MaxChanges /\ changes' = changes + 1
Select(k, key) == [kind |-> k, key |-> key]
SelectSystem == Select("System", <<>>)

\* initialize_system_draft, with the selection of the system that follows it everywhere but in Save.
Initialized(a) == [draft |-> a.system, baseline |-> a.system, assignments |-> a.plan.assignments,
                   selection |-> SelectSystem]

\* synchronize_system_assignments.
AssignmentOf(assignments, task) ==
    IF RowsOf(assignments, task) = {} THEN Unassigned
    ELSE assignments[Min(RowsOf(assignments, task))].resource
Synchronized(d, assignments) ==
    [i \in DOMAIN d.tasks |-> [task |-> d.tasks[i].id, resource |-> AssignmentOf(assignments, d.tasks[i].id)]]

\* restore_system_draft.
Restored(snapshot) == [snapshot EXCEPT !.assignments = Synchronized(snapshot.draft, @)]

-----------------------------------------------------------------------------
(* Edits. *)

\* QtStructuralEditController: snapshots of both sides are pushed, and pushing restores
\* the second.
Push(before, after) ==
    /\ Changing
    /\ history' = Append(SubSeq(history, 1, position), [before |-> before, after |-> after])
    /\ position' = position + 1
    /\ document' = Restored(after)
    /\ UNCHANGED <<kind, applied, pending, layout, stored>>

\* The user selects a row, then edits it.
On(selection) == [document EXCEPT !.selection = selection]
EditDraft(selection, d) == Push(On(selection), [On(selection) EXCEPT !.draft = d])
EditAndSelect(selection, d, next) ==
    Push(On(selection), [On(selection) EXCEPT !.draft = d, !.selection = next])

Generic == kind = "generic"

ChangeTickPeriod == \E v \in NewPeriods : EditDraft(SelectSystem, [Draft EXCEPT !.tick_period = v])

EditResource ==
    \E i \in DOMAIN Draft.resources :
        LET old == Draft.resources[i].id
            selection == Select("Resource", <<old>>)
        IN  /\ At(Draft.resources, old) = i
            /\ \/ \E name \in NewNames : EditDraft(selection, SetResourceName(Draft, i, name))
               \/ \E id \in NewIds :
                      Push(On(selection),
                           [draft |-> SetResourceId(Draft, i, id), baseline |-> document.baseline,
                            assignments |-> ResourceRenamed(document.assignments, old, id),
                            selection |-> Select("Resource", <<id>>)])

EditTask ==
    \E i \in DOMAIN Draft.tasks :
        LET old == Draft.tasks[i].id
            selection == Select("Task", <<old>>)
        IN  /\ At(Draft.tasks, old) = i
            /\ \/ Generic /\ \E name \in NewNames : EditDraft(selection, SetTaskName(Draft, i, name))
               \/ \E timing \in NewTimings : EditDraft(selection, SetTaskTiming(Draft, i, timing))
               \/ /\ Generic
                  /\ \E id \in NewIds :
                         Push(On(selection),
                              [draft |-> SetTaskId(Draft, i, id), baseline |-> document.baseline,
                               assignments |-> TaskRenamed(document.assignments, old, id),
                               selection |-> Select("Task", <<id>>)])

\* A combo box shows the first entry of its value and reports the choice of another one.
Entry(rows, id) == IF Has(rows, id) THEN At(rows, id) ELSE 0

\* Entry 0 is "Unassigned", the others are the resources of the draft.
AssignTask ==
    \E task \in Ids(Draft.tasks), i \in 0 .. Len(Draft.resources) :
        LET rows == document.assignments
            row == [task |-> task, resource |-> IF i = 0 THEN Unassigned ELSE Draft.resources[i].id]
            after == IF RowsOf(rows, task) = {} THEN Append(rows, row)
                     ELSE [rows EXCEPT ![Min(RowsOf(rows, task))] = row]
        IN  /\ i # Entry(Draft.resources, AssignmentOf(rows, task))
            /\ Push(On(Select("Task", <<task>>)), [On(Select("Task", <<task>>)) EXCEPT !.assignments = after])

\* The profile dialog sets or removes the profile of one task on every resource at once.
ProfilesEdited(d, task, times) ==
    LET edited[n \in 0 .. Len(d.resources)] ==
            IF n = 0 THEN d
            ELSE LET r == d.resources[n].id
                 IN  IF times[r] = Unassigned THEN RemoveProfile(edited[n - 1], task, r)
                     ELSE SetProfile(edited[n - 1], task, r, times[r])
    IN  edited[Len(d.resources)]
EditProfiles ==
    \E task \in Ids(Draft.tasks), times \in [Ids(Draft.resources) -> NewTimes \cup {Unassigned}] :
        EditDraft(Select("Task", <<task>>), ProfilesEdited(Draft, task, times))

EditConnection ==
    \E i \in DOMAIN Draft.routes :
        LET route == Draft.routes[i]
            key == <<route.source, route.destination>>
            selection == Select(route.kind, key)
            change(next) == EditAndSelect(selection, SetRoute(Draft, i, next),
                                          Select(next.kind, <<next.source, next.destination>>))
        IN  /\ Min(RouteAt(Draft, route.source, route.destination)) = i
            /\ \/ Generic /\ \E k \in {Logical, Communication} \ {route.kind} : change([route EXCEPT !.kind = k, !.delay = 0])
               \/ /\ route.kind = Communication
                  /\ \E delay \in NewTimes \ {route.delay} :
                         EditDraft(selection, SetRoute(Draft, i, [route EXCEPT !.delay = delay]))
               \/ /\ Generic
                  /\ \E n \in DOMAIN Draft.tasks :
                         \/ n # Entry(Draft.tasks, route.source) /\ change([route EXCEPT !.source = Draft.tasks[n].id])
                         \/ n # Entry(Draft.tasks, route.destination) /\ change([route EXCEPT !.destination = Draft.tasks[n].id])

\* A new resource inherits the profiles of the one before it.
Inherited(d, previous) ==
    LET new == Last(d.resources).id
        copied[n \in 0 .. Len(d.tasks)] ==
            IF n = 0 THEN d
            ELSE LET e == copied[n - 1]
                     t == d.tasks[n].id
                 IN  IF HasProfile(e, t, previous) THEN SetProfile(e, t, new, ExecutionTime(e, t, previous)) ELSE e
    IN  copied[Len(d.tasks)]

\* The rows that create, duplicate and delete leave to the assignments.
WithRows(d, assignments) ==
    assignments \o RowsAt([i \in DOMAIN d.tasks |-> [task |-> d.tasks[i].id, resource |-> Unassigned]],
                          {i \in DOMAIN d.tasks : RowsOf(assignments, d.tasks[i].id) = {}})
PushCreated(before, d, selection) ==
    Push(before, [before EXCEPT !.draft = d, !.assignments = WithRows(d, @), !.selection = selection])

CreateResource ==
    LET d == AddResource(Draft)
        profiled == IF Draft.resources = <<>> THEN d ELSE Inherited(d, Last(Draft.resources).id)
    IN  PushCreated(document, profiled, Select("Resource", <<Last(d.resources).id>>))

CreateTask ==
    /\ Generic
    /\ LET d == AddTask(Draft) IN PushCreated(document, d, Select("Task", <<Last(d.tasks).id>>))

CreateProfile ==
    /\ FreeProfiles(Draft) # {}
    /\ LET key == NextProfile(Draft)
       IN  PushCreated(document, SetProfile(Draft, key[1], key[2], 1), Select("Profile", key))

CreateRoute ==
    /\ Generic /\ Draft.tasks # <<>> /\ FreeRoutes(Draft) # {}
    /\ LET key == NextRoute(Draft)
       IN  PushCreated(document, AddRoute(Draft, key[1], key[2], Communication), Select(Communication, key))

\* create_connection: drawn between two tasks.
CreateConnection ==
    /\ Generic
    /\ \E s, t \in Ids(Draft.tasks), k \in {Logical, Communication} :
           /\ ~ HasRoute(Draft, s, t)
           /\ EditAndSelect(document.selection, AddRoute(Draft, s, t, k), Select(k, <<s, t>>))

DuplicateSelected ==
    \/ \E id \in Ids(Draft.resources) :
           LET d == DuplicateResource(Draft, At(Draft.resources, id))
           IN  PushCreated(On(Select("Resource", <<id>>)), d, Select("Resource", <<Last(d.resources).id>>))
    \/ \E id \in Ids(Draft.tasks) :
           LET d == DuplicateTask(Draft, At(Draft.tasks, id))
           IN  Generic /\ PushCreated(On(Select("Task", <<id>>)), d, Select("Task", <<Last(d.tasks).id>>))
    \/ \E n \in DOMAIN Draft.profiles :
           LET old == Draft.profiles[n]
               key == NextProfile(Draft)
           IN  /\ FreeProfiles(Draft) # {}
               /\ PushCreated(On(Select("Profile", <<old.task, old.resource>>)),
                              SetProfile(Draft, key[1], key[2], ExecutionTime(Draft, old.task, old.resource)),
                              Select("Profile", key))

\* synchronize_structural_selection: a Logical connection is not looked up.
Reselected(selection, d) ==
    IF selection.kind \in {Logical, Communication} /\ ~ {selection.key[1], selection.key[2]} \subseteq Ids(d.tasks)
    THEN SelectSystem
    ELSE IF selection.kind = Communication /\ ~ HasRoute(d, selection.key[1], selection.key[2])
         THEN Select("Routes", <<>>) ELSE selection

\* select_neighbor.
Neighbor(rows, id, k, section) ==
    LET i == At(rows, id)
    IN  IF Len(rows) <= 1 THEN Select(section, <<>>)
        ELSE Select(k, <<rows[IF i < Len(rows) THEN i + 1 ELSE i - 1].id>>)

DeleteSelected ==
    \/ \E id \in Ids(Draft.resources) :
           LET d == CascadeRemoveResource(Draft, id)
           IN  Push(On(Select("Resource", <<id>>)),
                    [document EXCEPT !.draft = d, !.assignments = ResourceRenamed(@, id, Unassigned),
                                     !.selection = Neighbor(Draft.resources, id, "Resource", "Resources")])
    \/ \E id \in Ids(Draft.tasks) :
           /\ Generic
           /\ Push(On(Select("Task", <<id>>)),
                   [document EXCEPT !.draft = CascadeRemoveTask(Draft, id),
                                    !.assignments = RowsAt(@, {i \in DOMAIN @ : @[i].task # id}),
                                    !.selection = Neighbor(Draft.tasks, id, "Task", "Tasks")])
    \/ \E n \in DOMAIN Draft.profiles :
           LET p == Draft.profiles[n]
           IN  EditAndSelect(Select("Profile", <<p.task, p.resource>>), RemoveProfile(Draft, p.task, p.resource),
                             Select("Profiles", <<>>))

DeleteConnection ==
    \E n \in DOMAIN Draft.routes :
        LET key == <<Draft.routes[n].source, Draft.routes[n].destination>>
            d == RemoveRoute(Draft, key)
            before == On(Select(Draft.routes[n].kind, key))
        IN  /\ Generic
            /\ Push(before, [before EXCEPT !.draft = d, !.selection = Reselected(@, d)])

Edit ==
    /\ Open /\ changes < MaxChanges
    /\ \/ ChangeTickPeriod \/ EditResource \/ EditTask \/ AssignTask \/ EditProfiles \/ EditConnection
       \/ CreateResource \/ CreateTask \/ CreateProfile \/ CreateRoute \/ CreateConnection
       \/ DuplicateSelected \/ DeleteSelected \/ DeleteConnection

Undo ==
    /\ Open /\ position > 0
    /\ document' = Restored(history[position].before) /\ position' = position - 1
    /\ UNCHANGED <<kind, applied, pending, layout, stored, history, changes>>

Redo ==
    /\ Open /\ position < Len(history)
    /\ document' = Restored(history[position + 1].after) /\ position' = position + 1
    /\ UNCHANGED <<kind, applied, pending, layout, stored, history, changes>>

-----------------------------------------------------------------------------
(* Applying, saving and leaving. *)

\* system_run_configuration, run_configuration_matches.
Configuration == [stop |-> pending.stop, assignments |-> document.assignments]
ConfigurationDirty ==
    \/ applied.plan.stop # Configuration.stop
    \/ Len(applied.plan.assignments) # Len(Configuration.assignments)
    \/ \E i \in DOMAIN Configuration.assignments :
           LET row == Configuration.assignments[i]
           IN  row.resource = Unassigned \/ AssignmentOf(applied.plan.assignments, row.task) # row.resource

DraftDirty == Draft # document.baseline

\* system_changes_dirty.
ChangesDirty == DraftDirty \/ pending # applied.plan \/ ConfigurationDirty

\* validate_project_system_edit_policy: a Bosch system keeps its tasks and route endpoints.
Endpoints(d) == [i \in DOMAIN d.routes |-> <<d.routes[i].source, d.routes[i].destination>>]
KeepsInterface(d) ==
    LET fixed == Original.system
    IN  /\ Len(d.tasks) = Len(fixed.tasks)
        /\ \A i \in DOMAIN fixed.tasks :
               Has(d.tasks, fixed.tasks[i].id) /\ d.tasks[At(d.tasks, fixed.tasks[i].id)].name = fixed.tasks[i].name
        /\ Len(d.routes) = Len(fixed.routes) /\ ToSet(Endpoints(d)) = ToSet(Endpoints(fixed))
PolicyAccepts(d) == Generic \/ KeepsInterface(d)

\* build_system_project_replacement.
Buildable == PolicyAccepts(Draft) /\ Diagnostics(Draft) = {} /\ PlanAccepts(Draft, document.assignments)
Replacement == [system |-> Draft,
                plan |-> [stop |-> pending.stop, assignments |-> Canonical(Draft, document.assignments)]]

\* Apply and Restart; of a refused replacement only the status bar tells.
Apply ==
    /\ Open
    /\ IF Buildable
       THEN applied' = Replacement /\ pending' = applied'.plan /\ document' = Initialized(applied')
       ELSE UNCHANGED <<document, applied, pending>>
    /\ UNCHANGED <<kind, layout, stored, history, position, changes>>

\* resolve_unapplied_system_changes with ApplyAndSave: what the project is afterwards;
\* a clean draft proceeds and writes nothing.
Unapplied == DraftDirty \/ ConfigurationDirty
Resolvable == ~ Unapplied \/ Buildable
Resolved == IF Unapplied THEN Replacement ELSE applied

\* The files of a project with the workspace of the application.
Written(a) == [system |-> a.system, plan |-> a.plan, layout |-> layout.application]

\* apply_and_save_project: the project takes the workspace first; the session is replaced
\* only with a replacement, the draft is rebuilt in any case, and what was selected stays selected.
Save ==
    /\ Open /\ Resolvable
    /\ applied' = Resolved
    /\ document' = [Initialized(applied') EXCEPT !.selection = document.selection]
    /\ pending' = IF Unapplied THEN applied'.plan ELSE pending
    /\ stored' = IF Unapplied THEN Written(applied') ELSE stored
    /\ layout' = [layout EXCEPT !.project = layout.application]
    /\ UNCHANGED <<kind, history, position, changes>>

\* The draft is invalid, or the files cannot be written.
SaveFails ==
    /\ Open /\ Unapplied
    /\ layout' = [layout EXCEPT !.project = layout.application]
    /\ UNCHANGED <<kind, document, applied, pending, stored, history, position, changes>>

\* save_project_as_to: another root, so that the undo stack starts anew.
SaveAs ==
    /\ Open /\ (ChangesDirty => Resolvable)
    /\ applied' = Resolved /\ pending' = applied'.plan /\ document' = Initialized(applied')
    /\ layout' = [layout EXCEPT !.project = layout.application]
    /\ stored' = Written(applied')
    /\ history' = <<>> /\ position' = 0
    /\ UNCHANGED <<kind, changes>>

\* confirm_unapplied_changes: only dirty changes are asked about; the user applies and
\* saves, or discards, or stays.
FilesLeft == {stored} \cup IF Unapplied /\ Buildable THEN {Written(Replacement)} ELSE {}

\* Close, with refresh clearing the undo stack.
CloseProject ==
    /\ Open
    /\ stored' \in FilesLeft
    /\ document' = Closed /\ history' = <<>> /\ position' = 0
    /\ UNCHANGED <<kind, applied, pending, layout, changes>>

\* Opening the project, also over itself: the root stays and the undo stack with it.
OpenProject ==
    /\ stored' \in IF Open THEN FilesLeft ELSE {stored}
    /\ applied' = [system |-> stored'.system, plan |-> stored'.plan]
    /\ pending' = stored'.plan /\ document' = Initialized(applied')
    /\ layout' = [application |-> stored'.layout, project |-> stored'.layout]
    /\ UNCHANGED <<kind, history, position, changes>>

-----------------------------------------------------------------------------
(* The run configuration and the workspace. *)

SetStop ==
    /\ Open /\ Changing
    /\ \E v \in NewStops : pending' = [pending EXCEPT !.stop = v]
    /\ UNCHANGED <<kind, document, applied, layout, stored, history, position>>

\* load_run_plan: a file whose plan fits the applied system.
FittingPlans ==
    {[stop |-> applied.plan.stop, assignments |-> rows] : rows \in
        {r \in [DOMAIN applied.system.tasks -> [task : Ids(applied.system.tasks), resource : Ids(applied.system.resources)]] :
            PlanAccepts(applied.system, r) /\ Canonical(applied.system, r) = r}}
LoadPlan ==
    /\ Open /\ Changing
    /\ \E plan \in FittingPlans : pending' = plan
    /\ UNCHANGED <<kind, document, applied, layout, stored, history, position>>

ArrangeWorkspace ==
    /\ Open /\ Changing
    /\ \E w \in Layouts \ {layout.application} : layout' = [layout EXCEPT !.application = w]
    /\ UNCHANGED <<kind, document, applied, pending, stored, history, position>>

DocumentInit ==
    /\ kind \in {"generic", "bosch"}
    /\ applied = Original /\ pending = Original.plan /\ document = Initialized(Original)
    /\ LET w == CHOOSE l \in Layouts : TRUE
       IN  layout = [application |-> w, project |-> w] /\ stored = [system |-> Original.system, plan |-> Original.plan, layout |-> w]
    /\ history = <<>> /\ position = 0 /\ changes = 0

DocumentNext ==
    \/ Edit \/ Undo \/ Redo
    \/ Apply \/ Save \/ SaveFails \/ SaveAs \/ CloseProject \/ OpenProject
    \/ SetStop \/ LoadPlan \/ ArrangeWorkspace

DocumentSpec == DocumentInit /\ [][DocumentNext]_documentVars

-----------------------------------------------------------------------------
Resolves(selection, d) ==
    CASE selection.kind = "Resource" -> Has(d.resources, selection.key[1])
      [] selection.kind = "Task" -> Has(d.tasks, selection.key[1])
      [] selection.kind = "Profile" -> HasProfile(d, selection.key[1], selection.key[2])
      [] selection.kind = Communication -> HasRoute(d, selection.key[1], selection.key[2])
      [] OTHER -> TRUE

\* However identifiers are merged, rows removed and steps undone: every profile and route
\* refers to rows of the draft, the assignments list its tasks in order and name its
\* resources.  What an edit selects exists then (a Logical connection may be gone), so that
\* redoing selects no missing entity, and the selection of a draft with changes exists: only
\* Save can leave a selection behind, in a draft that it rebuilt without that entity.
\* The diagnostics are empty exactly for the drafts that the constructors would take and
\* whose identifiers are positive.  The applied and the stored project are always runnable,
\* with a complete plan, and a Bosch project keeps its tasks and routes (editable_system_draft,
\* structural_edit_controller, system_builder_interaction, system_builder_workflow).
EditsSound ==
    /\ Open =>
           /\ \A n \in DOMAIN Draft.profiles :
                  Has(Draft.tasks, Draft.profiles[n].task) /\ Has(Draft.resources, Draft.profiles[n].resource)
           /\ \A n \in DOMAIN Draft.routes : Has(Draft.tasks, Draft.routes[n].source) /\ Has(Draft.tasks, Draft.routes[n].destination)
           /\ Len(document.assignments) = Len(Draft.tasks)
           /\ \A i \in DOMAIN Draft.tasks :
                  /\ document.assignments[i].task = Draft.tasks[i].id
                  /\ document.assignments[i].resource \in Ids(Draft.resources) \cup {Unassigned}
           /\ DraftDirty => Resolves(document.selection, Draft)
           /\ \A i \in DOMAIN history : Resolves(history[i].after.selection, history[i].after.draft)
           /\ Diagnostics(Draft) = {} <=> ConfigAccepts(Draft) /\ 0 \notin Ids(Draft.tasks) \cup Ids(Draft.resources)
    /\ \A a \in {applied, [system |-> stored.system, plan |-> stored.plan]} :
           Runnable(a.system, a.plan.assignments) /\ PolicyAccepts(a.system)
=============================================================================
