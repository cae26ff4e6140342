----------------------------- MODULE SystemDraft -----------------------------
(***************************************************************************)
(* The detached system under edit: its rows, the operations on them, the   *)
(* deterministic Explorer actions, and the diagnostics that decide whether *)
(* it may become an experiment.  Identifiers are numbers (0 is invalid);   *)
(* a name is the sequence of choices that made it, <<>> the empty name.    *)
(* Every route's send offset is the fixed one: nothing can change it.      *)
(***************************************************************************)
EXTENDS Integers, Sequences, FiniteSets, SequencesExt

CONSTANT Unassigned   \* the run assignment of a task without a resource

Logical == "Logical"
Communication == "Communication"

Ids(rows) == {rows[i].id : i \in DOMAIN rows}
Names(rows) == {rows[i].name : i \in DOMAIN rows}
Has(rows, id) == \E i \in DOMAIN rows : rows[i].id = id
At(rows, id) == Min({i \in DOMAIN rows : rows[i].id = id})

\* The rows at some places, in their order; the others have been erased.
RowsAt(rows, places) ==
    LET kept[n \in 0 .. Len(rows)] ==
            IF n = 0 THEN <<>> ELSE IF n \in places THEN Append(kept[n - 1], rows[n]) ELSE kept[n - 1]
    IN  kept[Len(rows)]

SmallestUnused(rows) == Min((1 .. Len(rows) + 1) \ Ids(rows))
UniqueCopyName(rows, name) ==
    Append(name, Min({n \in 1 .. Len(rows) + 1 : Append(name, n) \notin Names(rows)}))

-----------------------------------------------------------------------------
(* Resources and tasks. *)

AddResource(d) ==
    LET id == SmallestUnused(d.resources)
    IN  [d EXCEPT !.resources = Append(@, [id |-> id, name |-> <<id>>])]

DuplicateResource(d, i) ==
    [d EXCEPT !.resources = Append(@, [id |-> SmallestUnused(@), name |-> UniqueCopyName(@, @[i].name)])]

CascadeRemoveResource(d, id) ==
    IF ~ Has(d.resources, id) THEN d
    ELSE [d EXCEPT !.profiles = RowsAt(@, {i \in DOMAIN @ : @[i].resource # id}),
                   !.resources = RemoveAt(@, At(@, id))]

Renamed(value, old, new) == IF value = old THEN new ELSE value

\* Profiles or assignments whose resource, or whose task, has another identifier.
ResourceRenamed(rows, old, new) == [n \in DOMAIN rows |-> [rows[n] EXCEPT !.resource = Renamed(@, old, new)]]
TaskRenamed(rows, old, new) == [n \in DOMAIN rows |-> [rows[n] EXCEPT !.task = Renamed(@, old, new)]]

SetResourceId(d, i, id) ==
    LET old == d.resources[i].id
    IN  [d EXCEPT !.resources[i].id = id,
                  !.profiles = ResourceRenamed(@, old, id)]

SetResourceName(d, i, name) == [d EXCEPT !.resources[i].name = name]

DefaultTiming == [period |-> 10, deadline |-> 10, offset |-> 0, priority |-> 0]

AddTask(d) ==
    LET id == SmallestUnused(d.tasks)
    IN  [d EXCEPT !.tasks = Append(@, [id |-> id, name |-> <<id>>, timing |-> DefaultTiming])]

DuplicateTask(d, i) ==
    [d EXCEPT !.tasks = Append(@, [id |-> SmallestUnused(@), name |-> UniqueCopyName(@, @[i].name),
                                   timing |-> @[i].timing])]

\* Faulty variant of CascadeRemoveTask: the routes of the task are kept.
KeepRoutes(d, id) ==
    IF ~ Has(d.tasks, id) THEN d
    ELSE [d EXCEPT !.profiles = RowsAt(@, {i \in DOMAIN @ : @[i].task # id}), !.tasks = RemoveAt(@, At(@, id))]

CascadeRemoveTask(d, id) ==
    IF ~ Has(d.tasks, id) THEN d
    ELSE [d EXCEPT !.profiles = RowsAt(@, {i \in DOMAIN @ : @[i].task # id}),
                   !.routes = RowsAt(@, {i \in DOMAIN @ : @[i].source # id /\ @[i].destination # id}),
                   !.tasks = RemoveAt(@, At(@, id))]

SetTaskId(d, i, id) ==
    LET old == d.tasks[i].id
    IN  [d EXCEPT !.tasks[i].id = id,
                  !.profiles = TaskRenamed(@, old, id),
                  !.routes = [n \in DOMAIN d.routes |-> [d.routes[n] EXCEPT !.source = Renamed(@, old, id),
                                                                            !.destination = Renamed(@, old, id)]]]

SetTaskName(d, i, name) == [d EXCEPT !.tasks[i].name = name]
SetTaskTiming(d, i, timing) == [d EXCEPT !.tasks[i].timing = timing]

-----------------------------------------------------------------------------
(* Execution profiles and message routes. *)

ProfileAt(d, task, resource) == {i \in DOMAIN d.profiles : d.profiles[i].task = task /\ d.profiles[i].resource = resource}
HasProfile(d, task, resource) == ProfileAt(d, task, resource) # {}
ExecutionTime(d, task, resource) == d.profiles[Min(ProfileAt(d, task, resource))].time

SetProfile(d, task, resource, time) ==
    IF HasProfile(d, task, resource)
    THEN [d EXCEPT !.profiles[Min(ProfileAt(d, task, resource))].time = time]
    ELSE [d EXCEPT !.profiles = Append(@, [task |-> task, resource |-> resource, time |-> time])]

RemoveProfile(d, task, resource) ==
    [d EXCEPT !.profiles = RowsAt(@, {i \in DOMAIN @ : @[i].task # task \/ @[i].resource # resource})]

\* The first pair of rows, in the order of both tables, that is still free.
Earliest(pairs) == CHOOSE p \in pairs : \A q \in pairs : p[1] < q[1] \/ (p[1] = q[1] /\ p[2] <= q[2])

FreeProfiles(d) == {p \in (DOMAIN d.tasks) \X (DOMAIN d.resources) :
                        ~ HasProfile(d, d.tasks[p[1]].id, d.resources[p[2]].id)}
NextProfile(d) == LET p == Earliest(FreeProfiles(d)) IN <<d.tasks[p[1]].id, d.resources[p[2]].id>>

RouteAt(d, source, destination) ==
    {i \in DOMAIN d.routes : d.routes[i].source = source /\ d.routes[i].destination = destination}
HasRoute(d, source, destination) == RouteAt(d, source, destination) # {}

FreeRoutes(d) == {p \in (DOMAIN d.tasks) \X (DOMAIN d.tasks) : ~ HasRoute(d, d.tasks[p[1]].id, d.tasks[p[2]].id)}
NextRoute(d) == LET p == Earliest(FreeRoutes(d)) IN <<d.tasks[p[1]].id, d.tasks[p[2]].id>>

AddRoute(d, source, destination, kind) ==
    [d EXCEPT !.routes = Append(@, [source |-> source, destination |-> destination, kind |-> kind,
                                    delay |-> IF kind = Logical THEN 0 ELSE 1])]

RemoveRoute(d, key) ==
    [d EXCEPT !.routes = RowsAt(@, {i \in DOMAIN @ : @[i].source # key[1] \/ @[i].destination # key[2]})]
SetRoute(d, i, route) == [d EXCEPT !.routes[i] = route]

-----------------------------------------------------------------------------
(* Building the experiment and its run plan. *)

Repeated(rows, field(_)) == {i \in DOMAIN rows : \E j \in 1 .. i - 1 : field(rows[i]) = field(rows[j])}

RowDiagnostics(kind, rows) ==
    (IF rows = <<>> THEN {<<"Required", "System", 0>>} ELSE {})
    \cup {<<"NonPositive", kind, i>> : i \in {n \in DOMAIN rows : rows[n].id = 0}}
    \cup {<<"RequiredName", kind, i>> : i \in {n \in DOMAIN rows : rows[n].name = <<>>}}
    \cup {<<"Duplicate", kind, i>> : i \in Repeated(rows, LAMBDA row : row.id)}
    \cup {<<"DuplicateName", kind, i>> : i \in {n \in Repeated(rows, LAMBDA row : row.name) : rows[n].name # <<>>}}

TimingDiagnostics(tasks) ==
    {<<"Timing", "Task", i>> : i \in {n \in DOMAIN tasks :
        LET t == tasks[n].timing IN t.period <= 0 \/ t.deadline <= 0 \/ t.offset < 0 \/ t.priority < 0}}

ProfileDiagnostics(d) ==
    {<<"Unknown", "ExecutionProfile", i>> : i \in {n \in DOMAIN d.profiles :
        ~ Has(d.tasks, d.profiles[n].task) \/ ~ Has(d.resources, d.profiles[n].resource)}}
    \cup {<<"NonPositive", "ExecutionProfile", i>> : i \in {n \in DOMAIN d.profiles : d.profiles[n].time <= 0}}
    \cup {<<"ExceedsDeadline", "ExecutionProfile", i>> : i \in {n \in DOMAIN d.profiles :
              LET p == d.profiles[n]
              IN  Has(d.tasks, p.task) /\ p.time > d.tasks[At(d.tasks, p.task)].timing.deadline}}
    \cup {<<"Duplicate", "ExecutionProfile", i>> : i \in Repeated(d.profiles, LAMBDA p : <<p.task, p.resource>>)}
    \cup {<<"RequiredProfile", "Task", i>> : i \in {n \in DOMAIN d.tasks :
              \A k \in DOMAIN d.profiles : d.profiles[k].task # d.tasks[n].id}}

RouteDiagnostics(d) ==
    {<<"Unknown", "MessageRoute", i>> : i \in {n \in DOMAIN d.routes :
        ~ Has(d.tasks, d.routes[n].source) \/ ~ Has(d.tasks, d.routes[n].destination)}}
    \cup {<<"Delay", "MessageRoute", i>> : i \in {n \in DOMAIN d.routes :
              IF d.routes[n].kind = Logical THEN d.routes[n].delay # 0 ELSE d.routes[n].delay < 0}}
    \cup {<<"Duplicate", "MessageRoute", i>> : i \in Repeated(d.routes, LAMBDA r : <<r.source, r.destination>>)}

Diagnostics(d) ==
    (IF d.tick_period <= 0 THEN {<<"NonPositive", "System", 0>>} ELSE {})
    \cup RowDiagnostics("Resource", d.resources) \cup RowDiagnostics("Task", d.tasks)
    \cup TimingDiagnostics(d.tasks) \cup ProfileDiagnostics(d) \cup RouteDiagnostics(d)

\* What the constructors of the specifications and of ExperimentConfig accept.
Distinct(rows, field(_)) == Cardinality({field(rows[i]) : i \in DOMAIN rows}) = Len(rows)
ConfigAccepts(d) ==
    /\ d.tick_period > 0 /\ d.resources # <<>> /\ d.tasks # <<>> /\ d.profiles # <<>>
    /\ \A rows \in {d.resources, [i \in DOMAIN d.tasks |-> [id |-> d.tasks[i].id, name |-> d.tasks[i].name]]} :
           Distinct(rows, LAMBDA r : r.id) /\ Distinct(rows, LAMBDA r : r.name) /\ <<>> \notin Names(rows)
    /\ \A i \in DOMAIN d.tasks :
           LET task == d.tasks[i]
           IN  /\ task.timing.period > 0 /\ task.timing.deadline > 0
               /\ task.timing.offset >= 0 /\ task.timing.priority >= 0
               /\ \E n \in DOMAIN d.profiles : d.profiles[n].task = task.id
               /\ \A n \in DOMAIN d.profiles :
                      d.profiles[n].task = task.id => d.profiles[n].time <= task.timing.deadline
    /\ Distinct(d.profiles, LAMBDA p : <<p.task, p.resource>>)
    /\ \A n \in DOMAIN d.profiles : d.profiles[n].task \in Ids(d.tasks) /\ d.profiles[n].resource \in Ids(d.resources)
                                    /\ d.profiles[n].time > 0
    /\ Distinct(d.routes, LAMBDA r : <<r.source, r.destination>>)
    /\ \A n \in DOMAIN d.routes :
           LET r == d.routes[n]
           IN  {r.source, r.destination} \subseteq Ids(d.tasks) /\ r.delay >= 0 /\ (r.kind = Logical => r.delay = 0)

\* build_run_plan: the rows that name a resource, one for each task and on a profile; the
\* plan lists them in the order of the tasks.
RowsOf(assignments, task) == {i \in DOMAIN assignments : assignments[i].task = task}
Chosen(assignments, task) == {i \in RowsOf(assignments, task) : assignments[i].resource # Unassigned}
PlanAccepts(d, assignments) ==
    /\ \A i \in DOMAIN assignments : assignments[i].resource # Unassigned => Has(d.tasks, assignments[i].task)
    /\ \A task \in Ids(d.tasks) :
           /\ Cardinality(Chosen(assignments, task)) = 1
           /\ \A i \in Chosen(assignments, task) :
                  Has(d.resources, assignments[i].resource) /\ HasProfile(d, task, assignments[i].resource)
Canonical(d, assignments) == [i \in DOMAIN d.tasks |-> assignments[Min(Chosen(assignments, d.tasks[i].id))]]
=============================================================================
