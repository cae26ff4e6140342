--------------------------- MODULE ConfigDocuments ---------------------------
(***************************************************************************)
(* The two JSON documents of an experiment: the configuration in its four  *)
(* schema versions, and the run plan, which names the experiment it was    *)
(* made for by a signature.  A JSON value is a tagged pair; a string is a  *)
(* sequence of words.                                                      *)
(***************************************************************************)
EXTENDS SystemDraft, FiniteSets, TLC

CONSTANTS
    MaxTick,        \* the largest tick, 2^63 - 1 in the code; identifiers go twice, an int half as far
    Unreadable      \* what a refused document means

Object(fields) == <<"object", fields>>
Array(rows) == <<"array", rows>>
Number(n) == <<"number", n>>
String(words) == <<"string", words>>
ArrayOf(rows, Row(_)) == Array([i \in DOMAIN rows |-> Row(rows[i])])

IsNumber(v) == v[1] = "number"
IsString(v) == v[1] = "string"
IsUnsigned(v) == IsNumber(v) /\ v[2] >= 0

\* Faulty variant of OnlyFields: more fields than the schema knows are let through.
AtLeastFields(v, fields) == v[1] = "object" /\ fields \subseteq DOMAIN v[2]

\* require_only_fields and require_field.
OnlyFields(v, fields) == v[1] = "object" /\ DOMAIN v[2] = fields
ArrayWith(v, Row(_)) == v[1] = "array" /\ \A i \in DOMAIN v[2] : Row(v[2][i])

-----------------------------------------------------------------------------
(* Writing the configuration: always version 4. *)

ResourceJson(r) == Object([id |-> Number(r.id), name |-> String(r.name)])
TaskJson(t) ==
    Object([id |-> Number(t.id), name |-> String(t.name), period_ticks |-> Number(t.timing.period),
            deadline_ticks |-> Number(t.timing.deadline), offset_ticks |-> Number(t.timing.offset),
            priority |-> Number(t.timing.priority)])
TimeJson(time) == Object([kind |-> String(<<"deterministic">>), ticks |-> Number(time)])
ProfileJson(p) ==
    Object([task_id |-> Number(p.task), resource_id |-> Number(p.resource), execution_time |-> TimeJson(p.time)])
KindNumber(kind) == IF kind = Logical THEN 1 ELSE 0
RouteJson(r) ==
    Object([source_task_id |-> Number(r.source), destination_task_id |-> Number(r.destination),
            send_offset_ticks |-> Number(r.offset), delay_ticks |-> Number(r.delay),
            kind |-> Number(KindNumber(r.kind))])

ConfigJson(c) ==
    Object([schema_version |-> Number(4), tick_period_ns |-> Number(c.tick_period),
            scheduling |-> Object([preemption |-> String(<<c.preemption>>)]),
            resources |-> ArrayOf(c.resources, ResourceJson), tasks |-> ArrayOf(c.tasks, TaskJson),
            task_resource_profiles |-> ArrayOf(c.profiles, ProfileJson),
            message_routes |-> ArrayOf(c.routes, RouteJson)])

-----------------------------------------------------------------------------
(* Reading it. *)

\* read_tick: a number beyond the tick domain wraps around.
TickIn(v) == IF v[2] > MaxTick THEN v[2] - 2 * (MaxTick + 1) ELSE v[2]
MaxInt == MaxTick \div 2
PriorityFits(v) == IsNumber(v) /\ TickIn(v) \in (-MaxInt - 1) .. MaxInt

ResourceReadable(v) == OnlyFields(v, {"id", "name"}) /\ IsUnsigned(v[2].id) /\ IsString(v[2].name)
ResourceIn(v) == [id |-> v[2].id[2], name |-> v[2].name[2]]

TaskFields == {"id", "name", "period_ticks", "deadline_ticks", "offset_ticks", "priority"}
TaskValuesReadable(v) ==
    /\ IsUnsigned(v[2].id) /\ IsString(v[2].name)
    /\ IsNumber(v[2].period_ticks) /\ IsNumber(v[2].deadline_ticks) /\ IsNumber(v[2].offset_ticks)
    /\ PriorityFits(v[2].priority)
TaskReadable(v) == OnlyFields(v, TaskFields) /\ TaskValuesReadable(v)
TaskIn(v) ==
    [id |-> v[2].id[2], name |-> v[2].name[2],
     timing |-> [period |-> TickIn(v[2].period_ticks), deadline |-> TickIn(v[2].deadline_ticks),
                 offset |-> TickIn(v[2].offset_ticks), priority |-> TickIn(v[2].priority)]]

TimeReadable(v) ==
    OnlyFields(v, {"kind", "ticks"}) /\ v[2].kind = String(<<"deterministic">>) /\ IsNumber(v[2].ticks)

\* parse_task_v1: the task names its only resource.
OldTaskReadable(v) ==
    /\ OnlyFields(v, TaskFields \cup {"resource_id", "execution_time"})
    /\ TaskValuesReadable(v) /\ IsUnsigned(v[2].resource_id) /\ TimeReadable(v[2].execution_time)
OldProfileIn(v) ==
    [task |-> v[2].id[2], resource |-> v[2].resource_id[2], time |-> TickIn(v[2].execution_time[2].ticks)]

ProfileReadable(v) ==
    /\ OnlyFields(v, {"task_id", "resource_id", "execution_time"})
    /\ IsUnsigned(v[2].task_id) /\ IsUnsigned(v[2].resource_id) /\ TimeReadable(v[2].execution_time)
ProfileIn(v) ==
    [task |-> v[2].task_id[2], resource |-> v[2].resource_id[2], time |-> TickIn(v[2].execution_time[2].ticks)]

\* The kind of a route is a number, a word, or missing; what is not understood counts as
\* Communication, but a wrong number, narrowed to an int, is refused by the configuration.
RouteFields == {"source_task_id", "destination_task_id", "send_offset_ticks", "delay_ticks"}
RouteReadable(v) ==
    /\ OnlyFields(v, RouteFields) \/ OnlyFields(v, RouteFields \cup {"kind"})
    /\ IsUnsigned(v[2].source_task_id) /\ IsUnsigned(v[2].destination_task_id)
    /\ IsNumber(v[2].send_offset_ticks) /\ IsNumber(v[2].delay_ticks)
Narrowed(n) == ((n + MaxInt + 1) % (2 * (MaxInt + 1))) - MaxInt - 1
KindNumberIn(v) ==
    IF "kind" \notin DOMAIN v[2] THEN 0
    ELSE IF IsNumber(v[2].kind) THEN Narrowed(v[2].kind[2])
    ELSE IF v[2].kind \in {String(<<"logical">>), String(<<"Logical">>)} THEN 1 ELSE 0
RouteIn(v) ==
    [source |-> v[2].source_task_id[2], destination |-> v[2].destination_task_id[2],
     kind |-> IF KindNumberIn(v) = 1 THEN Logical ELSE Communication,
     offset |-> TickIn(v[2].send_offset_ticks), delay |-> TickIn(v[2].delay_ticks)]

Modes == {"preemptive", "non_preemptive"}
SchedulingReadable(v) == OnlyFields(v, {"preemption"}) /\ v[2].preemption \in {String(<<m>>) : m \in Modes}

\* What each version adds to the one before.
SectionsOf(version) ==
    {"schema_version", "tick_period_ns", "resources", "tasks"}
    \cup (IF version >= 2 THEN {"task_resource_profiles"} ELSE {})
    \cup (IF version >= 3 THEN {"scheduling"} ELSE {})
    \cup (IF version >= 4 THEN {"message_routes"} ELSE {})

VersionIn(doc) ==
    IF doc[1] = "object" /\ "schema_version" \in DOMAIN doc[2] /\ IsUnsigned(doc[2].schema_version)
    THEN doc[2].schema_version[2] ELSE 0

Readable(doc) ==
    LET version == VersionIn(doc)
    IN  /\ version \in 1 .. 4 /\ OnlyFields(doc, SectionsOf(version))
        /\ IsNumber(doc[2].tick_period_ns)
        /\ ArrayWith(doc[2].resources, ResourceReadable)
        /\ version = 1 => ArrayWith(doc[2].tasks, OldTaskReadable)
        /\ version >= 2 => /\ ArrayWith(doc[2].tasks, TaskReadable)
                           /\ ArrayWith(doc[2].task_resource_profiles, ProfileReadable)
        /\ version >= 3 => SchedulingReadable(doc[2].scheduling)
        /\ version >= 4 => /\ ArrayWith(doc[2].message_routes, RouteReadable)
                           /\ \A i \in DOMAIN doc[2].message_routes[2] :
                                  KindNumberIn(doc[2].message_routes[2][i]) \in {0, 1}

RowsIn(v, Row(_)) == [i \in DOMAIN v[2] |-> Row(v[2][i])]

\* parse_document: versions before 3 are preemptive, versions before 4 have no routes.
Meaning(doc) ==
    LET version == VersionIn(doc)
    IN  [tick_period |-> TickIn(doc[2].tick_period_ns),
         preemption |-> IF version >= 3 THEN doc[2].scheduling[2].preemption[2][1] ELSE "preemptive",
         resources |-> RowsIn(doc[2].resources, ResourceIn), tasks |-> RowsIn(doc[2].tasks, TaskIn),
         profiles |-> IF version = 1 THEN RowsIn(doc[2].tasks, OldProfileIn)
                      ELSE RowsIn(doc[2].task_resource_profiles, ProfileIn),
         routes |-> IF version >= 4 THEN RowsIn(doc[2].message_routes, RouteIn) ELSE <<>>]

\* The constructors have the last word; a route's send offset is one tick.
ParsedConfig(doc) ==
    IF ~ Readable(doc) THEN Unreadable
    ELSE LET c == Meaning(doc)
         IN  IF ConfigAccepts(c) /\ \A i \in DOMAIN c.routes : c.routes[i].offset = 1 THEN c ELSE Unreadable

-----------------------------------------------------------------------------
(* The run plan.  A plan is a stop tick and assignments in the order of the tasks. *)

ById(a, b) == a.id < b.id
ByPair(a, b, first, second) == a[first] < b[first] \/ (a[first] = b[first] /\ a[second] < b[second])

\* build_experiment_signature: every row, in an order that does not depend on the file's.
Signature(c) ==
    LET profile(p) == Object([task_id |-> Number(p.task), resource_id |-> Number(p.resource),
                              execution_time_ticks |-> Number(p.time)])
        byTask(a, b) == ByPair(a, b, "task", "resource")
        byEnds(a, b) == ByPair(a, b, "source", "destination")
    IN  Object([tick_period_ns |-> Number(c.tick_period), preemption |-> String(<<c.preemption>>),
                resources |-> ArrayOf(SortSeq(c.resources, ById), ResourceJson),
                tasks |-> ArrayOf(SortSeq(c.tasks, ById), TaskJson),
                task_resource_profiles |-> ArrayOf(SortSeq(c.profiles, byTask), profile),
                message_routes |-> ArrayOf(SortSeq(c.routes, byEnds), RouteJson)])

AssignmentJson(a) == Object([task_id |-> Number(a.task), resource_id |-> Number(a.resource)])

\* serialize_run_plan_json.
PlanJson(c, plan) ==
    LET byTask(a, b) == a.task < b.task
    IN  Object([schema_version |-> Number(1), experiment_signature |-> Signature(c),
                stop_tick |-> Number(plan.stop),
                scheduling_policy |-> Object([kind |-> String(<<"fixed_priority">>)]),
                task_assignments |-> ArrayOf(SortSeq(plan.assignments, byTask), AssignmentJson)])

AssignmentReadable(v) ==
    OnlyFields(v, {"task_id", "resource_id"}) /\ IsUnsigned(v[2].task_id) /\ IsUnsigned(v[2].resource_id)
AssignmentIn(v) == [task |-> v[2].task_id[2], resource |-> v[2].resource_id[2]]

\* parse_run_plan_json.  Here a number beyond the tick domain is refused.
PlanReadable(doc, c) ==
    /\ OnlyFields(doc, {"schema_version", "experiment_signature", "stop_tick", "scheduling_policy",
                        "task_assignments"})
    /\ doc[2].schema_version = Number(1)
    /\ doc[2].experiment_signature = Signature(c)
    /\ IsNumber(doc[2].stop_tick) /\ doc[2].stop_tick[2] <= MaxTick
    /\ OnlyFields(doc[2].scheduling_policy, {"kind"})
    /\ doc[2].scheduling_policy[2].kind = String(<<"fixed_priority">>)
    /\ ArrayWith(doc[2].task_assignments, AssignmentReadable)

ParsedPlan(doc, c) ==
    IF ~ PlanReadable(doc, c) THEN Unreadable
    ELSE LET rows == RowsIn(doc[2].task_assignments, AssignmentIn)
             stop == doc[2].stop_tick[2]
         IN  IF stop >= 0 /\ PlanAccepts(c, rows) THEN [stop |-> stop, assignments |-> Canonical(c, rows)]
             ELSE Unreadable

-----------------------------------------------------------------------------
(* Documents to read: older versions of a configuration, and documents damaged in one place. *)

OldTaskJson(c, task) ==
    LET p == c.profiles[Min({i \in DOMAIN c.profiles : c.profiles[i].task = task.id})]
    IN  Object(TaskJson(task)[2] @@ [resource_id |-> Number(p.resource), execution_time |-> TimeJson(p.time)])

VersionJson(c, version) ==
    LET fields == [ConfigJson(c)[2] EXCEPT
                      !.schema_version = Number(version),
                      !.tasks = IF version > 1 THEN @ ELSE ArrayOf(c.tasks, LAMBDA t : OldTaskJson(c, t))]
    IN  Object([f \in SectionsOf(version) |-> fields[f]])

\* What version n of the file can say of a configuration.
Restricted(c, version) ==
    [c EXCEPT !.preemption = IF version >= 3 THEN @ ELSE "preemptive",
              !.routes = IF version >= 4 THEN @ ELSE <<>>,
              !.profiles = IF version >= 2 THEN @
                           ELSE [i \in DOMAIN c.tasks |->
                                    @[Min({n \in DOMAIN @ : @[n].task = c.tasks[i].id})]]]

RECURSIVE Variants(_)
Variants(v) ==
    CASE v[1] = "object" ->
             {Object([f \in DOMAIN v[2] \ {g} |-> v[2][f]]) : g \in DOMAIN v[2]}
             \cup {Object(v[2] @@ [unknown |-> Number(0)]), Array(<<>>)}
             \cup UNION {{Object([v[2] EXCEPT ![g] = w]) : w \in Variants(v[2][g])} : g \in DOMAIN v[2]}
      [] v[1] = "array" ->
             {Array(RemoveAt(v[2], i)) : i \in DOMAIN v[2]}
             \cup {Array(Append(v[2], v[2][i])) : i \in DOMAIN v[2]} \cup {Number(1)}
             \cup UNION {{Array([v[2] EXCEPT ![i] = w]) : w \in Variants(v[2][i])} : i \in DOMAIN v[2]}
      [] v[1] = "number" -> {Number(-1), Number(2), Number(MaxTick + 1), String(<<"other">>)}
      [] OTHER -> {Number(0), String(<<"other">>), String(<<>>)}

WithoutKinds(doc) ==
    LET plain(route) == Object([f \in DOMAIN route[2] \ {"kind"} |-> route[2][f]])
    IN  Object([doc[2] EXCEPT !.message_routes = ArrayOf(@[2], plain)])

SameRows(c, d) ==
    /\ c.tick_period = d.tick_period /\ c.preemption = d.preemption
    /\ ToSet(c.resources) = ToSet(d.resources) /\ ToSet(c.tasks) = ToSet(d.tasks)
    /\ ToSet(c.profiles) = ToSet(d.profiles) /\ ToSet(c.routes) = ToSet(d.routes)

\* A configuration and a plan read back as they were written, and an older version of the
\* file as far as it can say.  A document damaged in one place is refused, or what was read
\* says everything that the document says, but for a route's kind.  A plan belongs to
\* exactly the experiments with the same rows, in whatever order, and assigns the same
\* there (json_config.cpp, json_run_plan.cpp).
ConfigReadsBack(c) ==
    /\ \A version \in 1 .. 4 : ParsedConfig(VersionJson(c, version)) = Restricted(c, version)
    /\ \A doc \in Variants(ConfigJson(c)) :
           LET read == ParsedConfig(doc)
           IN  read # Unreadable => WithoutKinds(ConfigJson(read)) = WithoutKinds(doc)

PlanReadsBack(c, plan, other) ==
    LET read == ParsedPlan(PlanJson(c, plan), other)
    IN  /\ c = other => read = plan
        /\ read # Unreadable <=> SameRows(c, other)
        /\ read # Unreadable => /\ read.stop = plan.stop
                                /\ ToSet(read.assignments) = ToSet(plan.assignments)
        /\ c = other => \A doc \in Variants(PlanJson(c, plan)) :
                            ParsedPlan(doc, c) # Unreadable => PlanJson(c, ParsedPlan(doc, c)) = doc
=============================================================================
