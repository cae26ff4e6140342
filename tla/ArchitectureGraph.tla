-------------------------- MODULE ArchitectureGraph --------------------------
(***************************************************************************)
(* The detached description of an experiment that the views draw from, and *)
(* the architecture graph with its layered placement, built from the       *)
(* applied configuration or from the draft being edited.                   *)
(***************************************************************************)
EXTENDS Integers, Sequences, SequencesExt, FiniteSets, FiniteSetsExt, TLC

CONSTANTS
    LabelLength(_),     \* characters of the label of a task or a resource
    NoRow               \* nothing found, no assignment, no layout override

-----------------------------------------------------------------------------
(* Lookup. *)

\* std::lower_bound over keys, and the row found there, if any: meant for sorted keys, it
\* returns something for every sequence.
LowerBound(keys, key) ==
    LET bound[first \in 1 .. Len(keys) + 1, count \in 0 .. Len(keys)] ==
            LET half == count \div 2
            IN  IF count = 0 THEN first
                ELSE IF keys[first + half] < key THEN bound[first + half + 1, count - half - 1]
                ELSE bound[first, half]
    IN  bound[1, Len(keys)]

Located(keys, key) ==
    LET i == LowerBound(keys, key) IN IF i <= Len(keys) /\ keys[i] = key THEN i ELSE 0

IdKeys(rows) == [i \in DOMAIN rows |-> rows[i].id]
TaskKeys(rows) == [i \in DOMAIN rows |-> rows[i].task]
Pair(first, second) == 100 * first + second
RouteKeys(rows) == [i \in DOMAIN rows |-> Pair(rows[i].source, rows[i].destination)]
RowAt(rows, i) == IF i = 0 THEN NoRow ELSE rows[i]

FindById(rows, id) == RowAt(rows, Located(IdKeys(rows), id))
FindAssignment(x, task) == RowAt(x.assignments, Located(TaskKeys(x.assignments), task))
FindRoute(x, source, destination) == RowAt(x.routes, Located(RouteKeys(x.routes), Pair(source, destination)))

AssignedResource(x, task) ==
    LET found == FindAssignment(x, task) IN IF found = NoRow THEN NoRow ELSE found.resource

-----------------------------------------------------------------------------
(* Descriptions. *)

Ordered(rows, Key(_)) == SortSeq(rows, LAMBDA a, b : Key(a) < Key(b))

\* Faulty variant: a configuration is described in the order of its file.
AsDeclared(config, assignments) ==
    [resources |-> config.resources, tasks |-> config.tasks, profiles |-> config.profiles,
     routes |-> config.routes, assignments |-> assignments]

\* build_experiment_presentation.
Presentation(config, assignments) ==
    [resources |-> Ordered(config.resources, LAMBDA row : row.id),
     tasks |-> Ordered(config.tasks, LAMBDA row : row.id),
     profiles |-> Ordered(config.profiles, LAMBDA row : Pair(row.task, row.resource)),
     routes |-> Ordered(config.routes, LAMBDA row : Pair(row.source, row.destination)),
     assignments |-> Ordered(assignments, LAMBDA row : row.task)]

Profiled(config, task, resource) ==
    \E i \in DOMAIN config.profiles : config.profiles[i].task = task /\ config.profiles[i].resource = resource

\* build_assignments accepts exactly one usable assignment per task.
AssignmentsAccepted(config, assignments) ==
    LET rows == Ordered(assignments, LAMBDA row : row.task)
        tasks == Ordered(config.tasks, LAMBDA row : row.id)
    IN  /\ Len(rows) = Len(tasks)
        /\ \A i \in DOMAIN rows :
               /\ \E r \in DOMAIN config.resources : config.resources[r].id = rows[i].resource
               /\ Profiled(config, rows[i].task, rows[i].resource)
               /\ i > 1 => rows[i - 1].task # rows[i].task
               /\ rows[i].task = tasks[i].id

\* build_draft_experiment_presentation keeps the rows in the order of the draft.
DraftPresentation(draft, assignments) ==
    LET known(row) == /\ row.resource # NoRow
                      /\ row.task \in ToSet(IdKeys(draft.tasks)) /\ row.resource \in ToSet(IdKeys(draft.resources))
    IN  [resources |-> draft.resources, tasks |-> draft.tasks, profiles |-> draft.profiles,
         routes |-> draft.routes, assignments |-> SelectSeq(assignments, known)]

-----------------------------------------------------------------------------
(* Layers. *)

SortedInto(ready, i) == SelectSeq(ready, LAMBDA j : j < i) \o <<i>> \o SelectSeq(ready, LAMBDA j : j >= i)

\* build_task_layers: by the longest path from a source; task order if there is a cycle.
TaskLayers(tasks, routes) ==
    LET index(id) == Located(IdKeys(tasks), id)
        ends == [k \in DOMAIN routes |-> index(routes[k].destination)]
        successors(i) == SortSeq([n \in 1 .. Cardinality({k \in DOMAIN routes : index(routes[k].source) = i}) |->
                                      ends[SetToSortSeq({k \in DOMAIN routes : index(routes[k].source) = i}, <)[n]]], <)
        visit(s, from, to) ==
            LET left == s.indegree[to] - 1
            IN  [s EXCEPT !.layers[to] = Max({@, s.layers[from] + 1}), !.indegree[to] = left,
                          !.ready = IF left = 0 THEN SortedInto(@, to) ELSE @]
        process(s, n) ==
            IF s.ready = <<>> THEN s
            ELSE LET from == Head(s.ready)
                 IN  FoldLeft(LAMBDA t, to : visit(t, from, to),
                              [s EXCEPT !.ready = Tail(@), !.processed = @ + 1], successors(from))
        indegree == [i \in DOMAIN tasks |-> Cardinality({k \in DOMAIN routes : ends[k] = i})]
        start == [ready |-> SelectSeq([i \in DOMAIN tasks |-> i], LAMBDA i : indegree[i] = 0),
                  indegree |-> indegree, layers |-> [i \in DOMAIN tasks |-> 0], processed |-> 0]
        final == FoldLeft(process, start, tasks)
    IN  IF final.processed = Len(tasks) THEN final.layers ELSE [i \in DOMAIN tasks |-> i - 1]

MaximumLayer(layers) == Max(ToSet(layers) \cup {0})

-----------------------------------------------------------------------------
(* Placement, in pixels. *)

Margin == 24
Larger(a, b) == IF a < b THEN b ELSE a
Clipped(lo, v, hi) == IF v < lo THEN lo ELSE IF v > hi THEN hi ELSE v
GroupMembers(x, resource) == {i \in DOMAIN x.tasks : AssignedResource(x, x.tasks[i].id) = resource}

GroupHeight(x, layers, resource) ==
    LET stack(layer) == Cardinality({i \in GroupMembers(x, resource) : layers[i] = layer})
        largest == Max({stack(layer) : layer \in 0 .. MaximumLayer(layers)})
    IN  Larger(142, 30 + largest * 26 + (IF largest > 0 THEN largest - 1 ELSE 0) * 12 + 12)

\* The top of the n-th resource box; the unassigned tasks come below the last one.
GroupTop(x, layers, n) ==
    Margin + MapThenSumSet(LAMBDA i : GroupHeight(x, layers, x.resources[i].id) + 30, 1 .. n - 1)

PlacedTask(x, layers, i) ==
    LET resource == AssignedResource(x, x.tasks[i].id)
        group == IF resource = NoRow THEN Len(x.resources) + 1 ELSE Located(IdKeys(x.resources), resource)
        slot == Cardinality({j \in GroupMembers(x, resource) : j < i /\ layers[j] = layers[i]})
    IN  [kind |-> "task", id |-> x.tasks[i].id,
         x |-> Margin + 42 + layers[i] * 260, y |-> GroupTop(x, layers, group) + 30 + slot * 38,
         width |-> Clipped(96, 16 + 8 * LabelLength(x.tasks[i]), 220), height |-> 26]

PlacedResource(x, layers, tasks, n) ==
    LET resource == x.resources[n]
        top == GroupTop(x, layers, n)
        inside == {tasks[i] : i \in GroupMembers(x, resource.id)}
        right == Max({Margin + Larger(48, 24 + 8 * LabelLength(resource))} \cup {t.x + t.width + 12 : t \in inside})
        bottom == Max({top + 48} \cup {t.y + t.height + 12 : t \in inside})
    IN  [kind |-> "resource", id |-> resource.id, x |-> Margin, y |-> top,
         width |-> right - Margin, height |-> bottom - top]

\* Overrides of the workspace: [tasks, resources], each from identifiers to what was moved.
Overridden(node, layout) ==
    LET rows == IF node.kind = "task" THEN layout.tasks ELSE layout.resources
    IN  IF node.id \in DOMAIN rows THEN rows[node.id] @@ node ELSE node

LogicalSize(x, layers, nodes, layout) ==
    LET columns == MaximumLayer(layers) + 1
        rest == IF GroupMembers(x, NoRow) = {} THEN 0 ELSE GroupHeight(x, layers, NoRow) + 30
        width == 84 + columns * 168 + (columns - 1) * 92 + 2 * Margin
        height == Larger(GroupTop(x, layers, Len(x.resources) + 1) + rest, Margin + 26) + Margin
    IN  IF layout = NoRow THEN [width |-> width, height |-> height]
        ELSE [width |-> Max({width} \cup {nodes[i].x + nodes[i].width + Margin : i \in DOMAIN nodes}),
              height |-> Max({height} \cup {nodes[i].y + nodes[i].height + Margin : i \in DOMAIN nodes})]

-----------------------------------------------------------------------------
(* The graph. *)

Dependencies(x, links, bosch) ==
    [i \in DOMAIN links |-> [kind |-> "functional", source |-> links[i][1], destination |-> links[i][2],
                             connection |-> "Logical", latency |-> 0, events |-> FALSE, protected |-> bosch]]

RouteEdges(x, bosch) ==
    LET edge(row) ==
            [kind |-> "route", source |-> row.source, destination |-> row.destination, connection |-> row.kind,
             latency |-> IF bosch THEN 80 ELSE IF row.kind = "Communication" THEN row.delay ELSE 0,
             events |-> row.kind = "Communication", protected |-> bosch]
    IN  [i \in DOMAIN x.routes |-> edge(x.routes[i])]

AssignmentEdges(x) ==
    [i \in DOMAIN x.assignments |-> [kind |-> "assignment", source |-> x.assignments[i].task,
                                     destination |-> x.assignments[i].resource]]

Rejected == [accepted |-> FALSE]

PlacedTasks(x, layers) == [i \in DOMAIN x.tasks |-> PlacedTask(x, layers, i)]

\* Resource boxes first; they are measured around the tasks before anything is moved.
Nodes(x, layers, placed, layout) ==
    LET all == [n \in DOMAIN x.resources |-> PlacedResource(x, layers, placed, n)] \o placed
    IN  IF layout = NoRow THEN all ELSE [i \in DOMAIN all |-> Overridden(all[i], layout)]

GraphOf(x, links, bosch, layers, nodes, layout) ==
    [accepted |-> TRUE, nodes |-> nodes, size |-> LogicalSize(x, layers, nodes, layout),
     edges |-> Dependencies(x, links, bosch) \o RouteEdges(x, bosch) \o AssignmentEdges(x)]

LayeredGraph(x, links, bosch, layers, layout) ==
    GraphOf(x, links, bosch, layers, Nodes(x, layers, PlacedTasks(x, layers), layout), layout)

\* build_architecture_graph sorts first, whoever made the description.
Graph(description, links, bosch, layout) ==
    LET x == Presentation(description, description.assignments)
        tasks == ToSet(IdKeys(x.tasks))
        joined == {<<x.routes[i].source, x.routes[i].destination>> : i \in DOMAIN x.routes} \cup ToSet(links)
    IN  IF \/ ~ joined \subseteq tasks \X tasks
           \/ \E i \in DOMAIN x.assignments :
                  \/ x.assignments[i].task \notin tasks
                  \/ x.assignments[i].resource \notin ToSet(IdKeys(x.resources))
        THEN Rejected
        ELSE LayeredGraph(x, links, bosch, TaskLayers(x.tasks, x.routes), layout)

AssignmentAccessible(x, task, resource) ==
    FindById(x.tasks, task) # NoRow /\ FindById(x.resources, resource) # NoRow /\ Profiled(x, task, resource)

-----------------------------------------------------------------------------
(* The Qt views. *)

\* flat_graph: tasks without an override stand on a grid of four columns.
FlatGraph(graph, layout) ==
    LET index(i) == Cardinality({j \in 1 .. i - 1 : graph.nodes[j].kind = "task"})
        flat(i) == LET node == graph.nodes[i]
                   IN  IF node.kind # "task" \/ (layout # NoRow /\ node.id \in DOMAIN layout.tasks) THEN node
                       ELSE [node EXCEPT !.x = 40 + (index(i) % 4) * 240, !.y = 40 + (index(i) \div 4) * 140]
    IN  [graph EXCEPT !.nodes = [i \in DOMAIN @ |-> flat(i)]]

\* build_task_node_presentations.
TaskBadges(x) ==
    LET badge(task) ==
            LET resource == AssignedResource(x, task)
                times == SelectSeq(x.profiles, LAMBDA row : row.task = task /\ row.resource = resource)
                row == FindById(x.resources, resource)
            IN  [task |-> task, resource |-> resource,
                 name |-> IF resource = NoRow \/ row = NoRow THEN NoRow ELSE row.name,
                 time |-> IF resource = NoRow \/ times = <<>> THEN NoRow ELSE times[1].time]
    IN  [i \in DOMAIN x.tasks |-> badge(x.tasks[i].id)]

\* QtResourceAssignmentModel::rebuild searches from the front.
DockRows(draft, assignments) ==
    LET of(task) == SelectSeq(assignments, LAMBDA row : row.task = task)
        row(task) ==
            LET resource == IF of(task) = <<>> THEN NoRow ELSE of(task)[1].resource
                names == SelectSeq(draft.resources, LAMBDA r : r.id = resource)
                times == SelectSeq(draft.profiles, LAMBDA p : p.task = task /\ p.resource = resource)
            IN  [task |-> task, resource |-> resource,
                 name |-> IF resource = NoRow \/ names = <<>> THEN NoRow ELSE names[1].name,
                 time |-> IF resource = NoRow \/ times = <<>> THEN NoRow ELSE times[1].time]
    IN  [i \in DOMAIN draft.tasks |-> row(draft.tasks[i].id)]

-----------------------------------------------------------------------------
Flipped(config) ==
    [config EXCEPT !.resources = Reverse(@), !.tasks = Reverse(@), !.profiles = Reverse(@), !.routes = Reverse(@)]

Acyclic(tasks, pairs) ==
    \A rest \in SUBSET tasks \ {{}} : \E t \in rest : ~ \E from \in rest : <<from, t>> \in pairs

Apart(a, b) ==
    \/ a.x + a.width < b.x \/ b.x + b.width < a.x
    \/ a.y + a.height < b.y \/ b.y + b.height < a.y

Within(a, b) ==
    b.x <= a.x /\ b.y <= a.y /\ a.x + a.width <= b.x + b.width /\ a.y + a.height <= b.y + b.height

\* A description of an accepted experiment does not depend on the order of declaration, every
\* row of it can be looked up, and a plan is described exactly when it assigns each task once,
\* to a resource it has a profile for (build_experiment_presentation).
DescriptionSound(config, assignments) ==
    LET x == Presentation(config, assignments)
        tasks == ToSet(IdKeys(config.tasks))
        chosen(t) == {i \in DOMAIN assignments : assignments[i].task = t}
    IN  /\ AssignmentsAccepted(config, assignments) <=>
               /\ ToSet(TaskKeys(assignments)) = tasks /\ \A t \in tasks : Cardinality(chosen(t)) = 1
               /\ \A i \in DOMAIN assignments : Profiled(config, assignments[i].task, assignments[i].resource)
        /\ x = Presentation(Flipped(config), Reverse(assignments))
        /\ \A i \in DOMAIN config.tasks : FindById(x.tasks, config.tasks[i].id) = config.tasks[i]
        /\ \A i \in DOMAIN config.resources : FindById(x.resources, config.resources[i].id) = config.resources[i]
        /\ \A i \in DOMAIN config.routes :
               FindRoute(x, config.routes[i].source, config.routes[i].destination) = config.routes[i]
        /\ \A t \in tasks, r \in ToSet(IdKeys(config.resources)) :
               AssignmentAccessible(x, t, r) <=> Profiled(config, t, r)
        /\ AssignmentsAccepted(config, assignments) =>
               ToSet(TaskBadges(x)) = ToSet(DockRows(config, assignments))

DrawnSound(g, x, links, layout) ==
    LET tasks == ToSet(IdKeys(x.tasks))
        pairs == {<<x.routes[i].source, x.routes[i].destination>> : i \in DOMAIN x.routes}
        nodes == ToSet(g.nodes)
        node(kind, id) == CHOOSE n \in nodes : n.kind = kind /\ n.id = id
        flat == ToSet(FlatGraph(g, layout).nodes)
        canvas == [x |-> 0, y |-> 0] @@ g.size
    IN  /\ Len(g.nodes) = Len(x.resources) + Len(x.tasks) /\ Cardinality(nodes) = Len(g.nodes)
        /\ Len(g.edges) = Len(links) + Len(x.routes) + Len(x.assignments)
        /\ \A n \in nodes : n.kind = "task" => Within(n, canvas)
        /\ layout = NoRow =>
               /\ \A m, n \in nodes : m # n /\ m.kind = n.kind => Apart(m, n)
               /\ \A t \in tasks : \A n \in nodes :
                      n.kind = "resource" =>
                          IF [task |-> t, resource |-> n.id] \in ToSet(x.assignments) THEN Within(node("task", t), n)
                          ELSE Apart(node("task", t), n)
               /\ Acyclic(tasks, pairs) => \A p \in pairs : node("task", p[1]).x < node("task", p[2]).x
               /\ \A m, n \in flat : m # n /\ m.kind = "task" /\ n.kind = "task" => Apart(m, n)
        /\ layout # NoRow =>
               \A t \in tasks \cap DOMAIN layout.tasks : layout.tasks[t] @@ node("task", t) = node("task", t)

\* The graph has one node per resource and task and one edge per dependency, route and
\* assignment.  Without overrides no two tasks and no two resources overlap, every task is in
\* the box of its resource and in no other, and when the routes have no cycle they all lead
\* to the right; moved nodes are where they were moved to, and the canvas holds every task
\* (build_architecture_graph, flat_graph).
GraphSound(x, links, bosch, layout) ==
    LET g == Graph(x, links, bosch, layout) IN g.accepted => DrawnSound(g, x, links, layout)
=============================================================================
