-------------------------- MODULE ExperimentConfig --------------------------
(***************************************************************************)
(* The immutable input of one run: the validated experiment configuration, *)
(* the task placement the allocator returned, and the horizon.             *)
(*                                                                         *)
(* Names and the physical tick period do not influence the kernel and are  *)
(* left out.  The collections of tasks and resources are sets of distinct  *)
(* identifiers; the order of the JSON arrays never matters because every   *)
(* user of them sorts by identifier first.                                 *)
(***************************************************************************)
EXTENDS Integers

CONSTANTS
    TaskIds,        \* identifiers of the configured tasks
    ResourceIds,    \* identifiers of the configured resources
    MaxTick,        \* std::numeric_limits<Tick>::max(), the end of the tick domain
    Configs         \* the run inputs to consider

Tick == 0 .. MaxTick

PreemptionMode == {"Preemptive", "NonPreemptive"}

RouteKind == {"Communication", "Logical"}

TaskSpec == [period : Tick, deadline : Tick, offset : Tick, priority : Nat]

MessageRouteSpec == [source : TaskIds, destination : TaskIds, kind : RouteKind, delay : Int]

\* demand[t, r] is the execution time of t on r, 0 when t has no profile for r.
Config == [stop       : Tick,
           mode       : PreemptionMode,
           task       : [TaskIds -> TaskSpec],
           demand     : [TaskIds \X ResourceIds -> Tick],
           assignment : [TaskIds -> ResourceIds],
           routes     : SUBSET MessageRouteSpec]

\* TaskSpec's constructor.
ValidTaskSpec(spec) == spec.period > 0 /\ spec.deadline > 0

\* Every task has a profile and no profile demands more than the task's deadline.
ValidProfiles(c) ==
    \A t \in TaskIds :
        /\ \E r \in ResourceIds : c.demand[t, r] > 0
        /\ \A r \in ResourceIds : c.demand[t, r] <= c.task[t].deadline

\* A latency is zero on a Logical route and nonnegative on a Communication route;
\* an ordered pair of tasks has at most one route.
ValidRoutes(c) ==
    /\ \A route \in c.routes :
           IF route.kind = "Logical" THEN route.delay = 0 ELSE route.delay >= 0
    /\ \A left, right \in c.routes :
           (left.source = right.source /\ left.destination = right.destination) => left = right

\* The engine's constructor accepts a placement only on accessible resources.
ValidAssignment(c) == \A t \in TaskIds : c.demand[t, c.assignment[t]] > 0

ValidConfig(c) ==
    /\ c \in Config
    /\ \A t \in TaskIds : ValidTaskSpec(c.task[t])
    /\ ValidProfiles(c)
    /\ ValidRoutes(c)
    /\ ValidAssignment(c)

ASSUME ConfigAssumption ==
    /\ TaskIds \subseteq Nat
    /\ ResourceIds \subseteq Nat
    /\ MaxTick \in Nat
    /\ \A c \in Configs : ValidConfig(c)

-----------------------------------------------------------------------------
\* Routes the network keeps: Logical ones are erased before the run.
CommunicationRoutes(c) == {route \in c.routes : route.kind = "Communication"}

Destinations(c, t) == {route.destination : route \in {x \in CommunicationRoutes(c) : x.source = t}}

RouteDelay(c, t, d) ==
    (CHOOSE route \in CommunicationRoutes(c) : route.source = t /\ route.destination = d).delay

\* Demand of a job of t, which runs where the allocator placed t.
Demand(c, t) == c.demand[t, c.assignment[t]]
=============================================================================
