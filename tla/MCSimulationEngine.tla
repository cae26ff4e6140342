------------------------- MODULE MCSimulationEngine -------------------------
(***************************************************************************)
(* Small families of run inputs for the simulation engine.  A family is a  *)
(* set of configurations; Init picks one, so that one run of TLC covers    *)
(* all of them.                                                            *)
(***************************************************************************)
EXTENDS EngineProperties, TLC

Timing(p, d, o, prio) == [period |-> p, deadline |-> d, offset |-> o, priority |-> prio]
Route(s, d, kind, delay) == [source |-> s, destination |-> d, kind |-> kind, delay |-> delay]

-----------------------------------------------------------------------------
(* Two tasks on one resource: timings with idle time, exact meets, misses, *)
(* preemptions and self-overlaps, releases on the horizon, and deadlines   *)
(* beyond the tick domain.  One run has messages and one has no release.   *)

SingleTasks == {1, 2}
SingleResources == {1}

SingleConfigs ==
    {c \in {[stop |-> 6, mode |-> m, task |-> (1 :> a @@ 2 :> b),
             demand |-> (<<1, 1>> :> p @@ <<2, 1>> :> q),
             assignment |-> [t \in SingleTasks |-> 1], routes |-> {}] :
               m \in PreemptionMode,
               a \in [period : {2, 3}, deadline : {2, 4}, offset : {0, 1}, priority : {1}],
               b \in [period : {4, 6}, deadline : {3, 4}, offset : {0, 2}, priority : {0, 1, 2}],
               p \in 1 .. 2, q \in 1 .. 3} : ValidConfig(c)}
    \cup {[stop |-> 6, mode |-> "Preemptive", task |-> (1 :> Timing(3, 3, o, 1) @@ 2 :> Timing(4, 4, 7, 2)),
           demand |-> [x \in SingleTasks \X SingleResources |-> 1],
           assignment |-> [t \in SingleTasks |-> 1], routes |-> {Route(1, 2, "Communication", 3)}] : o \in {0, 7}}

-----------------------------------------------------------------------------
(* Three tasks, two resources, and routes: fan-out, fan-in, chains, a task *)
(* that sends to itself, Logical links, sends and deliveries on both sides *)
(* of the horizon, and a run in which nothing is ever released.            *)

NetworkTasks == {1, 2, 3}
NetworkResources == {1, 2}

RouteSets ==
    {{Route(1, 2, "Communication", 1), Route(1, 3, "Communication", 2)},
     {Route(1, 2, "Logical", 0), Route(2, 3, "Communication", 1), Route(1, 3, "Communication", 3)},
     {Route(1, 1, "Communication", 1), Route(3, 1, "Communication", 2)},
     {Route(3, 2, "Communication", 5)}}

NetworkConfigs ==
    {c \in {[stop |-> s, mode |-> m, task |-> (1 :> a @@ 2 :> b @@ 3 :> Timing(4, 4, o, 1)),
             demand |-> [x \in NetworkTasks \X NetworkResources |-> IF x[1] = 1 THEN 1 ELSE 2],
             assignment |-> (1 :> 1 @@ 2 :> home @@ 3 :> 2), routes |-> routes] :
               s \in {4, 7}, m \in PreemptionMode,
               a \in [period : {2, 3}, deadline : {2, 3}, offset : {1}, priority : {0}],
               b \in [period : {5}, deadline : {3, 5}, offset : {0, 2}, priority : {0, 1}],
               o \in {0, 1}, home \in NetworkResources, routes \in RouteSets} : ValidConfig(c)}
    \cup {[stop |-> 3, mode |-> "Preemptive",
           task |-> [t \in NetworkTasks |-> Timing(2, 2, 4, t)],
           demand |-> [x \in NetworkTasks \X NetworkResources |-> 1],
           assignment |-> [t \in NetworkTasks |-> 1], routes |-> {}]}

-----------------------------------------------------------------------------
(* One producer and one consumer joined by a Communication route whose     *)
(* configured delay is zero or one.                                        *)

ZeroDelayConfigs ==
    {[stop |-> 6, mode |-> m,
      task |-> (1 :> Timing(3, 3, o, 1) @@ 2 :> Timing(p, p, 0, 2)),
      demand |-> (<<1, 1>> :> 1 @@ <<2, 1>> :> 1),
      assignment |-> [t \in SingleTasks |-> 1],
      routes |-> {Route(1, 2, "Communication", d)}] :
        m \in PreemptionMode, o \in 0 .. 1, p \in {2, 3}, d \in {0, 1}}
=============================================================================
