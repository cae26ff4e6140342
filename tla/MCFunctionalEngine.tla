------------------------- MODULE MCFunctionalEngine -------------------------
(***************************************************************************)
(* Inputs for runs with and without a functional model.  Without: the      *)
(* network family of MCSimulationEngine.  With: preemption (so some        *)
(* processed ticks have no accepted event), a message route, ticks without *)
(* events, releases on the horizon, a task that is never released and a    *)
(* run in which nothing is.                                                *)
(***************************************************************************)
EXTENDS MCSimulationEngine, FunctionalEngine

ModelledConfigs ==
    {c \in {[stop |-> s, mode |-> m,
             task |-> (1 :> Timing(p, 2, o, 0) @@ 2 :> Timing(6, 4, 0, 1) @@ 3 :> Timing(9, 9, 9, 2)),
             demand |-> [x \in NetworkTasks \X NetworkResources |-> IF x[1] = 2 THEN q ELSE 1],
             assignment |-> [t \in NetworkTasks |-> 1],
             routes |-> {Route(1, 2, "Communication", 1)}] :
               s \in {0, 5}, m \in PreemptionMode, p \in {2, 3}, o \in {1, 2}, q \in {2, 3}} :
        ValidConfig(c)}
    \cup {[stop |-> 3, mode |-> "Preemptive",
           task |-> [t \in NetworkTasks |-> Timing(2, 2, 4, t)],
           demand |-> [x \in NetworkTasks \X NetworkResources |-> 2],
           assignment |-> [t \in NetworkTasks |-> 1], routes |-> {}]}

AllConfigs == NetworkConfigs \cup ModelledConfigs
=============================================================================
