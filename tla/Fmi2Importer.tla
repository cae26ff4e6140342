---------------------------- MODULE Fmi2Importer ----------------------------
(***************************************************************************)
(* The FMI 2.0 importer: one shared library, at most one component at a    *)
(* time, and one step per call into the slave.  A slave call answers Ok,   *)
(* Warning or anything else ("Failed"); what it did to the instance is     *)
(* recorded whatever the importer believed about it.                       *)
(***************************************************************************)
EXTENDS Integers

CONSTANTS
    InstanceIds,    \* bound: the instances that can be created, 1 .. n
    InitialReals    \* how many initial values initialize() is given

ASSUME ImporterAssumption == InstanceIds \subseteq Nat \ {0} /\ InitialReals \in Nat

VARIABLES
    importer,   \* lifecycle_, component_ (0 is null), pc, completed_status, result, out
    library,    \* the shared library handle
    slave,      \* the state of each instance, as the slave library sees it
    fault       \* history: a function was called with a null or freed component

importerVars == <<importer, library, slave, fault>>

Statuses == {"Ok", "Warning", "Failed"}
Succeeded(status) == status # "Failed"

ImporterInit ==
    /\ importer = [lifecycle |-> "None", component |-> 0, pc |-> "idle", assigned |-> 0,
                   completed |-> "Ok", warned |-> FALSE, result |-> "Ok", out |-> "old"]
    /\ library = "closed"
    /\ slave = [i \in InstanceIds |-> "absent"]
    /\ fault = FALSE

\* A slave function applied to the importer's component leaves it in state `to`.
Called(to) ==
    LET i == importer.component
    IN  IF i = 0 \/ slave[i] \in {"absent", "freed"} THEN fault' = TRUE /\ UNCHANGED slave
        ELSE slave' = [slave EXCEPT ![i] = to] /\ UNCHANGED fault

Untouched == UNCHANGED <<slave, fault, library>>

\* The constructor: dlopen and the complete function table, or an exception.
Construct ==
    /\ importer.lifecycle = "None" /\ library = "closed" /\ importer.pc = "idle"
    /\ library' = "open"
    /\ importer' \in {[importer EXCEPT !.lifecycle = "Loaded"],
                      [importer EXCEPT !.pc = "unwind"]}
    /\ UNCHANGED <<slave, fault>>

\* A missing symbol destroys the DynamicLibrary member again.
Unwind ==
    /\ importer.pc = "unwind"
    /\ library' = "closed"
    /\ importer' = [importer EXCEPT !.pc = "gone"]
    /\ UNCHANGED <<slave, fault>>

Idle == importer.pc = "idle" /\ importer.lifecycle # "None"

Answer(status) == importer' = [importer EXCEPT !.result = status]

\* initialize(): refused outside Loaded and for unusable times.
RefuseInitialize == Idle /\ Answer("Failed") /\ Untouched

BeginInitialize ==
    /\ Idle /\ importer.lifecycle = "Loaded"
    /\ \/ \E i \in InstanceIds :
              /\ slave[i] = "absent" /\ \A j \in InstanceIds : j < i => slave[j] # "absent"
              /\ slave' = [slave EXCEPT ![i] = "created"]
              /\ importer' = [importer EXCEPT !.component = i, !.pc = "setup", !.completed = "Ok",
                                              !.warned = FALSE, !.assigned = 0]
              /\ UNCHANGED <<fault, library>>
       \/ Answer("Failed") /\ Untouched     \* fmi2Instantiate returned null

\* Faulty variant of After: the status of the last call is the status of the whole.
LastStatus(status) == status

\* completed_status after one more successful call.
After(status) == IF status = "Warning" THEN "Warning" ELSE importer.completed

\* One initialisation call: it moves the instance on, or the rollback follows.
InitializationCall(at, next, from, to) ==
    /\ importer.pc = at
    /\ \E status \in Statuses :
           /\ importer' = IF Succeeded(status)
                          THEN [importer EXCEPT !.pc = next, !.completed = After(status),
                                                !.warned = @ \/ status = "Warning"]
                          ELSE [importer EXCEPT !.pc = "rollback"]
           /\ Called(IF Succeeded(status) THEN to ELSE "failed")
    /\ UNCHANGED library

SetupExperimentCall == InitializationCall("setup", "enter", "created", "configured")
EnterCall == InitializationCall("enter", "assign", "configured", "initializing")

\* The initial Real values, each a call of its own.
AssignCall ==
    /\ importer.pc = "assign" /\ importer.assigned < InitialReals
    /\ \E status \in Statuses :
           /\ importer' = IF Succeeded(status)
                          THEN [importer EXCEPT !.assigned = @ + 1, !.completed = After(status),
                                                !.warned = @ \/ status = "Warning"]
                          ELSE [importer EXCEPT !.pc = "rollback"]
           /\ Called(IF Succeeded(status) THEN "initializing" ELSE "failed")
    /\ UNCHANGED library

ExitCall ==
    /\ importer.assigned = InitialReals
    /\ InitializationCall("assign", "initialized", "initializing", "stepping")

EndInitialize ==
    /\ importer.pc = "initialized"
    /\ importer' = [importer EXCEPT !.pc = "idle", !.lifecycle = "Initialized", !.result = importer.completed]
    /\ Untouched

\* rollback_initialization after the partial instance is freed.
RolledBack(imp) == [imp EXCEPT !.pc = "idle", !.result = "Failed", !.component = 0]

Rollback ==
    /\ importer.pc = "rollback"
    /\ Called("freed")
    /\ importer' = RolledBack(importer)
    /\ UNCHANGED library

\* require_initialized: no runtime call reaches the slave in another lifecycle.
Refused == Idle /\ importer.lifecycle # "Initialized" /\ Answer("Failed") /\ Untouched

\* set_real, set_integer, set_boolean, set_string, and do_step with usable seconds.
WriteOrStep ==
    /\ Idle /\ importer.lifecycle = "Initialized"
    /\ \E status \in Statuses : Answer(status)
    /\ Called("stepping")
    /\ UNCHANGED library

\* get_real, get_integer, get_boolean, get_string: the output is committed after success;
\* a null String is an adapter error after a successful call.
Read ==
    /\ Idle /\ importer.lifecycle = "Initialized"
    /\ \/ \E status \in Statuses :
              importer' = [importer EXCEPT !.result = status,
                                           !.out = IF Succeeded(status) THEN "new" ELSE @]
       \/ Answer("Failed")
    /\ Called("stepping")
    /\ UNCHANGED library

\* do_step refuses negative or infinite seconds itself.
RefuseStep == Idle /\ importer.lifecycle = "Initialized" /\ Answer("Failed") /\ Untouched

TerminateCall ==
    /\ Idle /\ importer.lifecycle = "Initialized"
    /\ importer' = [importer EXCEPT !.pc = "free"]
    /\ Called("terminated")
    /\ UNCHANGED library

\* The component is freed whatever fmi2Terminate answered.
FreeAfterTerminate ==
    /\ importer.pc = "free"
    /\ \E status \in Statuses :
           importer' = [importer EXCEPT !.pc = "idle", !.lifecycle = "Terminated", !.component = 0,
                                        !.result = status]
    /\ Called("freed")
    /\ UNCHANGED library

\* Faulty variant of Destroy: a terminated component is left to the library.
DestroyWithoutFree ==
    /\ Idle
    /\ importer' = [importer EXCEPT !.pc = "unwind"]
    /\ IF importer.component = 0 THEN Untouched ELSE Called("terminated") /\ UNCHANGED library

\* ~Impl: terminate an initialised component, free it, then close the library.
Destroy ==
    /\ Idle
    /\ IF importer.component = 0 THEN importer' = [importer EXCEPT !.pc = "unwind"] /\ Untouched
       ELSE IF importer.lifecycle = "Initialized"
       THEN importer' = [importer EXCEPT !.pc = "destroy"] /\ Called("terminated") /\ UNCHANGED library
       ELSE importer' = [importer EXCEPT !.pc = "destroy"] /\ Untouched

DestroyFree ==
    /\ importer.pc = "destroy"
    /\ Called("freed")
    /\ importer' = [importer EXCEPT !.pc = "unwind"]
    /\ UNCHANGED library

ImporterNext ==
    \/ Construct \/ Unwind \/ RefuseInitialize \/ BeginInitialize
    \/ SetupExperimentCall \/ EnterCall \/ AssignCall \/ ExitCall \/ EndInitialize \/ Rollback
    \/ Refused \/ WriteOrStep \/ Read \/ RefuseStep
    \/ TerminateCall \/ FreeAfterTerminate \/ Destroy \/ DestroyFree

ImporterSpec == ImporterInit /\ [][ImporterNext]_importerVars

-----------------------------------------------------------------------------
Protocol == INSTANCE SlaveProtocol WITH Instances <- InstanceIds

\* Whatever the slave answers and wherever initialisation stops, the slave library sees
\* the documented order of calls: rollback frees a partial instance once, terminate and
\* the destructor free an initialised one once, and the library is closed last
\* (Fmi2CoSimulation::Impl, rollback_initialization, ~Impl).
ImplementsSlaveProtocol == Protocol!ProtocolSpec

\* The lifecycle the caller sees is the one the slave is in whenever no call is running,
\* no call ever reached a null or freed component, and a completed initialisation reports
\* a Warning exactly if one of its calls warned (require_initialized, initialize()).
LifecycleMatchesSlave ==
    /\ ~ fault
    /\ Idle => LET living == {i \in InstanceIds : slave[i] \in Protocol!Alive}
               IN  /\ importer.lifecycle = "Initialized" =>
                          living = {importer.component} /\ slave[importer.component] = "stepping"
                   /\ importer.lifecycle # "Initialized" => living = {} /\ importer.component = 0
    /\ importer.pc = "initialized" => (importer.completed = "Warning" <=> importer.warned)
=============================================================================
