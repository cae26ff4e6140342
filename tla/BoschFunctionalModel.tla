------------------------ MODULE BoschFunctionalModel ------------------------
(***************************************************************************)
(* The Bosch v10 functional model: the adapter that drives the lateral     *)
(* motion FMU tick by tick.  Accepted events of a tick become Boolean      *)
(* pulses, the step from that tick consumes them with the tick's           *)
(* trajectory sample, and the outputs are observed after the step.  Any    *)
(* FMI call may fail, which ends the model with an exception.              *)
(***************************************************************************)
EXTENDS LateralMotionControl, TriggerEncoder

CONSTANT StopTick       \* stop_tick_, covered by the trajectory

ASSUME StopTickAssumption == StopTick \in Nat

VARIABLES
    adapter,    \* initialized_, finalized_, current_tick_, active_trigger_references_, thrown
    fmu,        \* the FMU instance
    row         \* the observation returned last

boschVars == <<adapter, fmu, row>>

\* Returned by trigger_reference; the FMU names the network triggers from its own side.
TriggerReference(trigger) == 99 + Column(trigger)

\* References written from one trajectory sample; the initial values have 1 .. 34.
FeedforwardReferences == <<116, 117>>
VelocityReference == 118
InitialVelocityReference == 34

OutputReferences ==
    [lateral_error |-> 1004, actuator_command |-> 1022, rolling_real |-> 1030, rolling_remote |-> 1029,
     violation_counter |-> 1036, critical_section |-> 1027]

\* observation(): the outputs, if the FMU's own time and step agree with the tick.
Observable(instance, tick) == GetValue(instance, 1023) = tick /\ GetValue(instance, 1024) = tick
Observation(instance, tick) ==
    [tick |-> tick, signals |-> [s \in DOMAIN OutputReferences |->
                                     GetValue(instance, OutputReferences[s])]]

NoObservation == [tick |-> NoStamp]

\* The instance after the initialisation calls; the trajectory starts with velocity sample 0.
Parametrised(instance) ==
    LET assigned[ref \in 0 .. InitialVelocityReference] ==
            IF ref = 0 THEN instance
            ELSE SetReal(assigned[ref - 1], ref, IF ref = InitialVelocityReference THEN 0 ELSE NoStamp)
    IN  assigned[InitialVelocityReference]

BoschInit ==
    /\ adapter = [initialized |-> FALSE, finalized |-> FALSE, thrown |-> FALSE, current |-> 0, active |-> <<>>]
    /\ fmu = Instantiated
    /\ row = NoObservation

\* An exception reaches the runtime, which never calls this model again.
Thrown == adapter' = [adapter EXCEPT !.thrown = TRUE] /\ UNCHANGED row

\* initialize(): a failed FMI initialisation has freed its instance; the first observation
\* may fail after it.
Initialize ==
    /\ ~ adapter.initialized /\ ~ adapter.thrown
    /\ LET ready == ExitInitialization(Parametrised(SetupExperiment(Instantiated, 0)))
       IN  \/ /\ Observable(ready, 0)
              /\ adapter' = [adapter EXCEPT !.initialized = TRUE]
              /\ fmu' = ready
              /\ row' = Observation(ready, 0)
           \/ Thrown /\ UNCHANGED fmu
           \/ /\ adapter' = [adapter EXCEPT !.initialized = TRUE, !.thrown = TRUE]
              /\ fmu' = ready
              /\ UNCHANGED row

Active == adapter.initialized /\ ~ adapter.finalized /\ ~ adapter.thrown

\* The inputs of the interval from the current tick: sample t stands for the trajectory at t.
WithInputs(instance, tick) ==
    SetReal(SetReal(SetReal(instance, FeedforwardReferences[1], tick), FeedforwardReferences[2], tick),
            VelocityReference, tick)

Written(instance, references, value) ==
    LET written[n \in 0 .. Len(references)] ==
            IF n = 0 THEN instance ELSE SetBoolean(written[n - 1], references[n], value)
    IN  written[Len(references)]

\* Faulty variant of AfterReset: pulses stay true after their step.
AfterStepOnly(stepped, references) == stepped

\* The pulse reset that follows a step.
AfterReset(stepped, references) == Written(stepped, references, FALSE)

\* One turn of advance_to's loop: inputs, step, pulse reset, observation.
AdvanceOneTick ==
    /\ Active
    /\ adapter.current < StopTick
    /\ LET fed == WithInputs(fmu, adapter.current)
           stepped == DoStep(fed)
           reset == AfterReset(stepped, adapter.active)
           next == adapter.current + 1
       IN  \/ /\ Observable(reset, next)
              /\ fmu' = reset
              /\ adapter' = [adapter EXCEPT !.current = next, !.active = <<>>]
              /\ row' = Observation(reset, next)
           \/ /\ Thrown
              /\ fmu' \in {fmu, fed} \cup {AfterReset(stepped, done) : done \in Prefixes(adapter.active)}

PulsesOf(trace) == LET encoded == Encoded(trace)
                   IN  [i \in DOMAIN encoded |-> TriggerReference(encoded[i].trigger)]

\* apply_actions(): the whole batch is encoded before any pulse is written.
ApplyActions(tick, trace) ==
    /\ Active
    /\ IF tick # adapter.current \/ Rejects(trace)
       THEN Thrown /\ UNCHANGED fmu
       ELSE LET pulses == PulsesOf(trace)
            IN  \E done \in Prefixes(pulses) :
                    /\ fmu' = Written(fmu, done, TRUE)
                    /\ adapter' = [adapter EXCEPT !.active = @ \o done, !.thrown = done # pulses]
                    /\ UNCHANGED row

\* finalize(): only at the stop tick; the component is freed whatever terminate answers.
Finalize ==
    /\ Active
    /\ IF adapter.current # StopTick THEN Thrown
       ELSE \/ adapter' = [adapter EXCEPT !.finalized = TRUE] /\ UNCHANGED row
            \/ Thrown
    /\ UNCHANGED fmu
=============================================================================
