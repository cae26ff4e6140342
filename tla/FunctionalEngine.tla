-------------------------- MODULE FunctionalEngine --------------------------
(***************************************************************************)
(* The simulation engine with a functional model: the model is advanced to *)
(* a tick before the tick is processed, receives the tick's canonical      *)
(* events after it, and is completed with the horizon.  A finished run is  *)
(* then replayed offline from its trace through a fresh model.             *)
(***************************************************************************)
EXTENDS SimulationEngine, FunctionalRuntime, SequencesExt

CONSTANT
    CoupledConfigs  \* the run inputs that come with a functional model

VARIABLES
    coupled,    \* functional_runtime_ holds a value
    online,     \* functional_runtime_ and its model
    begin,      \* action_begin, the trace length at the start of the tick
    replay,     \* the runtime and the fresh model of replay_functional_trace()
    replayed    \* events of the trace the replay has grouped and applied

functionalVars == <<coupled, online, begin, replay, replayed>>
allVars == <<vars, functionalVars>>

FunctionalInit ==
    /\ Init
    /\ coupled = (config \in CoupledConfigs)
    /\ online = NewFunctional /\ begin = 0
    /\ replay = NewFunctional /\ replayed = 0

EngineUnchanged == UNCHANGED vars
ModelUnchanged == UNCHANGED functionalVars
ReplayUnchanged == UNCHANGED <<coupled, replay, replayed>>

-----------------------------------------------------------------------------
(* initialize(): initialized_ is set first, so a caller that steps again after a failed   *)
(* start comes past it.                                                                    *)

StartModel ==
    /\ Initialized
    /\ \E a \in Answer : online' = Initialize(online, a)
    /\ UNCHANGED begin /\ ReplayUnchanged

\* Faulty variant of BeginTickWithModel: the tick is processed whatever the model did.
BeginTickAnyway(e) ==
    /\ BeginTick(e)
    /\ \E a \in Answer : online' = AdvanceTo(online, e.tick, config.stop, a)
    /\ begin' = Len(trace)
    /\ ReplayUnchanged

BeginTickWithModel(e) ==
    /\ stage = "between" /\ InHorizon(e)
    /\ \E a \in Answer :
         LET next == AdvanceTo(online, e.tick, config.stop, a)
         IN  /\ online' = next
             /\ IF ~ next.thrown THEN BeginTick(e) /\ begin' = Len(trace)
                ELSE /\ IF online.runtime.status = "created" THEN UNCHANGED <<stage, fault>>
                                                             ELSE Throw("functional")
                     /\ UNCHANGED <<config, tick, queue, trace, release, jobs, resource, ready,
                                    messages, todo, batch, begin>>
    /\ ReplayUnchanged

\* finalize(): advance through the horizon, then close the model.
Finalized(f, a, b) ==
    LET Close(g) == FinalizeModel(g, config.stop, b)
    IN  Then(AdvanceTo(f, config.stop, config.stop, a), Close)

Finishing(next) ==
    IF next.thrown
    THEN /\ IF online.runtime.status = "created" THEN UNCHANGED <<stage, fault>>
                                                 ELSE Throw("functional")
         /\ tick' = IF next.runtime.status = "active" /\ next.runtime.tick = config.stop
                    THEN config.stop ELSE tick
         /\ UNCHANGED <<config, queue, trace, release, jobs, resource, ready, messages, todo, batch>>
    ELSE /\ stage' = "finished" /\ tick' = config.stop
         /\ UNCHANGED <<config, fault, queue, trace, release, jobs, resource, ready, messages,
                        todo, batch>>

FinishEmptyWithModel ==
    /\ stage = "between" /\ NothingInHorizon
    /\ \E a, b \in Answer : online' = Finalized(online, a, b)
    /\ Finishing(online')
    /\ UNCHANGED begin /\ ReplayUnchanged

\* The ticks of the canonical events this tick appended.
ActionTicks == [i \in 1 .. Len(trace) - begin |-> trace[begin + i].tick]

\* The accepted events of the tick reach the model when the tick is complete.
EndTickWithModel ==
    /\ stage = "act" /\ ~ \E e \in queue.events : IsDue(e)
    /\ \E a, b, c \in Answer :
         LET applied == ApplyActions(online, tick, ActionTicks, a)
             Close(f) == Finalized(f, b, c)
             next == IF NothingInHorizon THEN Then(applied, Close) ELSE applied
         IN  online' = next
    /\ IF NothingInHorizon \/ online'.thrown THEN Finishing(online')
       ELSE EndTick
    /\ UNCHANGED begin /\ ReplayUnchanged

-----------------------------------------------------------------------------
(* replay_functional_trace(), once the run is complete. *)

ReplayStart ==
    /\ stage = "finished" /\ replay.runtime.status = "created"
    /\ replay' = Initialize(replay, "ok")
    /\ UNCHANGED <<coupled, online, begin, replayed>> /\ EngineUnchanged

\* One batch: the events of the trace that share the next tick.
BatchEnd(i) == CHOOSE j \in i .. Len(trace) :
                   /\ \A k \in i .. j : trace[k].tick = trace[i].tick
                   /\ j = Len(trace) \/ trace[j + 1].tick # trace[i].tick

\* Faulty variant of ReplayBatch: the events are applied before the model is advanced.
ReplayLateBatch ==
    LET first == replayed + 1
        last == BatchEnd(first)
        t == trace[first].tick
        Apply(f) == ApplyActions(f, replay.runtime.tick,
                        [i \in 1 .. last - replayed |-> replay.runtime.tick], "ok")
        Move(f) == AdvanceTo(f, t, config.stop, "ok")
    IN  /\ replay.runtime.status = "active" /\ replayed < Len(trace)
        /\ replay' = Then(Then(replay, Apply), Move)
        /\ replayed' = last
        /\ UNCHANGED <<coupled, online, begin>> /\ EngineUnchanged

ReplayBatch ==
    LET first == replayed + 1
        last == BatchEnd(first)
        t == trace[first].tick
        Apply(f) == ApplyActions(f, t, [i \in 1 .. last - replayed |-> trace[replayed + i].tick],
                                 "ok")
    IN  /\ replay.runtime.status = "active" /\ replayed < Len(trace)
        /\ replay' = Then(AdvanceTo(replay, t, config.stop, "ok"), Apply)
        /\ replayed' = last
        /\ UNCHANGED <<coupled, online, begin>> /\ EngineUnchanged

ReplayFinish ==
    /\ replay.runtime.status = "active" /\ replayed = Len(trace)
    /\ replay' = Finalized(replay, "ok", "ok")
    /\ UNCHANGED <<coupled, online, begin, replayed>> /\ EngineUnchanged

-----------------------------------------------------------------------------
\* An engine built without a model takes the steps of SimulationEngine alone.
UncoupledNext == ~ coupled /\ Next /\ ModelUnchanged

\* The steps in which the model has no part.
WithoutCall(step) == coupled /\ step /\ ModelUnchanged

CoupledNext ==
    \/ WithoutCall(\E t \in TaskIds : QueueFirstRelease(t))
    \/ coupled /\ StartModel
    \/ coupled /\ \E e \in queue.events : BeginTickWithModel(e)
    \/ coupled /\ FinishEmptyWithModel
    \/ WithoutCall(Settle)
    \/ WithoutCall(\E d \in TaskIds : PublishRoute(d))
    \/ WithoutCall(ProcessReleases)
    \/ WithoutCall(Schedule)
    \/ WithoutCall(\E e \in queue.events : RecordDecision(e) \/ SendMessage(e))
    \/ coupled /\ EndTickWithModel
    \/ WithoutCall(StepAfterEnd)
    \/ coupled /\ (ReplayStart \/ ReplayBatch \/ ReplayFinish)

FunctionalNext == CoupledNext \/ UncoupledNext

FunctionalSpec == FunctionalInit /\ [][FunctionalNext]_allVars /\ WF_allVars(FunctionalNext)

-----------------------------------------------------------------------------
FunctionalTypeOK ==
    online \in Functional /\ replay \in Functional /\ begin \in Nat /\ replayed \in Nat

HasModel == online.runtime.status # "created"

\* The rows are the ticks from zero on, without a gap or a repetition, whatever the adapter
\* returned: validate_observation() and the check of the row count in advance_to().
RowsConsecutive ==
    \A f \in {online, replay} :
        /\ \A i \in DOMAIN f.runtime.rows : f.runtime.rows[i].tick = i - 1
        /\ f.runtime.status # "created" => Len(f.runtime.rows) = f.runtime.tick + 1

\* A finished run has one row per tick of the inclusive horizon and a closed model.
FinishedRunIsObserved ==
    coupled /\ stage = "finished" =>
        /\ online.model.status = "finalized"
        /\ Len(online.runtime.rows) = config.stop + 1

\* What the engine records of its model: one well-formed row per tick, whatever the adapter
\* answered, and all of them once the run is finished (functional_runtime.cpp:22-121).
ObservationsSound == FunctionalTypeOK /\ RowsConsecutive /\ FinishedRunIsObserved

\* While a tick is processed, engine, runtime and model are at that tick: advance_to() before
\* current_tick_ is set in process_event_tick().
ClocksAgree ==
    coupled /\ stage \in {"settle", "publish", "release", "schedule", "act"} =>
        online.runtime.tick = tick /\ online.model.tick = tick

EventsBefore(t) == Cardinality({k \in DOMAIN trace : trace[k].tick < t})

\* Actions at tick t affect the observation of t + 1 and none before: the value of a row is the
\* number of canonical events of earlier ticks (the mock's observation, ADR-0017's order; the
\* clocks of engine, runtime and model agree meanwhile).
ActionsSeenNextTick ==
    /\ ClocksAgree
    /\ \A i \in DOMAIN online.runtime.rows :
           online.runtime.rows[i].value = EventsBefore(online.runtime.rows[i].tick)

\* After a failed start no tick is ever processed: each further step_to_next_event() throws
\* before it changes the queue, the clock or the trace.
NothingRunsWithoutModel == coupled /\ ~ HasModel => trace = <<>> /\ tick = 0 /\ jobs = <<>>

\* Offline replay of the trace, which skips the ticks without accepted events, gives the rows the
\* online run recorded: replay_functional_trace() against process_event_tick().
ReplayReproducesRun ==
    /\ IsPrefix(replay.runtime.rows, online.runtime.rows)
    /\ replay.runtime.status = "finalized" => replay.runtime.rows = online.runtime.rows
    /\ ~ replay.thrown
=============================================================================
