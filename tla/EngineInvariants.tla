-------------------------- MODULE EngineInvariants --------------------------
(***************************************************************************)
(* State invariants of the simulation engine, as conjunctions of named     *)
(* parts that the proofs use as an inductive invariant.                    *)
(***************************************************************************)
EXTENDS SimulationEngine

\* Types of all state variables.
TypeOK ==
    /\ ValidConfig(config)
    /\ stage \in Stage
    /\ fault \in Fault
    /\ tick \in Nat
    /\ queue \in EventQueueState
    /\ trace \in Seq(Event)
    /\ release \in [TaskIds -> ReleaseState]
    /\ Released \subseteq JobIdentity
    /\ jobs \in [Released -> JobState]
    /\ resource \in [ResourceIds -> ResourceState]
    /\ ready \in [ResourceIds -> SUBSET JobIdentity]
    /\ messages \in Seq(Message)
    /\ todo \in SUBSET (TaskIds \cup ResourceIds)
    /\ batch \in SUBSET Event

\* Completion candidates of q name a job identity and a resource.
NamedIn(q) ==
    \A e \in q.events :
        e.phase = "ExecutionCompletion" =>
            /\ <<e.entities.task, e.entities.job>> \in JobIdentity
            /\ e.entities.resource \in ResourceIds

\* The candidates the engine holds do so.
CandidatesNamed == NamedIn(queue)

\* While routes are visited, the last trace entry is the completion that publishes, and
\* only its own destinations are left.
PublicationNamed ==
    stage = "publish" =>
        /\ trace # <<>>
        /\ LET completion == trace[Len(trace)]
           IN  /\ <<completion.entities.task, completion.entities.job>> \in JobIdentity
               /\ todo \subseteq Destinations(config, completion.entities.task)

\* Every job is in exactly one place: Ready jobs in the Ready set of the resource they
\* were released on, Running jobs on that resource, Completed jobs nowhere; and a
\* resource executes at most the one job it names (scheduler.cpp:133-262 updates job,
\* resource and Ready vector one after the other).
MembershipAgrees ==
    \A r \in ResourceIds :
        /\ ready[r] = {j \in Released : jobs[j].resource = r /\ jobs[j].lifecycle = "Ready"}
        /\ \A j \in Released :
               resource[r].running = j <=> jobs[j].resource = r /\ jobs[j].lifecycle = "Running"
        /\ Idle(r) \/ resource[r].running \in Released

\* The part of the state that has to be right for every action to keep its types.
StateInv == TypeOK /\ CandidatesNamed /\ PublicationNamed /\ MembershipAgrees

\* A running interval began in the past and ends, if nothing intervenes, exactly when
\* the remaining work is done; that moment is not overtaken before the completions of its
\* tick are processed (start_job and charge_execution, runtime_state.cpp:80-180).
IntervalsExact ==
    \A r \in ResourceIds :
        /\ Idle(r) => resource[r].since = Absent /\ resource[r].expected = Absent
        /\ ~ Idle(r) =>
               /\ 0 <= resource[r].since /\ resource[r].since <= tick
               /\ jobs[resource[r].running].remaining > 0
               /\ resource[r].expected =
                      resource[r].since + jobs[resource[r].running].remaining
               /\ resource[r].expected >= tick

CompletionOf(e, r) ==
    /\ e.phase = "ExecutionCompletion"
    /\ e.entities.resource = r
    /\ <<e.entities.task, e.entities.job>> = resource[r].running

\* A running job whose end lies in the horizon has its completion candidate in the queue;
\* every other candidate for it is due strictly earlier and so is recognised as stale when
\* it is taken. Losing the candidate would let the job run past its demand, accepting a
\* stale one would end it early (process_completion, scheduler.cpp:160-181;
\* start_selected_job, scheduler.cpp:198-221).
CompletionQueued ==
    \A r \in ResourceIds :
        ~ Idle(r) =>
            /\ resource[r].expected <= config.stop =>
                   \E e \in queue.events : CompletionOf(e, r) /\ e.tick = resource[r].expected
            /\ \A e, f \in queue.events :
                   CompletionOf(e, r) /\ CompletionOf(f, r) =>
                       /\ e.tick <= resource[r].expected
                       /\ e.tick = f.tick => e = f

ReleaseOf(e, t) == e.phase = "JobRelease" /\ e.entities.task = t

\* A task has exactly one future release, held by the queue or by the batch of this tick,
\* and it is the one Task::release() will accept; once a task stops releasing no candidate
\* is left (periodic_release.cpp:105-161, simulation_engine.cpp:181-205).
OnePendingRelease ==
    stage # "failed" =>
        \A t \in TaskIds :
            LET held == {e \in queue.events \cup batch : ReleaseOf(e, t)}
            IN  /\ \A e, f \in held : e = f
                /\ held # {} <=> release[t].pending # Absent
                /\ \A e \in held : ReleaseMatches(e)

\* Pending events lie in the present or the future, and in the present only in phases the
\* engine has not passed: nothing is processed late or skipped (process_event_tick,
\* simulation_engine.cpp:262-283).
NothingInThePast ==
    \A e \in queue.events :
        /\ e.tick >= tick
        /\ stage \in {"release", "schedule", "act"} /\ e.tick = tick =>
               PhasePrecedence(e.phase) > PhasePrecedence("JobRelease")
        /\ stage = "between" /\ trace # <<>> => e.tick > tick

\* No throw that guards the kernel against its own state is ever reached from a valid
\* configuration (the logic_error throws of simulation_engine.cpp, scheduler.cpp,
\* runtime_state.cpp, fixed_delay_network.cpp).
KernelConsistent == fault # "inconsistent"

\* After every tick the decision stands as the policy defines it: a resource with work is
\* not idle, and under preemption no Ready job outranks the running one (schedule(),
\* scheduler.cpp:224-262).
PriorityRespected ==
    stage \in {"act", "between", "finished"} =>
        \A r \in ResourceIds :
            /\ Idle(r) => ready[r] = {}
            /\ config.mode = "Preemptive" =>
                   \A j \in ready[r] :
                       ~ Idle(r) => jobs[resource[r].running].priority <= jobs[j].priority

\* Once the checks of a tick are done, a miss is recorded for exactly those jobs that had
\* not completed by an absolute deadline that is past; completing in the deadline tick is
\* in time (phase order, event_queue.cpp:24-45; mark_deadline_missed,
\* runtime_state.cpp:49-61).
DeadlineVerdicts ==
    stage \in {"schedule", "act", "between", "finished"} =>
        \A j \in Released :
            jobs[j].missed <=>
                /\ jobs[j].deadline <= IF stage = "finished" THEN config.stop ELSE tick
                /\ Active(j) \/ jobs[j].finish > jobs[j].deadline

\* The pending events are exactly those the engine still has to see: completions of running
\* jobs, one future release per task, nothing left behind by the clock; so the throws that
\* guard the kernel against its own state are never reached (event_queue.cpp, scheduler.cpp,
\* periodic_release.cpp, simulation_engine.cpp).
CandidatesSound ==
    /\ CompletionQueued
    /\ OnePendingRelease
    /\ NothingInThePast
    /\ KernelConsistent

\* After a tick the schedule is the policy's and every deadline up to it has its verdict.
DecisionsSound == PriorityRespected /\ DeadlineVerdicts
=============================================================================
