-------------------------- MODULE SimulationEngine --------------------------
(***************************************************************************)
(* One run of the headless simulation engine: run() calling                *)
(* step_to_next_event() until the inclusive horizon is complete.           *)
(*                                                                         *)
(* An action is one iteration of one of the loops of process_event_tick(), *)
(* so that an exception leaves exactly the state the code leaves.  Between *)
(* two ticks (stage "between") the state is the one a caller of            *)
(* step_to_next_event() can inspect.                                       *)
(***************************************************************************)
EXTENDS PeriodicRelease, Scheduler, FixedDelayNetwork

VARIABLES
    todo,       \* identifiers the current loop has still to visit
    batch       \* releases removed from the queue and not yet processed

shared == <<config, stage, fault, tick, queue, trace>>
vars == <<config, stage, fault, tick, queue, trace, release, jobs, resource, ready, messages,
          todo, batch>>

Least(i, S) == i \in S /\ \A k \in S : i <= k

Init ==
    /\ config \in Configs
    /\ stage = "initialize"
    /\ fault = "none"
    /\ tick = 0
    /\ queue = EmptyQueue
    /\ trace = <<>>
    /\ release = InitialRelease(config)
    /\ jobs = <<>>
    /\ resource = [r \in ResourceIds |-> IdleResource]
    /\ ready = [r \in ResourceIds |-> {}]
    /\ messages = <<>>
    /\ todo = ReleasingTasks(config)
    /\ batch = {}

-----------------------------------------------------------------------------
(* initialize(): the first releases enter the queue, task by task. *)

QueueFirstRelease(t) ==
    /\ stage = "initialize"
    /\ t \in todo /\ \A s \in todo : ~ InsertedBefore(config, s, t)
    /\ ScheduleCurrentRelease(t)
    /\ todo' = todo \ {t}
    /\ UNCHANGED <<config, stage, fault, tick, trace, jobs, resource, ready, messages, batch>>

Initialized ==
    /\ stage = "initialize" /\ todo = {}
    /\ stage' = "between"
    /\ UNCHANGED <<config, fault, tick, queue, trace, release, jobs, resource, ready, messages,
                   todo, batch>>

-----------------------------------------------------------------------------
(* step_to_next_event(): pick the next tick, or finalize. *)

BeginTick(e) ==
    /\ stage = "between" /\ InHorizon(e)
    /\ IF e.tick < tick
       THEN Throw("inconsistent") /\ UNCHANGED tick
       ELSE stage' = "settle" /\ tick' = e.tick /\ UNCHANGED fault
    /\ UNCHANGED <<config, queue, trace, release, jobs, resource, ready, messages, todo, batch>>

FinishEmpty ==
    /\ stage = "between" /\ NothingInHorizon
    /\ stage' = "finished"
    /\ UNCHANGED <<config, fault, tick, queue, trace, release, jobs, resource, ready, messages,
                   todo, batch>>

-----------------------------------------------------------------------------
(* Before scheduling: completions, deliveries, deadline checks. *)

Settling(e, phase) == stage = "settle" /\ IsDue(e) /\ e.phase = phase

AcceptCompletion(e) ==
    LET j == <<e.entities.task, e.entities.job>>
        r == e.entities.resource
        routes == Destinations(config, e.entities.task)
    IN  /\ Settling(e, "ExecutionCompletion") /\ CompletionIsCurrent(e)
        /\ queue' = Popped(queue, e)
        /\ IF ChargeCompletes(r, j)
           THEN /\ jobs' = [jobs EXCEPT ![j] = CompletedJob(@)]
                /\ resource' = [resource EXCEPT ![r] = IdledResource(@)]
                /\ trace' = Append(trace, e)
                /\ stage' = IF routes = {} THEN "settle" ELSE "publish"
                /\ todo' = routes
                /\ UNCHANGED fault
           ELSE Throw("inconsistent") /\ UNCHANGED <<jobs, resource, trace, todo>>
        /\ UNCHANGED <<config, tick, release, ready, messages, batch>>

\* Faulty variant of IgnoreStaleCompletion: the stale candidate stays in the queue.
KeepStaleCompletion(e) ==
    /\ Settling(e, "ExecutionCompletion") /\ ~ CompletionIsCurrent(e)
    /\ UNCHANGED vars

IgnoreStaleCompletion(e) ==
    /\ Settling(e, "ExecutionCompletion") /\ ~ CompletionIsCurrent(e)
    /\ queue' = Popped(queue, e)
    /\ UNCHANGED <<config, stage, fault, tick, trace, release, jobs, resource, ready, messages,
                   todo, batch>>

\* publish(): routes of the completion that was just appended, by destination.
PublishRoute(d) ==
    LET completion == trace[Len(trace)]
        delay == RouteDelay(config, completion.entities.task, d)
    IN  /\ stage = "publish" /\ Least(d, todo)
        /\ todo' = todo \ {d}
        /\ CASE DelayRefused(delay) -> Throw("zero_delay") /\ UNCHANGED <<messages, queue>>
             [] ~ DelayRefused(delay) /\ PublishOverflows(completion, delay) ->
                    Throw("tick_overflow") /\ UNCHANGED <<messages, queue>>
             [] OTHER ->
                    /\ PublishTo(completion, d, delay)
                    /\ stage' = IF todo = {d} THEN "settle" ELSE "publish"
                    /\ UNCHANGED fault
        /\ UNCHANGED <<config, tick, trace, release, jobs, resource, ready, batch>>

DeliverMessage(e) ==
    /\ Settling(e, "MessageDelivery")
    /\ queue' = Popped(queue, e)
    /\ IF DeliveryMatches(e)
       THEN /\ messages' = [messages EXCEPT ![e.entities.message].lifecycle = "Delivered"]
            /\ trace' = Append(trace, e)
            /\ UNCHANGED <<stage, fault>>
       ELSE Throw("inconsistent") /\ UNCHANGED <<messages, trace>>
    /\ UNCHANGED <<config, tick, release, jobs, resource, ready, todo, batch>>

\* A completed job leaves no observation; an incomplete one is marked and recorded.
CheckDeadline(e) ==
    LET j == DeadlineOf(e)
    IN  /\ Settling(e, "DeadlineCheck")
        /\ queue' = Popped(queue, e)
        /\ IF ~ DeadlineMatches(e)
           THEN Throw("inconsistent") /\ UNCHANGED <<jobs, trace>>
           ELSE /\ jobs' = IF Active(j) THEN [jobs EXCEPT ![j].missed = TRUE] ELSE jobs
                /\ trace' = IF Active(j) THEN Append(trace, e) ELSE trace
                /\ UNCHANGED <<stage, fault>>
        /\ UNCHANGED <<config, tick, release, resource, ready, messages, todo, batch>>

-----------------------------------------------------------------------------
(* process_release_batch(): all releases of the tick leave the queue first. *)

Settled == ~ \E e \in queue.events :
                 IsDue(e) /\ PhasePrecedence(e.phase) < PhasePrecedence("JobRelease")

\* Entered again after the batch: the third loop of process_event_tick() looks once
\* more for events that precede scheduling.
CollectReleases ==
    LET due == {e \in queue.events : e.tick = tick /\ e.phase = "JobRelease"}
    IN  /\ stage = "settle" /\ Settled
        /\ batch' = due
        /\ queue' = [queue EXCEPT !.events = @ \ due]
        /\ stage' = IF due = {} THEN "schedule" ELSE "release"
        /\ todo' = IF due = {} THEN ResourceIds ELSE {}
        /\ UNCHANGED <<config, fault, tick, trace, release, jobs, resource, ready, messages>>

\* Faulty variant of FirstInBatch: releases are processed in insertion order.
FirstInserted(e) == e \in batch /\ \A other \in batch : e.sequence <= other.sequence

FirstInBatch(e) ==
    /\ e \in batch
    /\ \A other \in batch :
           ~ ReleasedBefore(config, other.entities.task, e.entities.task)

\* The job is created, its successor queued, the deadline check queued, the job stored.
ReleaseJob(e) ==
    LET t == e.entities.task
        j == <<t, e.entities.job>>
        r == e.entities.resource
        job == NewJob(t, e)
        queued == QueueAfterRelease(t)
    IN  /\ stage = "release" /\ FirstInBatch(e)
        /\ ReleaseMatches(e) /\ ~ DeadlineOverflows(t)
        /\ batch' = batch \ {e}
        /\ release' = [release EXCEPT ![t] = ReleaseAfter(t)]
        /\ IF HasActiveJob(t) \/ j \in Released
           THEN /\ Throw(IF HasActiveJob(t) THEN "self_overlap" ELSE "inconsistent")
                /\ queue' = queued
                /\ UNCHANGED <<jobs, ready, trace>>
           ELSE /\ jobs' = [k \in Released \cup {j} |-> IF k = j THEN job ELSE jobs[k]]
                /\ ready' = [ready EXCEPT ![r] = @ \cup {j}]
                /\ queue' = IF job.deadline <= config.stop
                            THEN Scheduled(queued, job.deadline, "DeadlineCheck", "DeadlineMiss",
                                           JobEntities(t, e.entities.job, r), Absent)
                            ELSE queued
                /\ trace' = Append(trace, e)
                /\ stage' = IF batch = {e} THEN "settle" ELSE "release"
                /\ UNCHANGED fault
        /\ UNCHANGED <<config, tick, resource, messages, todo>>

\* Task::release throws before it changes the task or the queue.
ReleaseRefused(e) ==
    /\ stage = "release" /\ FirstInBatch(e)
    /\ ~ ReleaseMatches(e) \/ DeadlineOverflows(e.entities.task)
    /\ Throw(IF ReleaseMatches(e) THEN "tick_overflow" ELSE "inconsistent")
    /\ batch' = batch \ {e}
    /\ UNCHANGED <<config, tick, queue, trace, release, jobs, resource, ready, messages, todo>>

-----------------------------------------------------------------------------
(* Scheduler::schedule(): the resources in ascending identifier order. *)

Visiting(r) == stage = "schedule" /\ Least(r, todo)

Visited(r) ==
    /\ todo' = todo \ {r}
    /\ stage' = IF todo = {r} THEN "act" ELSE "schedule"
    /\ UNCHANGED fault

LeaveResource(r) ==
    /\ Visiting(r) /\ Undisturbed(r)
    /\ Visited(r)
    /\ UNCHANGED <<config, tick, queue, trace, release, jobs, resource, ready, messages, batch>>

Dispatch(r, j) ==
    /\ Visiting(r) /\ Idle(r) /\ Selected(r, j)
    /\ IF StartOverflows(j)
       THEN Throw("tick_overflow") /\ UNCHANGED <<jobs, resource, ready, queue, todo>>
       ELSE StartSelected(r, j) /\ Visited(r)
    /\ UNCHANGED <<config, tick, trace, release, messages, batch>>

\* A newcomer always fits the tick domain here: it was just released.
Preempt(r, j) ==
    LET p == resource[r].running
    IN  /\ Visiting(r) /\ ~ Idle(r) /\ config.mode = "Preemptive"
        /\ Selected(r, j) /\ ShouldPreempt(p, j)
        /\ IF MayPreempt(r) /\ ~ StartOverflows(j)
           THEN ReplaceRunning(r, p, j) /\ Visited(r)
           ELSE Throw("inconsistent") /\ UNCHANGED <<jobs, resource, ready, queue, todo>>
        /\ UNCHANGED <<config, tick, trace, release, messages, batch>>

-----------------------------------------------------------------------------
(* After scheduling: observations of the decisions, then the message sends. *)

RecordDecision(e) ==
    /\ stage = "act" /\ IsDue(e) /\ e.phase = "Scheduling"
    /\ queue' = Popped(queue, e)
    /\ trace' = Append(trace, e)
    /\ UNCHANGED <<config, stage, fault, tick, release, jobs, resource, ready, messages, todo,
                   batch>>

SendMessage(e) ==
    LET m == e.entities.message
    IN  /\ stage = "act" /\ IsDue(e) /\ e.phase # "Scheduling"
        /\ IF e.phase = "CausedAction" /\ SendMatches(e)
           THEN /\ messages' = [messages EXCEPT ![m] = SentMessage(@)]
                /\ queue' = QueueAfterSend(Popped(queue, e), e)
                /\ trace' = Append(trace, e)
                /\ UNCHANGED <<stage, fault>>
           ELSE Throw("inconsistent") /\ queue' = Popped(queue, e) /\ UNCHANGED <<messages, trace>>
        /\ UNCHANGED <<config, tick, release, jobs, resource, ready, todo, batch>>

EndTick ==
    /\ stage = "act" /\ ~ \E e \in queue.events : IsDue(e)
    /\ stage' = IF NothingInHorizon THEN "finished" ELSE "between"
    /\ UNCHANGED <<config, fault, tick, queue, trace, release, jobs, resource, ready, messages,
                   todo, batch>>

\* A finished engine answers further steps with false; a failed one ended the program.
StepAfterEnd == stage \in {"finished", "failed"} /\ UNCHANGED vars

-----------------------------------------------------------------------------
Settle ==
    \E e \in queue.events :
        \/ AcceptCompletion(e)
        \/ IgnoreStaleCompletion(e)
        \/ DeliverMessage(e)
        \/ CheckDeadline(e)

ProcessReleases == CollectReleases \/ \E e \in batch : ReleaseJob(e) \/ ReleaseRefused(e)

Schedule ==
    \E r \in ResourceIds :
        LeaveResource(r) \/ \E j \in ready[r] : Dispatch(r, j) \/ Preempt(r, j)

Act == EndTick \/ \E e \in queue.events : RecordDecision(e) \/ SendMessage(e)

Next ==
    \/ \E t \in TaskIds : QueueFirstRelease(t)
    \/ Initialized
    \/ \E e \in queue.events : BeginTick(e)
    \/ FinishEmpty
    \/ Settle
    \/ \E d \in TaskIds : PublishRoute(d)
    \/ ProcessReleases
    \/ Schedule
    \/ Act
    \/ StepAfterEnd

\* run() keeps stepping until the engine is finished.
Fairness == WF_vars(Next)

Spec == Init /\ [][Next]_vars /\ Fairness
=============================================================================
