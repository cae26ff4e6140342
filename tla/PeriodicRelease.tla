-------------------------- MODULE PeriodicRelease --------------------------
(***************************************************************************)
(* The runtime tasks: each one keeps a single future release pending and   *)
(* turns a processed release into a job and its successor release.         *)
(***************************************************************************)
EXTENDS EngineState

VARIABLE
    release     \* per task: scheduled_tick_, scheduled_job_id_ and pending_resource_

\* pending is the resource captured by the queued release, Absent when
\* release_pending_ is false: the code changes the two together.
ReleaseState == [tick : Nat, job : Nat, pending : ResourceIds \cup {Absent}]

InitialRelease(c) == [t \in TaskIds |-> [tick |-> c.task[t].offset, job |-> 1, pending |-> Absent]]

\* Tasks that release at least one job within the horizon.
ReleasingTasks(c) == {t \in TaskIds : c.task[t].offset <= c.stop}

\* Order of the first insertions: offset, then priority, then identifier.
InsertedBefore(c, s, t) ==
    LET a == c.task[s]
        b == c.task[t]
    IN  \/ a.offset < b.offset
        \/ a.offset = b.offset /\ a.priority < b.priority
        \/ a.offset = b.offset /\ a.priority = b.priority /\ s < t

\* Order of the releases of one tick: priority, then identifier.
ReleasedBefore(c, s, t) ==
    \/ c.task[s].priority < c.task[t].priority
    \/ c.task[s].priority = c.task[t].priority /\ s < t

\* Task::schedule_initial_release: queue the first release with the task's placement.
ScheduleCurrentRelease(t) ==
    LET r == config.assignment[t]
    IN  /\ queue' = Scheduled(queue, release[t].tick, "JobRelease", "JobRelease",
                              JobEntities(t, release[t].job, r), Absent)
        /\ release' = [release EXCEPT ![t].pending = r]

\* The processed release is the task's one pending release.
ReleaseMatches(e) ==
    LET t == e.entities.task
    IN  /\ t \in TaskIds
        /\ release[t].pending # Absent
        /\ e.tick = release[t].tick
        /\ e.entities.job = release[t].job
        /\ e.entities.resource = release[t].pending

\* The absolute deadline of the job would leave the tick domain.
DeadlineOverflows(t) == config.task[t].deadline > MaxTick - release[t].tick

HasSuccessor(t) == config.task[t].period <= config.stop - release[t].tick

SuccessorTick(t) == release[t].tick + config.task[t].period

ReleaseAfter(t) ==
    IF HasSuccessor(t)
    THEN [tick |-> SuccessorTick(t), job |-> release[t].job + 1, pending |-> config.assignment[t]]
    ELSE [release[t] EXCEPT !.pending = Absent]

\* Task::release queues the successor before the job reaches the scheduler.
QueueAfterRelease(t) ==
    IF HasSuccessor(t)
    THEN Scheduled(queue, SuccessorTick(t), "JobRelease", "JobRelease",
                   JobEntities(t, release[t].job + 1, config.assignment[t]), Absent)
    ELSE queue
=============================================================================
