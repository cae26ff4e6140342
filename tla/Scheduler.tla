----------------------------- MODULE Scheduler -----------------------------
(***************************************************************************)
(* The runtime scheduling domain: jobs, the exclusive resources that       *)
(* execute them, per-resource Ready membership, and the fixed-priority     *)
(* policy.  Execution is charged per interval, not per tick: a resource    *)
(* records when its job was dispatched and when it is expected to end.     *)
(*                                                                         *)
(* ready_jobs is a vector in the code; the policy uses no container order  *)
(* and identities are unique, so membership is a set here.                 *)
(***************************************************************************)
EXTENDS EngineState

CONSTANT NoJob      \* running_job_ of an idle resource

ASSUME NoJobAssumption == NoJob \notin TaskIds \X Nat

VARIABLES
    jobs,       \* jobs_: identity -> state of every released job
    resource,   \* per resource: the execution interval and the busy account
    ready       \* per resource: identities of its Ready jobs

JobLifecycle == {"Ready", "Running", "Completed"}

\* first_start is Absent until has_started_, finish is Absent until completion.
JobState == [resource : ResourceIds, priority : Nat, release : Nat, deadline : Nat,
             remaining : Nat, lifecycle : JobLifecycle, first_start : Int, finish : Int,
             preemptions : Nat, missed : BOOLEAN]

\* since and expected are Absent while the resource is idle.
ResourceState == [running : JobIdentity \cup {NoJob}, since : Int, expected : Int, busy : Nat]

IdleResource == [running |-> NoJob, since |-> Absent, expected |-> Absent, busy |-> 0]

Released == DOMAIN jobs

Active(j) == jobs[j].lifecycle # "Completed"

HasActiveJob(t) == \E j \in Released : j[1] = t /\ Active(j)

NewJob(t, e) ==
    [resource |-> e.entities.resource, priority |-> config.task[t].priority,
     release |-> e.tick, deadline |-> e.tick + config.task[t].deadline,
     remaining |-> config.demand[t, e.entities.resource], lifecycle |-> "Ready",
     first_start |-> Absent, finish |-> Absent, preemptions |-> 0, missed |-> FALSE]

-----------------------------------------------------------------------------
(* Transitions of a resource and the job it executes. *)

\* start_job cannot represent the completion tick.
StartOverflows(j) == jobs[j].remaining > MaxTick - tick

Started(job) == job.first_start # Absent

\* Faulty variant of StartedJob: a resume overwrites the first start.
RestartedJob(job) == [job EXCEPT !.lifecycle = "Running", !.first_start = tick]

StartedJob(job) ==
    [job EXCEPT !.lifecycle = "Running", !.first_start = IF Started(job) THEN @ ELSE tick]

StartedResource(res, j, remaining) ==
    [res EXCEPT !.running = j, !.since = tick, !.expected = tick + remaining]

\* Faulty variant of PreemptedJob: the job is charged from the start of the run.
PreemptedJobFromZero(job, res) ==
    [job EXCEPT !.remaining = @ - tick, !.lifecycle = "Ready", !.preemptions = @ + 1]

\* Faulty variant of IdledResource: the planned interval is charged, not the elapsed one.
IdledResourceAsPlanned(res) ==
    [running |-> NoJob, since |-> Absent, expected |-> Absent,
     busy |-> res.busy + res.expected - res.since]

\* preempt_job: charge the interval since the last dispatch, then idle the resource.
PreemptedJob(job, res) ==
    [job EXCEPT !.remaining = @ - (tick - res.since), !.lifecycle = "Ready",
                !.preemptions = @ + 1]

IdledResource(res) ==
    [running |-> NoJob, since |-> Absent, expected |-> Absent, busy |-> res.busy + tick - res.since]

\* preempt_job refuses a job whose completion is due.
MayPreempt(r) ==
    LET elapsed == tick - resource[r].since
    IN  elapsed >= 0 /\ elapsed < jobs[resource[r].running].remaining

CompletedJob(job) ==
    [job EXCEPT !.remaining = 0, !.lifecycle = "Completed", !.finish = tick]

\* charge_execution finds exactly the remaining demand in the interval that ends now.
ChargeCompletes(r, j) ==
    /\ jobs[j].lifecycle = "Running"
    /\ tick > resource[r].since
    /\ tick - resource[r].since = jobs[j].remaining

-----------------------------------------------------------------------------
(* Candidates and deadlines. *)

\* A completion candidate is accepted only if its job still runs and is expected now.
\* Otherwise it is a leftover of an interval that a preemption cut short.
CompletionIsCurrent(e) ==
    LET res == resource[e.entities.resource]
    IN  /\ res.running = <<e.entities.task, e.entities.job>>
        /\ res.expected = e.tick

DeadlineOf(e) == <<e.entities.task, e.entities.job>>

\* process_deadline and mark_deadline_missed accept the candidate.
DeadlineMatches(e) ==
    LET j == DeadlineOf(e)
    IN  /\ j \in Released
        /\ jobs[j].resource = e.entities.resource
        /\ jobs[j].deadline = e.tick
        /\ Active(j) => ~ jobs[j].missed

-----------------------------------------------------------------------------
(* The fixed-priority policy. *)

\* Smaller priority number first, then release, task and job number.
ComesBefore(j, k) ==
    LET a == jobs[j]
        b == jobs[k]
    IN  \/ a.priority < b.priority
        \/ /\ a.priority = b.priority
           /\ \/ a.release < b.release
              \/ a.release = b.release /\ j[1] < k[1]
              \/ a.release = b.release /\ j[1] = k[1] /\ j[2] < k[2]

Selected(r, j) == j \in ready[r] /\ \A k \in ready[r] : ~ ComesBefore(k, j)

\* Faulty variant of ShouldPreempt: equal priority preempts.
PreemptsEqual(running, j) == jobs[j].priority <= jobs[running].priority

\* Equal priority does not preempt.
ShouldPreempt(running, j) == jobs[j].priority < jobs[running].priority

-----------------------------------------------------------------------------
(* One resource's share of Scheduler::schedule. *)

Idle(r) == resource[r].running = NoJob

\* Faulty variant of Undisturbed: non-preemptive execution looks at any resource.
UndisturbedWhileAnyRuns(r) ==
    \/ ready[r] = {}
    \/ config.mode = "NonPreemptive" /\ \E s \in ResourceIds : ~ Idle(s)
    \/ ~ Idle(r) /\ \E j \in ready[r] : Selected(r, j) /\ ~ ShouldPreempt(resource[r].running, j)

\* The decision leaves the resource as it is.
Undisturbed(r) ==
    \/ ready[r] = {}
    \/ ~ Idle(r) /\ config.mode = "NonPreemptive"
    \/ ~ Idle(r) /\ \E j \in ready[r] : Selected(r, j) /\ ~ ShouldPreempt(resource[r].running, j)

\* Faulty variant of QueueAfterStart: a completion on the horizon is not queued.
QueueAfterStartBeforeStop(q, r, j) ==
    LET type == IF Started(jobs[j]) THEN "JobResume" ELSE "JobStart"
        entities == JobEntities(j[1], j[2], r)
        started == Scheduled(q, tick, "Scheduling", type, entities, Absent)
        completion == tick + jobs[j].remaining
    IN  IF completion < config.stop
        THEN Scheduled(started, completion, "ExecutionCompletion", "JobFinish", entities, Absent)
        ELSE started

\* start_selected_job queues what it did now and, if in horizon, the completion candidate.
QueueAfterStart(q, r, j) ==
    LET type == IF Started(jobs[j]) THEN "JobResume" ELSE "JobStart"
        entities == JobEntities(j[1], j[2], r)
        started == Scheduled(q, tick, "Scheduling", type, entities, Absent)
        completion == tick + jobs[j].remaining
    IN  IF completion <= config.stop
        THEN Scheduled(started, completion, "ExecutionCompletion", "JobFinish", entities, Absent)
        ELSE started

\* Faulty variant of StartSelected: the identity stays in the Ready vector.
StartWithoutErase(r, j) ==
    /\ jobs' = [jobs EXCEPT ![j] = StartedJob(@)]
    /\ resource' = [resource EXCEPT ![r] = StartedResource(@, j, jobs[j].remaining)]
    /\ UNCHANGED ready
    /\ queue' = QueueAfterStart(queue, r, j)

StartSelected(r, j) ==
    /\ jobs' = [jobs EXCEPT ![j] = StartedJob(@)]
    /\ resource' = [resource EXCEPT ![r] = StartedResource(@, j, jobs[j].remaining)]
    /\ ready' = [ready EXCEPT ![r] = @ \ {j}]
    /\ queue' = QueueAfterStart(queue, r, j)

\* Replace the running job p by j: the charge, the requeue and the JobPreempt
\* observation precede the start.
ReplaceRunning(r, p, j) ==
    LET preempted == Scheduled(queue, tick, "Scheduling", "JobPreempt",
                               JobEntities(p[1], p[2], r), Absent)
    IN  /\ jobs' = [jobs EXCEPT ![p] = PreemptedJob(@, resource[r]), ![j] = StartedJob(@)]
        /\ resource' = [resource EXCEPT ![r] =
                            StartedResource(IdledResource(@), j, jobs[j].remaining)]
        /\ ready' = [ready EXCEPT ![r] = (@ \cup {p}) \ {j}]
        /\ queue' = QueueAfterStart(preempted, r, j)
=============================================================================
