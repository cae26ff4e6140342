------------------------- MODULE EngineHistoryProofs -------------------------
(***************************************************************************)
(* Proofs about the history of a run.  First what a step never takes back, *)
(* the canonical order of the trace, the schedule of the messages, and     *)
(* what resources are charged; then the books: what the resources were     *)
(* busy is what the jobs were charged, and the trace alone tells both.     *)
(***************************************************************************)
EXTENDS EngineProperties, EngineProofs, FiniteSetTheorems

-----------------------------------------------------------------------------
(* The inductive strengthening of TraceCanonical and MessagesOnSchedule, on top of the *)
(* kernel's invariant.                                                                  *)

\* Type and phase of a release belong together.
ReleaseTyped(e) == e.type = "JobRelease" <=> e.phase = "JobRelease"

\* What e names as its cause was accepted before.
CauseRecorded(e) == e.cause # Absent => \E k \in DOMAIN trace : trace[k].sequence = e.cause

\* The last event of the trace, if there is one, is of the tick being processed.
LastIsNow == trace # <<>> /\ trace[Len(trace)].tick = tick

\* In one tick, e may be taken from the queue after last.
MayFollow(last, e) ==
    /\ PhasePrecedence(last.phase) <= PhasePrecedence(e.phase)
    /\ ~ (last.phase = "JobRelease" /\ e.phase = "JobRelease")

\* Whatever the tick may still take comes after what it has taken, and has its cause there.
FrontierSound ==
    /\ \A e \in queue.events \cup batch : ReleaseTyped(e) /\ CauseRecorded(e)
    /\ \A i \in DOMAIN trace : ReleaseTyped(trace[i])
    /\ trace # <<>> => trace[Len(trace)].tick <= tick
    /\ LastIsNow =>
           LET last == trace[Len(trace)]
           IN  /\ \A e \in queue.events : e.tick = tick => MayFollow(last, e)
               /\ stage \in {"settle", "publish", "release", "schedule"} =>
                      PhasePrecedence(last.phase) <= PhasePrecedence("JobRelease")
               /\ last.phase = "JobRelease" =>
                      \A e \in batch : ReleasedBefore(config, last.entities.task, e.entities.task)

\* The job whose completion is being published.
Publisher == JobOf(trace[Len(trace)])

Sent(j, d) == \E i \in DOMAIN messages : messages[i].source = j /\ messages[i].destination = d

\* Every message is of a completed job and a route of its task, with the ticks planned for it.
RecordsSound ==
    /\ \A i \in DOMAIN messages :
           LET m == messages[i]
           IN  /\ m.source \in Released /\ ~ Active(m.source)
               /\ m.destination \in Destinations(config, m.source[1])
               /\ m.publish = jobs[m.source].finish
               /\ m.send = m.publish + 1
               /\ m.delivery = m.send + RouteDelay(config, m.source[1], m.destination)
    /\ \A i, k \in DOMAIN messages :
           (messages[i].source = messages[k].source
              /\ messages[i].destination = messages[k].destination) => i = k

\* A completed job has sent to every destination, but for those its publication has left.
PublicationSound ==
    /\ stage = "publish" =>
           /\ Publisher \in Released /\ ~ Active(Publisher) /\ jobs[Publisher].finish = tick
           /\ \A d \in todo : ~ Sent(Publisher, d)
    /\ stage # "failed" =>
           \A j \in Released : \A d \in Destinations(config, j[1]) :
               ~ Active(j) =>
                   \/ Sent(j, d)
                   \/ stage = "publish" /\ j = Publisher /\ d \in todo

\* A message moves when its ticks come; until then the event that moves it is pending within
\* the horizon.
DeliverySound ==
    \A i \in DOMAIN messages :
        LET m == messages[i]
        IN  /\ m.lifecycle = "PendingSend" =>
                   /\ tick <= m.send
                   /\ m.send <= config.stop =>
                          \E e \in Of(queue, "CausedAction") : e.entities.message = i
            /\ m.lifecycle = "InFlight" =>
                   /\ m.send <= tick /\ tick <= m.delivery
                   /\ m.delivery <= config.stop =>
                          \E e \in Of(queue, "MessageDelivery") : e.entities.message = i
            /\ m.lifecycle = "Delivered" => m.delivery <= tick

\* The inductive invariant of the history: order of the trace and schedule of the messages.
HistoryInv ==
    /\ KernelInv
    /\ FrontierSound
    /\ TraceCanonical
    /\ RecordsSound
    /\ PublicationSound
    /\ DeliverySound
    /\ BusyWithinTime

-----------------------------------------------------------------------------
(* What a step never takes back. *)

\* A step that leaves the jobs alone, or only adds one.
LEMMA JobsKept ==
    ASSUME TypeOK, Released \subseteq Released', \A k \in Released : jobs'[k] = jobs[k]
    PROVE  JobProgress
    <1>1. \A k \in Released : jobs[k].remaining \in Nat
        BY DEF TypeOK, JobState
    <1>. QED  BY <1>1 DEF JobProgress, Released

\* The same for a step that does not touch the jobs at all.
LEMMA JobsUntouched == ASSUME TypeOK, UNCHANGED jobs PROVE JobProgress
    BY JobsKept DEF Released

\* One job is replaced by a later state of it.
LEMMA OneJobProgresses ==
    ASSUME TypeOK, NEW j \in Released, NEW job, jobs' = [jobs EXCEPT ![j] = job],
           job.resource = jobs[j].resource, job.priority = jobs[j].priority,
           job.release = jobs[j].release, job.deadline = jobs[j].deadline,
           job.remaining <= jobs[j].remaining, jobs[j].lifecycle = "Completed" => job = jobs[j],
           jobs[j].missed => job.missed, Started(jobs[j]) => job.first_start = jobs[j].first_start
    PROVE  JobProgress
    <1>1. /\ DOMAIN jobs' = Released /\ jobs'[j] = job
          /\ \A k \in Released : k # j => jobs'[k] = jobs[k]
        BY DEF TypeOK, Released
    <1>2. \A k \in Released : jobs[k].remaining \in Nat
        BY DEF TypeOK, JobState
    <1>. QED  BY <1>1, <1>2 DEF JobProgress

\* A completion is the last change of its job.
LEMMA AcceptCompletionProgress ==
    ASSUME KernelInv, NEW e \in queue.events, AcceptCompletion(e)
    PROVE  JobProgress
    <1>. DEFINE j == JobOf(e)
                r == e.entities.resource
    <1>1. TypeOK /\ Settling(e, "ExecutionCompletion") /\ CompletionIsCurrent(e)
        BY DEF KernelInv, StateInv, AcceptCompletion
    <1>2. j \in Released /\ jobs[j].lifecycle = "Running" /\ ChargeCompletes(r, j)
        BY <1>1, CurrentCompletes
    <1>3. jobs' = [jobs EXCEPT ![j] = CompletedJob(jobs[j])]
        BY <1>2 DEF AcceptCompletion, JobOf
    <1>. HIDE DEF j
    <1>4. jobs[j] \in JobState
        BY <1>1, <1>2 DEF TypeOK
    <1>5. /\ CompletedJob(jobs[j]).resource = jobs[j].resource
          /\ CompletedJob(jobs[j]).priority = jobs[j].priority
          /\ CompletedJob(jobs[j]).release = jobs[j].release
          /\ CompletedJob(jobs[j]).deadline = jobs[j].deadline
          /\ CompletedJob(jobs[j]).remaining <= jobs[j].remaining
          /\ CompletedJob(jobs[j]).missed = jobs[j].missed
          /\ CompletedJob(jobs[j]).first_start = jobs[j].first_start
        BY <1>4 DEF CompletedJob, JobState
    <1>. QED  BY <1>1, <1>2, <1>3, <1>5, OneJobProgresses

\* A deadline check adds a miss, and only to a job that is not complete.
LEMMA CheckDeadlineProgress ==
    ASSUME KernelInv, NEW e \in queue.events, CheckDeadline(e)
    PROVE  JobProgress
    <1>. DEFINE j == DeadlineOf(e)
    <1>1. TypeOK
        BY DEF KernelInv, StateInv
    <1>2. CASE UNCHANGED jobs
        BY <1>1, <1>2, JobsUntouched
    <1>3. CASE jobs' # jobs
        <2>1. j \in Released /\ Active(j) /\ jobs' = [jobs EXCEPT ![j].missed = TRUE]
            BY <1>3 DEF CheckDeadline, DeadlineMatches
        <2>. HIDE DEF j
        <2>2. jobs[j] \in JobState
            BY <1>1, <2>1 DEF TypeOK
        <2>3. PICK job : job = [jobs[j] EXCEPT !.missed = TRUE]
            OBVIOUS
        <2>4. /\ jobs' = [jobs EXCEPT ![j] = job] /\ job.missed
              /\ job.resource = jobs[j].resource /\ job.priority = jobs[j].priority
              /\ job.release = jobs[j].release /\ job.deadline = jobs[j].deadline
              /\ job.remaining <= jobs[j].remaining /\ job.first_start = jobs[j].first_start
            BY <2>1, <2>2, <2>3 DEF JobState
        <2>. QED  BY <1>1, <2>1, <2>4, OneJobProgresses DEF Active
    <1>. QED  BY <1>2, <1>3

\* A release adds a job.
LEMMA ReleaseJobProgress ==
    ASSUME KernelInv, NEW e \in batch, ReleaseJob(e)
    PROVE  JobProgress
    <1>. DEFINE j == JobOf(e)
    <1>1. TypeOK
        BY DEF KernelInv, StateInv
    <1>2. CASE UNCHANGED jobs
        BY <1>1, <1>2, JobsUntouched
    <1>3. CASE jobs' # jobs
        <2>1. PICK job : job = NewJob(e.entities.task, e)
            OBVIOUS
        <2>2. j \notin Released /\ jobs' = [k \in Released \cup {j} |-> IF k = j THEN job ELSE jobs[k]]
            BY <1>3, <2>1 DEF ReleaseJob, JobOf
        <2>. HIDE DEF j
        <2>3. Released \subseteq Released' /\ \A k \in Released : jobs'[k] = jobs[k]
            BY <2>2 DEF Released
        <2>. QED  BY <1>1, <2>3, JobsKept
    <1>. QED  BY <1>2, <1>3

\* What a start or a resume records.
LEMMA StartProgress ==
    ASSUME TypeOK, NEW job \in JobState, job.lifecycle = "Ready"
    PROVE  LET started == StartedJob(job)
           IN  /\ started.resource = job.resource /\ started.priority = job.priority
               /\ started.release = job.release /\ started.deadline = job.deadline
               /\ started.remaining <= job.remaining /\ started.missed = job.missed
               /\ Started(job) => started.first_start = job.first_start
    BY DEF StartedJob, JobState

\* A dispatch starts or resumes one job.
LEMMA DispatchProgress ==
    ASSUME KernelInv, NEW r \in ResourceIds, NEW j \in ready[r], Dispatch(r, j)
    PROVE  JobProgress
    <1>1. TypeOK /\ stage = "schedule"
        BY DEF KernelInv, StateInv, Dispatch, Visiting
    <1>2. CASE UNCHANGED jobs
        BY <1>1, <1>2, JobsUntouched
    <1>3. CASE jobs' # jobs
        <2>1. jobs' = [jobs EXCEPT ![j] = StartedJob(jobs[j])]
            BY <1>3 DEF Dispatch, StartSelected
        <2>2. j \in Released /\ jobs[j] \in JobState /\ jobs[j].lifecycle = "Ready"
            BY <1>1, StartedAndHeld DEF TypeOK
        <2>3. PICK job : job = StartedJob(jobs[j])
            OBVIOUS
        <2>4. /\ job.resource = jobs[j].resource /\ job.priority = jobs[j].priority
              /\ job.release = jobs[j].release /\ job.deadline = jobs[j].deadline
              /\ job.remaining <= jobs[j].remaining /\ job.missed = jobs[j].missed
              /\ Started(jobs[j]) => job.first_start = jobs[j].first_start
            BY <1>1, <2>2, <2>3, StartProgress
        <2>. QED  BY <1>1, <2>1, <2>2, <2>3, <2>4, OneJobProgresses
    <1>. QED  BY <1>2, <1>3

\* A preemption charges one job and starts another.
LEMMA PreemptProgress ==
    ASSUME KernelInv, NEW r \in ResourceIds, NEW j \in ready[r], Preempt(r, j)
    PROVE  JobProgress
    <1>. DEFINE p == resource[r].running
    <1>1. TypeOK /\ stage = "schedule" /\ ~ Idle(r)
        BY DEF KernelInv, StateInv, Preempt, Visiting
    <1>2. ReplaceRunning(r, p, j)
        BY PreemptionAccepted DEF Preempt
    <1>3. /\ j \in Released /\ jobs[j] \in JobState /\ jobs[j].lifecycle = "Ready"
          /\ p \in Released /\ jobs[p] \in JobState /\ jobs[p].lifecycle = "Running" /\ p # j
          /\ tick \in Nat /\ resource[r].since \in Int /\ resource[r].since <= tick
        BY <1>1, StartedAndHeld DEF TypeOK
    <1>4. PICK held : held = PreemptedJob(jobs[p], resource[r])
        OBVIOUS
    <1>5. PICK job : job = StartedJob(jobs[j])
        OBVIOUS
    <1>6. jobs' = [jobs EXCEPT ![p] = held, ![j] = job]
        BY <1>2, <1>3, <1>4, <1>5 DEF ReplaceRunning
    <1>7. /\ job.resource = jobs[j].resource /\ job.priority = jobs[j].priority
          /\ job.release = jobs[j].release /\ job.deadline = jobs[j].deadline
          /\ job.remaining <= jobs[j].remaining /\ job.missed = jobs[j].missed
          /\ Started(jobs[j]) => job.first_start = jobs[j].first_start
        BY <1>1, <1>3, <1>5, StartProgress
    <1>. HIDE DEF p
    <1>8. /\ held.resource = jobs[p].resource /\ held.priority = jobs[p].priority
          /\ held.release = jobs[p].release /\ held.deadline = jobs[p].deadline
          /\ held.missed = jobs[p].missed /\ held.first_start = jobs[p].first_start
          /\ held.remaining = jobs[p].remaining - (tick - resource[r].since)
        BY <1>3, <1>4 DEF PreemptedJob, JobState
    <1>9. held.remaining <= jobs[p].remaining
        BY <1>3, <1>8 DEF JobState
    <1>10. /\ DOMAIN jobs' = Released /\ jobs'[p] = held /\ jobs'[j] = job
           /\ \A k \in Released : k \notin {j, p} => jobs'[k] = jobs[k]
        BY <1>1, <1>3, <1>6 DEF TypeOK, Released
    <1>11. \A k \in Released : jobs[k].remaining \in Nat
        BY <1>1 DEF TypeOK, JobState
    <1>. QED  BY <1>3, <1>7, <1>8, <1>9, <1>10, <1>11 DEF JobProgress

\* An event of the tick is appended.
LEMMA HistoryAppended ==
    ASSUME TypeOK, UNCHANGED tick, NEW e, e.tick = tick, trace' = Append(trace, e)
    PROVE  HistoryGrows
    <1>1. trace \in Seq(Event) /\ tick \in Nat
        BY DEF TypeOK
    <1>2. /\ Len(trace') = Len(trace) + 1 /\ trace'[Len(trace')] = e
          /\ SubSeq(trace', 1, Len(trace)) = trace
        BY <1>1
    <1>3. tick <= tick'
        BY <1>1
    <1>4. trace'[Len(trace')].tick = tick
        BY <1>2
    <1>. QED  BY <1>2, <1>3, <1>4, Zenon DEF HistoryGrows

\* No step rewrites a job or the trace, or turns back the clock.
LEMMA NextTakesNothingBack == KernelInv /\ [Next]_vars => [JobProgress /\ HistoryGrows]_vars
    <1>. SUFFICES ASSUME KernelInv, Next PROVE JobProgress /\ HistoryGrows
        OBVIOUS
    <1>1. TypeOK /\ tick \in Nat
        BY DEF KernelInv, StateInv, TypeOK
    <1>2. ASSUME UNCHANGED <<jobs, tick, trace>> PROVE JobProgress /\ HistoryGrows
        BY <1>1, <1>2, JobsUntouched DEF HistoryGrows
    <1>3. CASE \E t \in TaskIds : QueueFirstRelease(t)
        BY <1>2, <1>3 DEF QueueFirstRelease
    <1>4. CASE Initialized \/ FinishEmpty
        BY <1>2, <1>4 DEF Initialized, FinishEmpty
    <1>5. CASE \E e \in queue.events : BeginTick(e)
        <2>1. UNCHANGED <<jobs, trace>> /\ tick <= tick'
            <3>1. PICK e \in queue.events : BeginTick(e)
                BY <1>5
            <3>2. e.tick \in Nat
                BY <1>1, PendingFields
            <3>. QED  BY <1>1, <3>1, <3>2 DEF BeginTick
        <2>. QED  BY <1>1, <2>1, JobsUntouched DEF HistoryGrows
    <1>6. CASE Settle
        <2>1. PICK e \in queue.events :
                  AcceptCompletion(e) \/ IgnoreStaleCompletion(e) \/ DeliverMessage(e) \/ CheckDeadline(e)
            BY <1>6 DEF Settle
        <2>2. CASE AcceptCompletion(e)
            <3>1. UNCHANGED tick /\ e.tick = tick /\ (trace' = trace \/ trace' = Append(trace, e))
                BY <2>2 DEF AcceptCompletion, Settling, IsDue
            <3>. QED  BY <1>1, <2>2, <3>1, AcceptCompletionProgress, HistoryAppended DEF HistoryGrows
        <2>3. CASE IgnoreStaleCompletion(e)
            BY <1>2, <2>3 DEF IgnoreStaleCompletion
        <2>4. CASE DeliverMessage(e)
            <3>1. /\ UNCHANGED <<tick, jobs>> /\ e.tick = tick
                  /\ trace' = trace \/ trace' = Append(trace, e)
                BY <2>4 DEF DeliverMessage, Settling, IsDue
            <3>. QED  BY <1>1, <3>1, JobsUntouched, HistoryAppended DEF HistoryGrows
        <2>5. CASE CheckDeadline(e)
            <3>1. UNCHANGED tick /\ e.tick = tick /\ (trace' = trace \/ trace' = Append(trace, e))
                BY <2>5 DEF CheckDeadline, Settling, IsDue
            <3>. QED  BY <1>1, <2>5, <3>1, CheckDeadlineProgress, HistoryAppended DEF HistoryGrows
        <2>. QED  BY <2>1, <2>2, <2>3, <2>4, <2>5
    <1>7. CASE \E d \in TaskIds : PublishRoute(d)
        BY <1>2, <1>7 DEF PublishRoute
    <1>8. CASE ProcessReleases
        <2>1. CASE CollectReleases
            BY <1>2, <2>1 DEF CollectReleases
        <2>2. CASE \E e \in batch : ReleaseRefused(e)
            BY <1>2, <2>2 DEF ReleaseRefused
        <2>3. CASE \E e \in batch : ReleaseJob(e)
            <3>1. PICK e \in batch : ReleaseJob(e)
                BY <2>3
            <3>2. UNCHANGED tick /\ (trace' = trace \/ trace' = Append(trace, e))
                BY <3>1 DEF ReleaseJob
            <3>3. e.tick = tick
                BY DEF KernelInv, PositionSound
            <3>. QED  BY <1>1, <3>1, <3>2, <3>3, ReleaseJobProgress, HistoryAppended DEF HistoryGrows
        <2>. QED  BY <1>8, <2>1, <2>2, <2>3 DEF ProcessReleases
    <1>9. CASE Schedule
        <2>1. UNCHANGED <<tick, trace>>
            BY <1>9 DEF Schedule, LeaveResource, Dispatch, Preempt
        <2>2. JobProgress
            <3>1. CASE \E r \in ResourceIds : LeaveResource(r)
                BY <1>2, <3>1 DEF LeaveResource
            <3>. QED  BY <1>9, <3>1, DispatchProgress, PreemptProgress DEF Schedule
        <2>. QED  BY <1>1, <2>1, <2>2 DEF HistoryGrows
    <1>10. CASE Act
        <2>1. CASE EndTick
            BY <1>2, <2>1 DEF EndTick
        <2>2. CASE \E e \in queue.events : RecordDecision(e) \/ SendMessage(e)
            <3>1. PICK e \in queue.events : RecordDecision(e) \/ SendMessage(e)
                BY <2>2
            <3>2. /\ UNCHANGED <<tick, jobs>> /\ e.tick = tick
                  /\ trace' = trace \/ trace' = Append(trace, e)
                BY <3>1 DEF RecordDecision, SendMessage, IsDue
            <3>. QED  BY <1>1, <3>2, JobsUntouched, HistoryAppended DEF HistoryGrows
        <2>. QED  BY <1>10, <2>1, <2>2 DEF Act
    <1>11. CASE StepAfterEnd
        BY <1>2, <1>11 DEF StepAfterEnd, vars
    <1>. QED  BY <1>3, <1>4, <1>5, <1>6, <1>7, <1>8, <1>9, <1>10, <1>11 DEF Next

\* A run takes nothing back: jobs only progress, the trace only grows, and time never turns
\* back, in every run of every valid configuration (runtime_state.cpp:49-180,
\* simulation_engine.cpp:262-269).
THEOREM HistoryIsFinal == Spec => NothingIsTakenBack
    BY KernelInvariance, NextTakesNothingBack, PTL DEF Spec, NothingIsTakenBack

-----------------------------------------------------------------------------
(* The order of the trace. *)

\* The loops of a tick before its decisions are recorded.
BeforeActing == {"settle", "publish", "release", "schedule"}

\* The last event of the trace keeps its place when nothing is appended and what becomes
\* pending in this tick is a decision of it.
LEMMA FrontierKept ==
    ASSUME KernelInv, FrontierSound, TraceCanonical, UNCHANGED <<config, tick, trace>>,
           \A x \in queue'.events \cup batch' :
               x \in queue.events \cup batch \/ (ReleaseTyped(x) /\ CauseRecorded(x)),
           trace # <<>> =>
               \A x \in queue'.events :
                   x.tick = tick => x \in queue.events \/ (stage = "schedule" /\ x.phase = "Scheduling"),
           \/ batch' \subseteq batch
           \/ \A x \in batch' : x \in queue.events /\ x.tick = tick /\ x.phase = "JobRelease",
           stage' \in BeforeActing => stage \in BeforeActing
    PROVE  FrontierSound' /\ TraceCanonical'
    <1>. DEFINE last == trace[Len(trace)]
    <1>1. TypeOK
        BY DEF KernelInv, StateInv
    <1>2. TraceCanonical'
        BY DEF TraceCanonical
    <1>3. \A x \in queue'.events \cup batch' : ReleaseTyped(x)' /\ CauseRecorded(x)'
        BY DEF FrontierSound, ReleaseTyped, CauseRecorded
    <1>4. /\ \A i \in DOMAIN trace' : ReleaseTyped(trace[i])'
          /\ trace' # <<>> => trace'[Len(trace')].tick <= tick'
        BY DEF FrontierSound, ReleaseTyped
    <1>5. ASSUME LastIsNow
          PROVE  /\ \A x \in queue'.events : x.tick = tick => MayFollow(last, x)
                 /\ stage' \in BeforeActing => PhasePrecedence(last.phase) <= PhasePrecedence("JobRelease")
                 /\ last.phase = "JobRelease" =>
                        \A x \in batch' : ReleasedBefore(config, last.entities.task, x.entities.task)
        <2>1. trace # <<>> /\ last.phase \in EventPhase
            <3>1. trace \in Seq(Event) /\ trace # <<>>
                BY <1>1, <1>5 DEF LastIsNow, TypeOK
            <3>2. last \in Event
                BY <3>1
            <3>. QED  BY <3>1, <3>2 DEF Event
        <2>2. /\ \A x \in queue.events : x.tick = tick => MayFollow(last, x)
              /\ stage \in BeforeActing => PhasePrecedence(last.phase) <= PhasePrecedence("JobRelease")
              /\ last.phase = "JobRelease" =>
                     \A x \in batch : ReleasedBefore(config, last.entities.task, x.entities.task)
            BY <1>5 DEF FrontierSound, BeforeActing
        <2>. HIDE DEF last
        <2>3. PhasePrecedence(last.phase) \in Nat
            BY <2>1, PrecedenceType
        <2>4. stage = "schedule" => \A x : x.phase = "Scheduling" => MayFollow(last, x)
            BY <2>2, <2>3, Precedences DEF MayFollow, BeforeActing
        <2>5. \A x \in queue'.events : x.tick = tick => MayFollow(last, x)
            BY <2>1, <2>2, <2>4
        <2>6. last.phase = "JobRelease" =>
                  \A x \in batch' : ReleasedBefore(config, last.entities.task, x.entities.task)
            BY <2>2 DEF MayFollow
        <2>. QED  BY <2>2, <2>5, <2>6
    <1>6. LastIsNow' <=> LastIsNow
        BY DEF LastIsNow
    <1>. QED  BY <1>2, <1>3, <1>4, <1>5, <1>6 DEF FrontierSound, BeforeActing

\* Appending an event that may follow the last one, and whose cause is recorded, keeps the
\* trace canonical.
LEMMA CanonicalAppended ==
    ASSUME TypeOK, FrontierSound, TraceCanonical, UNCHANGED <<config, tick>>, NEW e \in Event,
           e.tick = tick, ReleaseTyped(e), CauseRecorded(e), trace' = Append(trace, e),
           LastIsNow =>
               LET last == trace[Len(trace)]
               IN  /\ PhasePrecedence(last.phase) <= PhasePrecedence(e.phase)
                   /\ last.phase = "JobRelease" /\ e.phase = "JobRelease" =>
                          ReleasedBefore(config, last.entities.task, e.entities.task)
    PROVE  /\ TraceCanonical' /\ trace' # <<>> /\ trace'[Len(trace')] = e
           /\ \A i \in DOMAIN trace' : ReleaseTyped(trace'[i])
           /\ \A x : CauseRecorded(x) \/ x.cause = e.sequence => CauseRecorded(x)'
    <1>1. trace \in Seq(Event) /\ tick \in Nat
        BY DEF TypeOK
    <1>2. /\ Len(trace') = Len(trace) + 1 /\ DOMAIN trace' = 1 .. Len(trace) + 1
          /\ trace'[Len(trace) + 1] = e /\ DOMAIN trace = 1 .. Len(trace) /\ Len(trace) \in Nat
          /\ \A i \in 1 .. Len(trace) : trace'[i] = trace[i]
        BY <1>1
    <1>3. \A i \in DOMAIN trace' : ReleaseTyped(trace'[i])
        BY <1>2 DEF FrontierSound
    <1>4. \A x : CauseRecorded(x) \/ x.cause = e.sequence => CauseRecorded(x)'
        BY <1>2 DEF CauseRecorded
    <1>5. ASSUME NEW i \in 1 .. Len(trace') - 1
          PROVE  \/ trace'[i].tick < trace'[i + 1].tick
                 \/ /\ trace'[i].tick = trace'[i + 1].tick
                    /\ PhasePrecedence(trace'[i].phase) <= PhasePrecedence(trace'[i + 1].phase)
                    /\ (trace'[i].type = "JobRelease" /\ trace'[i + 1].type = "JobRelease") =>
                           ReleasedBefore(config', trace'[i].entities.task, trace'[i + 1].entities.task)
        <2>1. CASE i < Len(trace)
            <3>1. trace'[i] = trace[i] /\ trace'[i + 1] = trace[i + 1] /\ i \in 1 .. Len(trace) - 1
                BY <1>2, <2>1
            <3>2. config' = config
                OBVIOUS
            <3>. QED  BY <3>1, <3>2 DEF TraceCanonical
        <2>2. CASE i = Len(trace)
            <3>1. /\ trace'[i] = trace[i] /\ trace'[i + 1] = e /\ trace # <<>>
                  /\ trace[i].tick <= tick /\ ReleaseTyped(trace[i]) /\ trace[i] \in Event
                BY <1>1, <1>2, <2>2 DEF FrontierSound
            <3>2. trace[i].tick \in Nat
                BY <3>1 DEF Event
            <3>3. CASE trace[i].tick < tick
                BY <3>1, <3>3
            <3>4. CASE trace[i].tick = tick
                <4>1. LastIsNow
                    BY <2>2, <3>1, <3>4 DEF LastIsNow
                <4>2. /\ PhasePrecedence(trace[i].phase) <= PhasePrecedence(e.phase)
                      /\ trace[i].phase = "JobRelease" /\ e.phase = "JobRelease" =>
                             ReleasedBefore(config, trace[i].entities.task, e.entities.task)
                    BY <2>2, <4>1
                <4>. QED  BY <3>1, <3>4, <4>2 DEF ReleaseTyped
            <3>. QED  BY <1>1, <3>1, <3>2, <3>3, <3>4
        <2>3. i < Len(trace) \/ i = Len(trace)
            <3>1. i \in 1 .. Len(trace)
                BY <1>2
            <3>2. Len(trace) \in Nat
                BY <1>2
            <3>. QED  BY <3>1, <3>2
        <2>. QED  BY <2>1, <2>2, <2>3, Zenon
    <1>6. ASSUME NEW i \in DOMAIN trace', trace'[i].cause # Absent
          PROVE  \E k \in 1 .. i - 1 : trace'[k].sequence = trace'[i].cause
        <2>1. CASE i \in 1 .. Len(trace)
            <3>1. PICK k \in 1 .. i - 1 : trace[k].sequence = trace[i].cause
                BY <1>2, <1>6, <2>1 DEF TraceCanonical
            <3>. QED  BY <1>2, <2>1, <3>1
        <2>2. CASE i = Len(trace) + 1
            <3>1. PICK k \in DOMAIN trace : trace[k].sequence = e.cause
                BY <1>2, <1>6, <2>2 DEF CauseRecorded
            <3>. QED  BY <1>2, <2>2, <3>1
        <2>. QED  BY <1>2, <2>1, <2>2
    <1>7. TraceCanonical'
        BY <1>5, <1>6 DEF TraceCanonical
    <1>8. trace' # <<>> /\ trace'[Len(trace')] = e
        BY <1>2
    <1>. QED  BY <1>3, <1>4, <1>7, <1>8

\* The due event of a loop is appended; what it makes pending lies in the future.
LEMMA FrontierAppended ==
    ASSUME KernelInv, FrontierSound, TraceCanonical, UNCHANGED <<config, tick, batch>>,
           stage \in {"settle", "act"}, NEW e \in queue.events, IsDue(e), e.phase # "JobRelease",
           trace' = Append(trace, e),
           \A x \in queue'.events :
               x \in queue.events \/ (x.tick > tick /\ ReleaseTyped(x) /\ CauseRecorded(x)'),
           stage' \in BeforeActing => PhasePrecedence(e.phase) <= PhasePrecedence("JobRelease")
    PROVE  FrontierSound' /\ TraceCanonical'
    <1>1. TypeOK /\ batch = {} /\ e \in Event /\ e.tick = tick /\ tick \in Nat
        BY PendingFields DEF KernelInv, StateInv, PositionSound, IsDue, TypeOK
    <1>2. ReleaseTyped(e) /\ CauseRecorded(e)
        BY DEF FrontierSound
    <1>3. LastIsNow =>
              LET last == trace[Len(trace)]
              IN  /\ PhasePrecedence(last.phase) <= PhasePrecedence(e.phase)
                  /\ last.phase = "JobRelease" /\ e.phase = "JobRelease" =>
                         ReleasedBefore(config, last.entities.task, e.entities.task)
        BY <1>1 DEF FrontierSound, MayFollow
    <1>4. /\ TraceCanonical' /\ trace' # <<>> /\ trace'[Len(trace')] = e
          /\ \A i \in DOMAIN trace' : ReleaseTyped(trace'[i])
          /\ \A x : CauseRecorded(x) \/ x.cause = e.sequence => CauseRecorded(x)'
        BY <1>1, <1>2, <1>3, CanonicalAppended
    <1>5. \A x \in queue'.events : ReleaseTyped(x) /\ CauseRecorded(x)'
        BY <1>4 DEF FrontierSound
    <1>6. ASSUME NEW x \in queue'.events, x.tick = tick PROVE MayFollow(e, x)
        <2>1. x \in queue.events
            BY <1>1, <1>6
        <2>. QED  BY <1>1, <1>6, <2>1, DueIsFirst DEF MayFollow, KernelInv
    <1>. QED  BY <1>1, <1>4, <1>5, <1>6 DEF FrontierSound, BeforeActing, ReleaseTyped

\* A release of the batch is appended: it follows the releases before it, and the ones left
\* in the batch follow it.
LEMMA FrontierReleased ==
    ASSUME KernelInv, FrontierSound, TraceCanonical, stage = "release", NEW e \in batch,
           FirstInBatch(e), UNCHANGED <<config, tick>>, batch' = batch \ {e},
           trace' = Append(trace, e),
           \A x \in queue'.events :
               x \in queue.events \/ (x.tick > tick /\ ReleaseTyped(x) /\ x.cause = Absent)
    PROVE  FrontierSound' /\ TraceCanonical'
    <1>1. TypeOK /\ tick \in Nat
        BY DEF KernelInv, StateInv, TypeOK
    <1>2. e \in Event /\ e.phase = "JobRelease" /\ e.tick = tick /\ e.entities.task \in TaskIds
        BY BatchRelease
    <1>3. ReleaseTyped(e) /\ CauseRecorded(e)
        BY DEF FrontierSound
    <1>4. LastIsNow =>
              LET last == trace[Len(trace)]
              IN  /\ PhasePrecedence(last.phase) <= PhasePrecedence(e.phase)
                  /\ last.phase = "JobRelease" /\ e.phase = "JobRelease" =>
                         ReleasedBefore(config, last.entities.task, e.entities.task)
        BY <1>2 DEF FrontierSound
    <1>5. /\ TraceCanonical' /\ trace' # <<>> /\ trace'[Len(trace')] = e
          /\ \A i \in DOMAIN trace' : ReleaseTyped(trace'[i])
          /\ \A x : CauseRecorded(x) \/ x.cause = e.sequence => CauseRecorded(x)'
        BY <1>1, <1>2, <1>3, <1>4, CanonicalAppended
    <1>6. \A x \in queue'.events \cup batch' : ReleaseTyped(x) /\ CauseRecorded(x)'
        <2>1. \A x : x.cause = Absent => CauseRecorded(x)
            BY DEF CauseRecorded
        <2>. QED  BY <1>5, <2>1 DEF FrontierSound
    <1>7. ASSUME NEW x \in queue'.events, x.tick = tick PROVE MayFollow(e, x)
        <2>1. x \in queue.events
            BY <1>1, <1>7
        <2>2. PhasePrecedence(x.phase) > PhasePrecedence("JobRelease")
            BY <1>7, <2>1 DEF KernelInv, NothingInThePast
        <2>3. PhasePrecedence(x.phase) \in Nat
            BY <1>1, <2>1, PendingFields, PrecedenceType
        <2>. QED  BY <1>2, <2>2, <2>3, Precedences DEF MayFollow
    <1>8. ASSUME NEW x \in batch' PROVE ReleasedBefore(config, e.entities.task, x.entities.task)
        <2>1. x \in batch /\ x # e
            BY <1>8
        <2>2. x.entities.task \in TaskIds /\ x.entities.task # e.entities.task
            BY <2>1, BatchRelease DEF HeldReleases
        <2>3. ~ ReleasedBefore(config, x.entities.task, e.entities.task)
            BY <2>1 DEF FirstInBatch
        <2>4. /\ config.task[x.entities.task].priority \in Nat
              /\ config.task[e.entities.task].priority \in Nat
              /\ x.entities.task \in Nat /\ e.entities.task \in Nat
            BY <1>1, <1>2, <2>2, ConfigType
        <2>. QED  BY <2>2, <2>3, <2>4 DEF ReleasedBefore
    <1>9. PhasePrecedence(e.phase) <= PhasePrecedence("JobRelease")
        BY <1>2, Precedences
    <1>10. trace'[Len(trace')].tick <= tick'
        BY <1>1, <1>2, <1>5
    <1>11. \A i \in DOMAIN trace' : ReleaseTyped(trace[i])'
        BY <1>5 DEF ReleaseTyped
    <1>12. \A x \in queue'.events \cup batch' : ReleaseTyped(x)' /\ CauseRecorded(x)'
        BY <1>6 DEF ReleaseTyped
    <1>. QED  BY <1>5, <1>7, <1>8, <1>9, <1>10, <1>11, <1>12 DEF FrontierSound

\* When the clock moves on, nothing in the trace is of the new tick.
LEMMA FrontierAdvanced ==
    ASSUME KernelInv, FrontierSound, TraceCanonical, NEW e \in queue.events, BeginTick(e)
    PROVE  FrontierSound' /\ TraceCanonical'
    <1>1. TypeOK /\ tick \in Nat /\ e.tick \in Nat /\ stage = "between"
        BY PendingFields DEF KernelInv, StateInv, TypeOK, BeginTick
    <1>2. UNCHANGED <<config, queue, trace, batch>> /\ e.tick >= tick /\ tick' = e.tick
        BY <1>1, PendingSound DEF BeginTick
    <1>3. ASSUME trace # <<>>
          PROVE  trace[Len(trace)].tick <= tick' /\ trace[Len(trace)].tick # tick'
        <2>1. e.tick > tick /\ trace[Len(trace)].tick <= tick
            BY <1>1, <1>3 DEF KernelInv, NothingInThePast, FrontierSound
        <2>2. trace[Len(trace)].tick \in Nat
            <3>1. trace \in Seq(Event) /\ trace[Len(trace)] \in Event
                BY <1>1, <1>3 DEF TypeOK
            <3>. QED  BY <3>1 DEF Event
        <2>. QED  BY <1>1, <1>2, <2>1, <2>2
    <1>4. ~ LastIsNow'
        BY <1>2, <1>3 DEF LastIsNow
    <1>5. TraceCanonical'
        BY <1>2 DEF TraceCanonical
    <1>6. \A x \in queue'.events \cup batch' : ReleaseTyped(x)' /\ CauseRecorded(x)'
        BY <1>2 DEF FrontierSound, ReleaseTyped, CauseRecorded
    <1>7. \A i \in DOMAIN trace' : ReleaseTyped(trace[i])'
        BY <1>2 DEF FrontierSound, ReleaseTyped
    <1>. QED  BY <1>2, <1>3, <1>4, <1>5, <1>6, <1>7 DEF FrontierSound

\* What the kernel schedules on its own has no cause, and is a release or none.
Spontaneous(x) == ReleaseTyped(x) /\ x.cause = Absent

\* A scheduled event without a cause is spontaneous.
LEMMA ScheduledSpontaneous ==
    ASSUME NEW q, NEW n, NEW phase, NEW type, NEW entities,
           type = "JobRelease" <=> phase = "JobRelease"
    PROVE  \A x \in Scheduled(q, n, phase, type, entities, Absent).events :
               x \in q.events \/ Spontaneous(x)
    BY ScheduledOf DEF Spontaneous, ReleaseTyped

\* The successor of a release is spontaneous.
LEMMA SuccessorSpontaneous ==
    ASSUME NEW t
    PROVE  \A x \in QueueAfterRelease(t).events : x \in queue.events \/ Spontaneous(x)
    BY ScheduledSpontaneous DEF QueueAfterRelease

\* So is what a start queues.
LEMMA StartSpontaneous ==
    ASSUME NEW q, NEW r, NEW j
    PROVE  \A x \in QueueAfterStart(q, r, j).events : x \in q.events \/ Spontaneous(x)
    <1>. DEFINE type == IF Started(jobs[j]) THEN "JobResume" ELSE "JobStart"
                entities == JobEntities(j[1], j[2], r)
                started == Scheduled(q, tick, "Scheduling", type, entities, Absent)
                completion == tick + jobs[j].remaining
                ended == Scheduled(started, completion, "ExecutionCompletion", "JobFinish", entities, Absent)
    <1>1. QueueAfterStart(q, r, j) = started \/ QueueAfterStart(q, r, j) = ended
        BY DEF QueueAfterStart
    <1>2. type # "JobRelease"
        OBVIOUS
    <1>. HIDE DEF type, entities, completion
    <1>3. \A x \in started.events : x \in q.events \/ Spontaneous(x)
        BY <1>2, ScheduledSpontaneous
    <1>. HIDE DEF started
    <1>4. \A x \in ended.events : x \in started.events \/ Spontaneous(x)
        BY ScheduledSpontaneous
    <1>. HIDE DEF ended
    <1>. QED  BY <1>1, <1>3, <1>4

\* Taking events without recording one, and moving on.
LEMMA FrontierTaken ==
    ASSUME KernelInv, FrontierSound, TraceCanonical, UNCHANGED <<config, tick, trace>>,
           queue'.events \subseteq queue.events, batch' \subseteq batch,
           stage' \in BeforeActing => stage \in BeforeActing
    PROVE  FrontierSound' /\ TraceCanonical'
    <1>1. \A x \in queue'.events \cup batch' : x \in queue.events \cup batch
        OBVIOUS
    <1>. QED  BY <1>1, FrontierKept

\* The first releases are queued before anything is recorded.
LEMMA QueueFirstReleaseFrontier ==
    ASSUME KernelInv, FrontierSound, TraceCanonical, NEW t \in TaskIds, QueueFirstRelease(t)
    PROVE  FrontierSound' /\ TraceCanonical'
    <1>1. trace = <<>> /\ UNCHANGED <<config, tick, trace, batch, stage>>
        BY NothingReleasedYet DEF QueueFirstRelease
    <1>2. \A x \in queue'.events : x \in queue.events \/ Spontaneous(x)
        BY ScheduledSpontaneous DEF QueueFirstRelease, ScheduleCurrentRelease
    <1>3. \A x \in queue'.events \cup batch' :
              x \in queue.events \cup batch \/ (ReleaseTyped(x) /\ CauseRecorded(x))
        BY <1>1, <1>2 DEF Spontaneous, CauseRecorded
    <1>. QED  BY <1>1, <1>3, FrontierKept

\* An accepted completion is appended.
LEMMA AcceptCompletionFrontier ==
    ASSUME KernelInv, FrontierSound, TraceCanonical, NEW e \in queue.events, AcceptCompletion(e)
    PROVE  FrontierSound' /\ TraceCanonical'
    <1>1. /\ TypeOK /\ stage = "settle" /\ IsDue(e) /\ e.phase = "ExecutionCompletion"
          /\ Settling(e, "ExecutionCompletion") /\ CompletionIsCurrent(e)
        BY DEF KernelInv, StateInv, AcceptCompletion, Settling
    <1>2. ChargeCompletes(e.entities.resource, <<e.entities.task, e.entities.job>>)
        BY <1>1, CurrentCompletes DEF JobOf
    <1>3. /\ queue' = Popped(queue, e) /\ trace' = Append(trace, e)
          /\ UNCHANGED <<config, tick, batch>>
        BY <1>2 DEF AcceptCompletion
    <1>4. queue'.events \subseteq queue.events
        BY <1>1, <1>3, TakenEvent
    <1>. QED  BY <1>1, <1>3, <1>4, Precedences, FrontierAppended

\* Publishing queues a send in the next tick, caused by the completion being published.
LEMMA PublishRouteFrontier ==
    ASSUME KernelInv, FrontierSound, TraceCanonical, NEW d \in TaskIds, PublishRoute(d)
    PROVE  FrontierSound' /\ TraceCanonical'
    <1>. DEFINE c == trace[Len(trace)]
                delay == RouteDelay(config, c.entities.task, d)
    <1>1. /\ TypeOK /\ tick \in Nat /\ stage = "publish" /\ UNCHANGED <<config, tick, trace, batch>>
        BY DEF KernelInv, StateInv, TypeOK, PublishRoute
    <1>2. queue' = queue \/ PublishTo(c, d, delay)
        BY DEF PublishRoute
    <1>3. trace \in Seq(Event) /\ trace # <<>> /\ c.tick = tick /\ Len(trace) \in DOMAIN trace
        <2>1. trace \in Seq(Event) /\ trace # <<>> /\ c.tick = tick
            BY <1>1 DEF KernelInv, StateInv, TypeOK, PublicationNamed, PositionSound
        <2>. QED  BY <2>1
    <1>4. \A x \in queue'.events :
              x \in queue.events \/ (ReleaseTyped(x) /\ x.cause = c.sequence /\ x.tick = tick + 1)
        <2>1. CASE queue' = queue
            BY <2>1
        <2>2. CASE PublishTo(c, d, delay)
            <3>. DEFINE entities == MessageEntities(c.entities.task, c.entities.job, Len(messages) + 1)
            <3>1. PICK e : e = ScheduledEvent(queue, SendTick(c), "CausedAction", "MessageSend",
                                              entities, c.sequence)
                OBVIOUS
            <3>2. queue' = queue \/ queue' = Scheduled(queue, SendTick(c), "CausedAction", "MessageSend",
                                                     entities, c.sequence)
                BY <2>2 DEF PublishTo
            <3>. HIDE DEF entities, c
            <3>3. \A x \in queue'.events : x \in queue.events \/ x = e
                BY <3>1, <3>2, ScheduledOf
            <3>4. /\ e.phase = "CausedAction" /\ e.type = "MessageSend" /\ e.cause = c.sequence
                  /\ e.tick = SendTick(c)
                BY <3>1 DEF ScheduledEvent
            <3>5. SendTick(c) = tick + 1
                BY <1>1, <1>3 DEF SendTick, SendOffset, c
            <3>. QED  BY <3>3, <3>4, <3>5 DEF ReleaseTyped
        <2>. QED  BY <1>2, <2>1, <2>2
    <1>5. \A x : x.cause = c.sequence => CauseRecorded(x)
        BY <1>3 DEF CauseRecorded
    <1>6. \A x \in queue'.events \cup batch' :
              x \in queue.events \cup batch \/ (ReleaseTyped(x) /\ CauseRecorded(x))
        BY <1>1, <1>4, <1>5
    <1>7. \A x \in queue'.events : x.tick = tick => x \in queue.events
        BY <1>1, <1>4
    <1>8. stage \in BeforeActing
        BY <1>1 DEF BeforeActing
    <1>. QED  BY <1>1, <1>6, <1>7, <1>8, FrontierKept

\* A delivery is appended, or the run stops.
LEMMA DeliverMessageFrontier ==
    ASSUME KernelInv, FrontierSound, TraceCanonical, NEW e \in queue.events, DeliverMessage(e)
    PROVE  FrontierSound' /\ TraceCanonical'
    <1>1. /\ TypeOK /\ stage = "settle" /\ IsDue(e) /\ e.phase = "MessageDelivery"
          /\ queue' = Popped(queue, e) /\ UNCHANGED <<config, tick, batch>>
        BY DEF KernelInv, StateInv, DeliverMessage, Settling
    <1>2. queue'.events \subseteq queue.events
        BY <1>1, TakenEvent
    <1>3. trace' = Append(trace, e) \/ (trace' = trace /\ stage' = "failed")
        BY DEF DeliverMessage, Throw
    <1>4. CASE trace' = Append(trace, e)
        BY <1>1, <1>2, <1>4, Precedences, FrontierAppended
    <1>5. CASE trace' = trace /\ stage' = "failed"
        BY <1>1, <1>2, <1>5, FrontierTaken DEF BeforeActing
    <1>. QED  BY <1>3, <1>4, <1>5

\* A miss is appended; the check of a completed job leaves no observation.
LEMMA CheckDeadlineFrontier ==
    ASSUME KernelInv, FrontierSound, TraceCanonical, NEW e \in queue.events, CheckDeadline(e)
    PROVE  FrontierSound' /\ TraceCanonical'
    <1>1. /\ TypeOK /\ stage = "settle" /\ IsDue(e) /\ e.phase = "DeadlineCheck"
          /\ queue' = Popped(queue, e) /\ UNCHANGED <<config, tick, batch>>
        BY DEF KernelInv, StateInv, CheckDeadline, Settling
    <1>2. queue'.events \subseteq queue.events
        BY <1>1, TakenEvent
    <1>3. trace' = Append(trace, e) \/ trace' = trace
        BY DEF CheckDeadline
    <1>4. CASE trace' = Append(trace, e)
        BY <1>1, <1>2, <1>4, Precedences, FrontierAppended
    <1>5. CASE trace' = trace
        BY <1>1, <1>2, <1>5, FrontierTaken DEF BeforeActing
    <1>. QED  BY <1>3, <1>4, <1>5

\* The releases of the tick move from the queue into the batch.
LEMMA CollectReleasesFrontier ==
    ASSUME KernelInv, FrontierSound, TraceCanonical, CollectReleases
    PROVE  FrontierSound' /\ TraceCanonical'
    <1>1. /\ TypeOK /\ stage = "settle" /\ UNCHANGED <<config, tick, trace>>
          /\ batch' = {x \in queue.events : x.tick = tick /\ x.phase = "JobRelease"}
          /\ queue' = [queue EXCEPT !.events = queue.events \ batch']
        BY DEF KernelInv, StateInv, CollectReleases
    <1>2. queue'.events \subseteq queue.events
        BY <1>1 DEF TypeOK, EventQueueState
    <1>3. \A x \in batch' : x \in queue.events /\ x.tick = tick /\ x.phase = "JobRelease"
        BY <1>1
    <1>4. \A x \in queue'.events \cup batch' : x \in queue.events \cup batch
        BY <1>2, <1>3
    <1>5. stage \in BeforeActing
        BY <1>1 DEF BeforeActing
    <1>. QED  BY <1>1, <1>2, <1>3, <1>4, <1>5, FrontierKept

\* A release is appended; a release that finds an incomplete job stops the run.
LEMMA ReleaseJobFrontier ==
    ASSUME KernelInv, FrontierSound, TraceCanonical, NEW e \in batch, ReleaseJob(e)
    PROVE  FrontierSound' /\ TraceCanonical'
    <1>. DEFINE t == e.entities.task
                j == JobOf(e)
                job == NewJob(t, e)
                q == QueueAfterRelease(t)
    <1>1. /\ TypeOK /\ tick \in Nat /\ stage = "release" /\ ~ DeadlineOverflows(t) /\ FirstInBatch(e)
          /\ batch' = batch \ {e} /\ UNCHANGED <<config, tick>>
        BY DEF KernelInv, StateInv, TypeOK, ReleaseJob
    <1>2. \A x \in q.events : x \in queue.events \/ Spontaneous(x)
        BY SuccessorSpontaneous
    <1>3. \A x \in q.events : x \in queue.events \/ x.tick > tick
        <2>1. PICK after : after = ReleaseAfter(t)
            OBVIOUS
        <2>2. \/ q = queue
              \/ /\ after.tick > tick
                 /\ \E f : q.events = queue.events \cup {f} /\ f.tick = after.tick
            BY <1>1, <2>1, SuccessorQueued
        <2>. HIDE DEF q
        <2>. QED  BY <2>2
    <1>4. CASE HasActiveJob(t) \/ j \in Released
        <2>1. queue' = q /\ trace' = trace /\ stage' = "failed"
            BY <1>4 DEF ReleaseJob, Throw, JobOf
        <2>. HIDE DEF q
        <2>2. \A x \in queue'.events \cup batch' :
                  x \in queue.events \cup batch \/ (ReleaseTyped(x) /\ CauseRecorded(x))
            BY <1>1, <1>2, <2>1 DEF Spontaneous, CauseRecorded
        <2>3. \A x \in queue'.events : x.tick = tick => x \in queue.events
            BY <1>1, <1>3, <2>1
        <2>. QED  BY <1>1, <2>1, <2>2, <2>3, FrontierKept DEF BeforeActing
    <1>5. CASE ~ (HasActiveJob(t) \/ j \in Released)
        <2>. DEFINE entities == JobEntities(t, e.entities.job, e.entities.resource)
                    checked == Scheduled(q, job.deadline, "DeadlineCheck", "DeadlineMiss", entities, Absent)
        <2>1. queue' = (IF job.deadline <= config.stop THEN checked ELSE q) /\ trace' = Append(trace, e)
            BY <1>5 DEF ReleaseJob, JobOf
        <2>2. \A x \in queue'.events : x \in queue.events \/ x.tick > tick
            BY <1>1, <2>1, QueueAfterJobRelease
        <2>3. queue' = checked \/ queue' = q
            BY <2>1
        <2>. HIDE DEF q, entities, job
        <2>4. \A x \in checked.events : x \in q.events \/ Spontaneous(x)
            BY ScheduledSpontaneous
        <2>. HIDE DEF checked
        <2>5. \A x \in queue'.events : x \in queue.events \/ Spontaneous(x)
            BY <1>2, <2>3, <2>4
        <2>. QED  BY <1>1, <2>1, <2>2, <2>5, FrontierReleased DEF Spontaneous
    <1>. QED  BY <1>4, <1>5

\* What a start queues now is an observation of the decision.
LEMMA StartFrontier ==
    ASSUME KernelInv, FrontierSound, TraceCanonical, stage = "schedule", NEW r \in ResourceIds,
           NEW j \in ready[r], UNCHANGED <<config, tick, trace, batch>>, NEW q,
           \A phase : phase # "Scheduling" => Of(q, phase) = Of(queue, phase),
           \A x \in q.events :
               x \in queue.events \/ (x.phase = "Scheduling" /\ x.tick = tick /\ Spontaneous(x)),
           queue' = QueueAfterStart(q, r, j)
    PROVE  FrontierSound' /\ TraceCanonical'
    <1>1. /\ tick \in Nat /\ jobs[j].remaining \in Nat /\ jobs[j].remaining > 0
          /\ j \in Released /\ TypeOK
        BY StartedAndHeld DEF KernelInv, StateInv
    <1>2. j \in JobIdentity
        BY <1>1 DEF TypeOK
    <1>3. \A x \in q.events : x \in queue.events \/ (x.phase = "Scheduling" /\ x.tick = tick)
        OBVIOUS
    <1>4. \A x \in queue'.events :
              \/ x \in queue.events
              \/ x.phase = "Scheduling" /\ x.tick = tick
              \/ x.phase = "ExecutionCompletion" /\ x.tick = tick + jobs[j].remaining
        BY <1>2, <1>3, StartQueuedAfter
    <1>5. \A x \in queue'.events : x \in queue.events \/ Spontaneous(x)
        BY StartSpontaneous
    <1>6. \A x \in queue'.events \cup batch' :
              x \in queue.events \cup batch \/ (ReleaseTyped(x) /\ CauseRecorded(x))
        BY <1>5 DEF Spontaneous, CauseRecorded
    <1>7. tick + jobs[j].remaining # tick
        BY <1>1
    <1>8. \A x \in queue'.events :
              x.tick = tick => x \in queue.events \/ (stage = "schedule" /\ x.phase = "Scheduling")
        BY <1>4, <1>7
    <1>9. stage \in BeforeActing
        BY DEF BeforeActing
    <1>. QED  BY <1>6, <1>8, <1>9, FrontierKept

\* A dispatch queues the observation of its start.
LEMMA DispatchFrontier ==
    ASSUME KernelInv, FrontierSound, TraceCanonical, NEW r \in ResourceIds, NEW j \in ready[r],
           Dispatch(r, j)
    PROVE  FrontierSound' /\ TraceCanonical'
    <1>1. stage = "schedule" /\ UNCHANGED <<config, tick, trace, batch>>
        BY DEF Dispatch, Visiting
    <1>2. queue' = queue \/ queue' = QueueAfterStart(queue, r, j)
        BY DEF Dispatch, StartSelected
    <1>3. CASE queue' = queue
        BY <1>1, <1>3, FrontierTaken DEF BeforeActing
    <1>4. CASE queue' = QueueAfterStart(queue, r, j)
        BY <1>1, <1>4, StartFrontier
    <1>. QED  BY <1>2, <1>3, <1>4

\* A preemption queues its own observation before that of the start.
LEMMA PreemptFrontier ==
    ASSUME KernelInv, FrontierSound, TraceCanonical, NEW r \in ResourceIds, NEW j \in ready[r],
           Preempt(r, j)
    PROVE  FrontierSound' /\ TraceCanonical'
    <1>. DEFINE p == resource[r].running
                entities == JobEntities(p[1], p[2], r)
                preempted == Scheduled(queue, tick, "Scheduling", "JobPreempt", entities, Absent)
    <1>1. stage = "schedule" /\ UNCHANGED <<config, tick, trace, batch>>
        BY DEF Preempt, Visiting
    <1>2. ReplaceRunning(r, p, j)
        BY PreemptionAccepted DEF Preempt
    <1>3. queue' = QueueAfterStart(preempted, r, j)
        BY <1>2 DEF ReplaceRunning
    <1>4. PICK e : e = ScheduledEvent(queue, tick, "Scheduling", "JobPreempt", entities, Absent)
        OBVIOUS
    <1>. HIDE DEF entities
    <1>5. /\ preempted.events = queue.events \cup {e}
          /\ \A phase : phase # "Scheduling" => Of(preempted, phase) = Of(queue, phase)
          /\ e.tick = tick /\ e.phase = "Scheduling"
        BY <1>4, ScheduledOf
    <1>6. \A x \in preempted.events : x \in queue.events \/ Spontaneous(x)
        BY ScheduledSpontaneous
    <1>. HIDE DEF preempted
    <1>7. \A x \in preempted.events :
              x \in queue.events \/ (x.phase = "Scheduling" /\ x.tick = tick /\ Spontaneous(x))
        BY <1>5, <1>6
    <1>. QED  BY <1>1, <1>3, <1>5, <1>7, StartFrontier

\* A decision is observed after everything that led to it.
LEMMA RecordDecisionFrontier ==
    ASSUME KernelInv, FrontierSound, TraceCanonical, NEW e \in queue.events, RecordDecision(e)
    PROVE  FrontierSound' /\ TraceCanonical'
    <1>1. /\ TypeOK /\ stage = "act" /\ IsDue(e) /\ e.phase = "Scheduling" /\ stage' = stage
          /\ queue' = Popped(queue, e) /\ trace' = Append(trace, e) /\ UNCHANGED <<config, tick, batch>>
        BY DEF KernelInv, StateInv, RecordDecision
    <1>2. queue'.events \subseteq queue.events
        BY <1>1, TakenEvent
    <1>. QED  BY <1>1, <1>2, FrontierAppended DEF BeforeActing

\* A send is the cause of the delivery it queues.
LEMMA SendMessageFrontier ==
    ASSUME KernelInv, FrontierSound, TraceCanonical, NEW e \in queue.events, SendMessage(e)
    PROVE  FrontierSound' /\ TraceCanonical'
    <1>1. /\ stage = "act" /\ IsDue(e) /\ e.phase = "CausedAction" /\ stage' = stage
          /\ trace' = Append(trace, e) /\ UNCHANGED <<config, tick, batch>>
          /\ messages[e.entities.message].delivery > tick
        BY MessageIsSent
    <1>2. PICK f :
              /\ f.tick = messages[e.entities.message].delivery /\ f.phase = "MessageDelivery"
              /\ f.type = "MessageDelivery" /\ f.cause = e.sequence
              /\ queue'.events \subseteq queue.events \cup {f}
        BY MessageIsSent
    <1>3. trace \in Seq(Event)
        BY DEF KernelInv, StateInv, TypeOK
    <1>4. Len(trace) + 1 \in DOMAIN trace' /\ trace'[Len(trace) + 1] = e
        BY <1>1, <1>3
    <1>5. CauseRecorded(f)'
        BY <1>2, <1>4 DEF CauseRecorded
    <1>6. f.tick > tick /\ ReleaseTyped(f)
        BY <1>1, <1>2 DEF ReleaseTyped
    <1>. QED  BY <1>1, <1>2, <1>5, <1>6, FrontierAppended DEF BeforeActing

\* Every step keeps the trace in order, and what may still follow behind it.
LEMMA NextFrontier ==
    KernelInv /\ FrontierSound /\ TraceCanonical /\ [Next]_vars => FrontierSound' /\ TraceCanonical'
    <1>. SUFFICES ASSUME KernelInv, FrontierSound, TraceCanonical, [Next]_vars
                  PROVE  FrontierSound' /\ TraceCanonical'
        OBVIOUS
    <1>1. CASE \E t \in TaskIds : QueueFirstRelease(t)
        BY <1>1, QueueFirstReleaseFrontier
    <1>2. CASE Initialized \/ FinishEmpty \/ EndTick
        <2>1. /\ UNCHANGED <<config, tick, trace, queue, batch>> /\ stage' \notin BeforeActing
            BY <1>2 DEF Initialized, FinishEmpty, EndTick, BeforeActing
        <2>. QED  BY <2>1, FrontierTaken
    <1>3. CASE \E e \in queue.events : BeginTick(e)
        BY <1>3, FrontierAdvanced
    <1>4. CASE Settle
        <2>1. ASSUME NEW e \in queue.events, IgnoreStaleCompletion(e) PROVE FrontierSound' /\ TraceCanonical'
            <3>1. queue' = Popped(queue, e) /\ UNCHANGED <<config, tick, trace, stage, batch>>
                BY <2>1 DEF IgnoreStaleCompletion
            <3>2. queue'.events \subseteq queue.events
                BY <3>1, TakenEvent DEF KernelInv, StateInv
            <3>. QED  BY <3>1, <3>2, FrontierTaken
        <2>. QED  BY <1>4, <2>1, AcceptCompletionFrontier, DeliverMessageFrontier, CheckDeadlineFrontier
                  DEF Settle
    <1>5. CASE \E d \in TaskIds : PublishRoute(d)
        BY <1>5, PublishRouteFrontier
    <1>6. CASE ProcessReleases
        <2>1. ASSUME NEW e \in batch, ReleaseRefused(e) PROVE FrontierSound' /\ TraceCanonical'
            BY <2>1, FrontierTaken DEF ReleaseRefused, Throw, BeforeActing
        <2>. QED  BY <1>6, <2>1, CollectReleasesFrontier, ReleaseJobFrontier DEF ProcessReleases
    <1>7. CASE Schedule
        <2>1. ASSUME NEW r \in ResourceIds, LeaveResource(r) PROVE FrontierSound' /\ TraceCanonical'
            BY <2>1, FrontierTaken DEF LeaveResource, Visiting, BeforeActing
        <2>. QED  BY <1>7, <2>1, DispatchFrontier, PreemptFrontier DEF Schedule
    <1>8. CASE Act
        BY <1>2, <1>8, RecordDecisionFrontier, SendMessageFrontier DEF Act
    <1>9. CASE StepAfterEnd \/ UNCHANGED vars
        <2>1. UNCHANGED <<config, tick, trace, queue, batch, stage>>
            BY <1>9 DEF StepAfterEnd, vars
        <2>. QED  BY <2>1, FrontierTaken
    <1>. QED  BY <1>1, <1>2, <1>3, <1>4, <1>5, <1>6, <1>7, <1>8, <1>9 DEF Next

-----------------------------------------------------------------------------
(* The schedule of the messages. *)

\* What is recorded of a message when it is published.
SameRecords ==
    /\ DOMAIN messages' = DOMAIN messages
    /\ \A i \in DOMAIN messages :
           /\ messages'[i].source = messages[i].source
           /\ messages'[i].destination = messages[i].destination
           /\ messages'[i].publish = messages[i].publish /\ messages'[i].send = messages[i].send
           /\ messages'[i].delivery = messages[i].delivery

\* A completed job stays what it is.
CompletedStay == \A k \in Released : ~ Active(k) => k \in Released' /\ jobs'[k] = jobs[k]

\* No job completes.
NoneCompletes ==
    \A k \in Released' : jobs'[k].lifecycle = "Completed" => k \in Released /\ ~ Active(k)

\* Jobs that do not change.
LEMMA JobsStay == UNCHANGED jobs => CompletedStay /\ NoneCompletes
    BY DEF CompletedStay, NoneCompletes, Released, Active

\* Records stay right as long as completed jobs do.
LEMMA RecordsKept ==
    ASSUME RecordsSound, UNCHANGED config, SameRecords, CompletedStay
    PROVE  RecordsSound'
    <1>1. ASSUME NEW i \in DOMAIN messages
          PROVE  /\ messages'[i].source \in Released' /\ ~ (jobs'[messages'[i].source].lifecycle # "Completed")
                 /\ messages'[i].destination \in Destinations(config, messages'[i].source[1])
                 /\ messages'[i].publish = jobs'[messages'[i].source].finish
                 /\ messages'[i].send = messages'[i].publish + 1
                 /\ messages'[i].delivery =
                        messages'[i].send + RouteDelay(config, messages'[i].source[1], messages'[i].destination)
        <2>. DEFINE j == messages[i].source
        <2>1. j \in Released /\ ~ Active(j)
            BY DEF RecordsSound
        <2>2. j \in Released' /\ jobs'[j] = jobs[j]
            BY <2>1 DEF CompletedStay
        <2>3. jobs'[j].lifecycle = "Completed"
            BY <2>1, <2>2 DEF Active
        <2>. QED  BY <2>2, <2>3 DEF RecordsSound, SameRecords
    <1>2. \A i, k \in DOMAIN messages :
              (messages'[i].source = messages'[k].source
                 /\ messages'[i].destination = messages'[k].destination) => i = k
        BY DEF RecordsSound, SameRecords
    <1>3. DOMAIN messages' = DOMAIN messages /\ config' = config
        BY DEF SameRecords
    <1>. QED  BY <1>1, <1>2, <1>3 DEF RecordsSound, Active

\* Outside a publication, every completed job has sent, and stays the same.
LEMMA PublicationKept ==
    ASSUME PublicationSound, UNCHANGED config, SameRecords, NoneCompletes,
           stage # "publish", stage' # "publish", stage = "failed" => stage' = "failed"
    PROVE  PublicationSound'
    <1>1. \A j, d : Sent(j, d) => Sent(j, d)'
        BY DEF Sent, SameRecords
    <1>2. ASSUME stage' # "failed", NEW j \in Released', NEW d \in Destinations(config, j[1]),
                 jobs'[j].lifecycle = "Completed"
          PROVE  Sent(j, d)'
        <2>1. j \in Released /\ ~ Active(j)
            BY <1>2 DEF NoneCompletes
        <2>2. Sent(j, d)
            BY <1>2, <2>1 DEF PublicationSound
        <2>. QED  BY <1>1, <2>2
    <1>. QED  BY <1>2 DEF PublicationSound, Active

\* Messages stay on schedule while the clock and the events that move them stay.
LEMMA DeliveryKept ==
    ASSUME DeliverySound, UNCHANGED <<config, tick, messages>>,
           Of(queue, "CausedAction") \subseteq Of(queue, "CausedAction")',
           Of(queue, "MessageDelivery") \subseteq Of(queue, "MessageDelivery")'
    PROVE  DeliverySound'
    BY DEF DeliverySound

MessagesInv == RecordsSound /\ PublicationSound /\ DeliverySound

\* A step that has nothing to do with the network.
LEMMA MessagesKept ==
    ASSUME MessagesInv, UNCHANGED <<config, tick, messages>>, CompletedStay, NoneCompletes,
           Of(queue, "CausedAction") \subseteq Of(queue, "CausedAction")',
           Of(queue, "MessageDelivery") \subseteq Of(queue, "MessageDelivery")',
           stage # "publish", stage' # "publish", stage = "failed" => stage' = "failed"
    PROVE  MessagesInv'
    <1>1. SameRecords
        BY DEF SameRecords
    <1>. QED  BY <1>1, RecordsKept, PublicationKept, DeliveryKept DEF MessagesInv

\* The clock never passes a tick at which a message has to move.
LEMMA BeginTickMessages ==
    ASSUME KernelInv, MessagesInv, NEW e \in queue.events, BeginTick(e)
    PROVE  MessagesInv'
    <1>1. /\ TypeOK /\ tick \in Nat /\ e.tick \in Nat /\ config.stop \in Nat /\ stage = "between"
          /\ IsNextEvent(queue, e) /\ e.tick <= config.stop
        BY PendingFields, ConfigType DEF KernelInv, StateInv, TypeOK, BeginTick, InHorizon
    <1>2. /\ UNCHANGED <<config, queue, messages, jobs>> /\ stage' = "settle" /\ tick' = e.tick
          /\ e.tick >= tick
        BY <1>1, PendingSound DEF BeginTick
    <1>3. ASSUME NEW x \in queue.events PROVE e.tick <= x.tick
        <2>1. ~ (e.tick > x.tick) /\ x.tick \in Nat
            BY <1>1, PendingFields DEF IsNextEvent, LaterEvent
        <2>. QED  BY <1>1, <2>1
    <1>4. ASSUME NEW i \in DOMAIN messages
          PROVE  LET m == messages[i]
                 IN  /\ m.lifecycle = "PendingSend" => tick' <= m.send
                     /\ m.lifecycle = "InFlight" => m.send <= tick' /\ tick' <= m.delivery
                     /\ m.lifecycle = "Delivered" => m.delivery <= tick'
        <2>. DEFINE m == messages[i]
        <2>1. m.send \in Nat /\ m.delivery \in Nat
            <3>1. m \in Message
                BY <1>1 DEF TypeOK
            <3>. QED  BY <3>1 DEF Message
        <2>2. \A x \in Of(queue, "CausedAction") : x.entities.message = i => e.tick <= m.send
            BY <1>3 DEF Of, KernelInv, NetworkSound, SendMatches
        <2>3. \A x \in Of(queue, "MessageDelivery") : x.entities.message = i => e.tick <= m.delivery
            BY <1>3 DEF Of, KernelInv, NetworkSound, DeliveryMatches
        <2>4. ASSUME m.lifecycle = "PendingSend" PROVE e.tick <= m.send
            <3>1. CASE m.send <= config.stop
                BY <2>2, <2>4, <3>1 DEF MessagesInv, DeliverySound
            <3>2. CASE ~ (m.send <= config.stop)
                BY <1>1, <2>1, <3>2
            <3>. QED  BY <3>1, <3>2
        <2>5. ASSUME m.lifecycle = "InFlight" PROVE m.send <= e.tick /\ e.tick <= m.delivery
            <3>1. m.send <= tick
                BY <2>5 DEF MessagesInv, DeliverySound
            <3>2. e.tick <= m.delivery
                <4>1. CASE m.delivery <= config.stop
                    BY <2>3, <2>5, <4>1 DEF MessagesInv, DeliverySound
                <4>2. CASE ~ (m.delivery <= config.stop)
                    BY <1>1, <2>1, <4>2
                <4>. QED  BY <4>1, <4>2
            <3>. QED  BY <1>1, <1>2, <2>1, <3>1, <3>2
        <2>6. ASSUME m.lifecycle = "Delivered" PROVE m.delivery <= e.tick
            <3>1. m.delivery <= tick
                BY <2>6 DEF MessagesInv, DeliverySound
            <3>. QED  BY <1>1, <1>2, <2>1, <3>1
        <2>. QED  BY <1>2, <2>4, <2>5, <2>6
    <1>5. Of(queue, "CausedAction")' = Of(queue, "CausedAction") /\ Of(queue, "MessageDelivery")' = Of(queue, "MessageDelivery")
        BY <1>2 DEF Of
    <1>6. DeliverySound'
        BY <1>2, <1>4, <1>5 DEF MessagesInv, DeliverySound
    <1>7. SameRecords /\ CompletedStay /\ NoneCompletes
        BY <1>2, JobsStay DEF SameRecords
    <1>. QED  BY <1>1, <1>2, <1>6, <1>7, RecordsKept, PublicationKept DEF MessagesInv

\* An accepted completion, and only that, completes a job: all its routes are to be visited.
LEMMA AcceptCompletionMessages ==
    ASSUME KernelInv, MessagesInv, NEW e \in queue.events, AcceptCompletion(e)
    PROVE  MessagesInv'
    <1>. DEFINE j == JobOf(e)
                routes == Destinations(config, e.entities.task)
    <1>1. /\ TypeOK /\ tick \in Nat /\ stage = "settle" /\ e.phase = "ExecutionCompletion"
          /\ Settling(e, "ExecutionCompletion") /\ CompletionIsCurrent(e)
        BY DEF KernelInv, StateInv, TypeOK, AcceptCompletion, Settling
    <1>2. /\ j \in Released /\ jobs[j].lifecycle = "Running"
          /\ ChargeCompletes(e.entities.resource, j)
        BY <1>1, CurrentCompletes
    <1>3. /\ queue' = Popped(queue, e) /\ jobs' = [jobs EXCEPT ![j] = CompletedJob(jobs[j])]
          /\ trace' = Append(trace, e) /\ todo' = routes
          /\ stage' = IF routes = {} THEN "settle" ELSE "publish"
          /\ UNCHANGED <<config, tick, messages>>
        BY <1>2 DEF AcceptCompletion, JobOf
    <1>4. j[1] = e.entities.task
        BY DEF JobOf
    <1>5. trace'[Len(trace')] = e
        BY <1>1, <1>3 DEF TypeOK
    <1>6. Publisher' = j
        BY <1>5 DEF Publisher, JobOf
    <1>. HIDE DEF j
    <1>7. /\ Released' = Released /\ jobs'[j] = CompletedJob(jobs[j])
          /\ \A k \in Released : k # j => jobs'[k] = jobs[k]
        BY <1>1, <1>2, <1>3 DEF TypeOK, Released
    <1>8. jobs'[j].lifecycle = "Completed" /\ jobs'[j].finish = tick
        <2>1. jobs[j] \in JobState
            BY <1>1, <1>2 DEF TypeOK
        <2>. QED  BY <1>7, <2>1 DEF CompletedJob, JobState
    <1>9. CompletedStay /\ SameRecords
        BY <1>2, <1>3, <1>7 DEF CompletedStay, SameRecords, Active
    <1>10. RecordsSound'
        BY <1>3, <1>9, RecordsKept DEF MessagesInv
    <1>11. \A d : Sent(j, d)' <=> Sent(j, d)
        BY <1>3 DEF Sent
    <1>12. \A d : ~ Sent(j, d)
        BY <1>2 DEF Sent, MessagesInv, RecordsSound, Active
    <1>13. ASSUME NEW k \in Released', NEW d \in Destinations(config, k[1]),
                  jobs'[k].lifecycle = "Completed"
           PROVE  Sent(k, d)' \/ (stage' = "publish" /\ k = j /\ d \in todo')
        <2>1. CASE k = j
            BY <1>3, <1>4, <1>13, <2>1
        <2>2. CASE k # j
            <3>1. k \in Released /\ ~ Active(k)
                BY <1>7, <1>13, <2>2 DEF Active
            <3>2. Sent(k, d)
                BY <1>1, <3>1 DEF MessagesInv, PublicationSound
            <3>. QED  BY <1>3, <3>2 DEF Sent
        <2>. QED  BY <2>1, <2>2
    <1>14. PublicationSound'
        <2>1. j \in Released' /\ tick' = tick /\ config' = config
            BY <1>2, <1>3, <1>7
        <2>. QED  BY <1>6, <1>8, <1>11, <1>12, <1>13, <2>1 DEF PublicationSound, Active
    <1>15. \A phase : phase # "ExecutionCompletion" => Of(queue, phase)' = Of(queue, phase)
        BY <1>1, <1>3, TakenEvent
    <1>16. DeliverySound'
        BY <1>3, <1>15, DeliveryKept DEF MessagesInv
    <1>. QED  BY <1>10, <1>14, <1>16 DEF MessagesInv

\* The record of a message is new: its route has not been visited for this job.
LEMMA PublishRouteMessages ==
    ASSUME KernelInv, MessagesInv, NEW d \in TaskIds, PublishRoute(d)
    PROVE  MessagesInv'
    <1>. DEFINE c == trace[Len(trace)]
                delay == RouteDelay(config, c.entities.task, d)
                n == Len(messages) + 1
                m == NewMessage(c, d, delay)
    <1>1. /\ TypeOK /\ PublicationNamed /\ tick \in Nat /\ stage = "publish" /\ d \in todo
          /\ todo' = todo \ {d} /\ UNCHANGED <<config, tick, trace, jobs>>
        BY DEF KernelInv, StateInv, TypeOK, PublishRoute, Least
    <1>2. c \in Event /\ c.tick = tick /\ d \in Destinations(config, c.entities.task)
        <2>1. trace \in Seq(Event) /\ trace # <<>> /\ c.tick = tick
            BY <1>1 DEF PublicationNamed, TypeOK, KernelInv, PositionSound
        <2>2. c \in Event
            BY <2>1
        <2>. QED  BY <1>1, <2>1, <2>2 DEF PublicationNamed
    <1>3. delay \in Int
        BY <1>1, <1>2, RouteDelayType DEF TypeOK, ValidConfig
    <1>4. CompletedStay /\ Released' = Released
        BY <1>1, JobsStay DEF Released
    <1>5. Publisher = JobOf(c) /\ Publisher' = Publisher
        BY <1>1 DEF Publisher, JobOf
    <1>6. CASE DelayRefused(delay) \/ PublishOverflows(c, delay)
        <2>1. stage' = "failed" /\ UNCHANGED <<messages, queue>>
            BY <1>6 DEF PublishRoute, Throw
        <2>2. SameRecords
            BY <2>1 DEF SameRecords
        <2>3. Of(queue, "CausedAction")' = Of(queue, "CausedAction") /\ Of(queue, "MessageDelivery")' = Of(queue, "MessageDelivery")
            BY <2>1 DEF Of
        <2>. QED  BY <1>1, <1>4, <2>1, <2>2, <2>3, RecordsKept, DeliveryKept DEF MessagesInv, PublicationSound
    <1>7. CASE ~ (DelayRefused(delay) \/ PublishOverflows(c, delay))
        <2>1. PublishTo(c, d, delay) /\ stage' = IF todo = {d} THEN "settle" ELSE "publish"
            BY <1>7 DEF PublishRoute
        <2>2. /\ DOMAIN messages' = DOMAIN messages \cup {n}
              /\ messages'[n] = m /\ n \notin DOMAIN messages
              /\ \A k \in DOMAIN messages : messages'[k] = messages[k]
              /\ m.source = <<c.entities.task, c.entities.job>>
              /\ m.destination = d /\ m.publish = c.tick /\ m.lifecycle = "PendingSend"
              /\ m.send = tick + 1 /\ m.delivery = tick + 1 + delay
            <3>1. ~ DelayRefused(delay) /\ c.tick = tick /\ c \in Event
                BY <1>2, <1>7
            <3>. HIDE DEF c, delay
            <3>2. /\ DOMAIN messages' = DOMAIN messages \cup {n}
                  /\ messages'[n] = m /\ n \notin DOMAIN messages
                  /\ \A k \in DOMAIN messages : messages'[k] = messages[k]
                BY <1>3, <2>1, <3>1, MessageIsPublished
            <3>3. /\ m.source = <<c.entities.task, c.entities.job>>
                  /\ m.destination = d /\ m.publish = c.tick /\ m.lifecycle = "PendingSend"
                BY <1>3, <2>1, <3>1, MessageIsPublished
            <3>4. m.send = tick + 1 /\ m.delivery = tick + 1 + delay
                BY <1>3, <2>1, <3>1, MessageIsPublished
            <3>. QED  BY <3>2, <3>3, <3>4
        <2>3. PICK e :
                  /\ e.entities.message = n
                  /\ \/ /\ SendQueued(c)
                        /\ Of(queue, "CausedAction")' = Of(queue, "CausedAction") \cup {e}
                        /\ \A phase : phase # "CausedAction" => Of(queue, phase)' = Of(queue, phase)
                     \/ ~ SendQueued(c) /\ queue' = queue
            BY <1>2, <1>3, <1>7, <2>1, MessageIsPublished
        <2>4. m.source = Publisher /\ m.source[1] = c.entities.task
            BY <1>5, <2>2 DEF JobOf
        <2>5. SendQueued(c) <=> m.send <= config.stop
            BY <1>1, <1>2, <2>2 DEF SendQueued, SendTick, SendOffset
        <2>. HIDE DEF m, n, c
        <2>6. /\ Publisher \in Released /\ ~ Active(Publisher) /\ jobs[Publisher].finish = tick
              /\ \A x \in todo : ~ Sent(Publisher, x)
            BY <1>1 DEF MessagesInv, PublicationSound
        <2>7. RecordsSound'
            <3>1. \A i \in DOMAIN messages :
                      ~ (messages[i].source = m.source /\ messages[i].destination = m.destination)
                BY <1>1, <2>2, <2>4, <2>6 DEF Sent
            <3>2. /\ m.destination \in Destinations(config, m.source[1])
                  /\ m.publish = jobs[m.source].finish /\ m.send = m.publish + 1
                  /\ m.delivery = m.send + RouteDelay(config, m.source[1], m.destination)
                  /\ m.source \in Released /\ ~ Active(m.source)
                BY <1>1, <1>2, <2>2, <2>4, <2>6
            <3>3. ASSUME NEW i \in DOMAIN messages'
                  PROVE  /\ messages'[i].source \in Released /\ ~ Active(messages'[i].source)
                         /\ messages'[i].destination \in Destinations(config, messages'[i].source[1])
                         /\ messages'[i].publish = jobs[messages'[i].source].finish
                         /\ messages'[i].send = messages'[i].publish + 1
                         /\ messages'[i].delivery = messages'[i].send
                                + RouteDelay(config, messages'[i].source[1], messages'[i].destination)
                <4>1. CASE i = n
                    BY <2>2, <3>2, <4>1
                <4>2. CASE i \in DOMAIN messages
                    <5>1. messages'[i] = messages[i]
                        BY <2>2, <4>2
                    <5>. QED  BY <4>2, <5>1 DEF MessagesInv, RecordsSound
                <4>. QED  BY <2>2, <4>1, <4>2
            <3>4. \A i, k \in DOMAIN messages' :
                      (messages'[i].source = messages'[k].source
                         /\ messages'[i].destination = messages'[k].destination) => i = k
                BY <2>2, <3>1 DEF MessagesInv, RecordsSound
            <3>. QED  BY <1>1, <1>4, <3>3, <3>4 DEF RecordsSound, Active
        <2>8. PublicationSound'
            <3>1. \A k, x : Sent(k, x) => Sent(k, x)'
                BY <2>2 DEF Sent
            <3>2. Sent(Publisher, d)'
                BY <1>5, <2>2, <2>4 DEF Sent
            <3>3. \A x \in todo' : ~ Sent(Publisher, x)'
                BY <1>1, <1>5, <2>2, <2>6 DEF Sent
            <3>4. ASSUME NEW k \in Released, NEW x \in Destinations(config, k[1]), ~ Active(k)
                  PROVE  Sent(k, x)' \/ (stage' = "publish" /\ k = Publisher /\ x \in todo')
                <4>1. Sent(k, x) \/ (k = Publisher /\ x \in todo)
                    BY <1>1, <3>4 DEF MessagesInv, PublicationSound
                <4>2. k = Publisher => k = Publisher'
                    BY <1>5
                <4>3. k = Publisher => Sent(k, d)'
                    BY <3>2, <4>2
                <4>4. k = Publisher /\ x \in todo => x = d \/ (stage' = "publish" /\ x \in todo')
                    BY <1>1, <2>1
                <4>. QED  BY <3>1, <4>1, <4>3, <4>4
            <3>. QED  BY <1>1, <1>4, <1>5, <2>6, <3>3, <3>4 DEF PublicationSound, Active
        <2>9. /\ Of(queue, "CausedAction") \subseteq Of(queue, "CausedAction")'
              /\ Of(queue, "MessageDelivery") \subseteq Of(queue, "MessageDelivery")'
            <3>1. queue' = queue => \A phase : Of(queue, phase)' = Of(queue, phase)
                BY DEF Of
            <3>. QED  BY <2>3, <3>1
        <2>10. DeliverySound'
            <3>1. tick <= m.send /\ m.lifecycle = "PendingSend"
                BY <1>1, <2>2
            <3>2. m.send <= config.stop => \E x \in Of(queue, "CausedAction")' : x.entities.message = n
                BY <2>3, <2>5
            <3>. QED  BY <1>1, <2>2, <2>9, <3>1, <3>2 DEF MessagesInv, DeliverySound
        <2>. QED  BY <2>7, <2>8, <2>10 DEF MessagesInv
    <1>. QED  BY <1>6, <1>7

\* A message that moves keeps its record.
LEMMA MovedMessages ==
    ASSUME MessagesInv, UNCHANGED <<config, stage, jobs>>, stage # "publish", SameRecords, DeliverySound'
    PROVE  MessagesInv'
    BY JobsStay, RecordsKept, PublicationKept DEF MessagesInv

\* A delivery happens in the tick planned for it.
LEMMA DeliverMessageMessages ==
    ASSUME KernelInv, MessagesInv, NEW e \in queue.events, DeliverMessage(e)
    PROVE  MessagesInv'
    <1>. DEFINE i == e.entities.message
    <1>1. /\ TypeOK /\ tick \in Nat /\ stage = "settle" /\ e.tick = tick /\ e.phase = "MessageDelivery"
          /\ queue' = Popped(queue, e) /\ UNCHANGED <<config, tick, jobs>>
        BY DEF KernelInv, StateInv, TypeOK, DeliverMessage, Settling, IsDue
    <1>2. e \in Of(queue, "MessageDelivery") /\ DeliveryMatches(e)
        BY <1>1 DEF Of, KernelInv, NetworkSound
    <1>3. i \in DOMAIN messages /\ messages[i].delivery = tick
        BY <1>1, <1>2 DEF DeliveryMatches
    <1>4. messages' = [messages EXCEPT ![i].lifecycle = "Delivered"] /\ UNCHANGED stage
        BY <1>2 DEF DeliverMessage
    <1>. HIDE DEF i
    <1>5. PICK m : m = [messages[i] EXCEPT !.lifecycle = "Delivered"]
        OBVIOUS
    <1>6. messages[i] \in Message
        BY <1>1, <1>3 DEF TypeOK
    <1>7. /\ DOMAIN messages' = DOMAIN messages /\ messages'[i] = m
          /\ \A k \in DOMAIN messages : k # i => messages'[k] = messages[k]
        BY <1>1, <1>3, <1>4, <1>5 DEF TypeOK
    <1>8. /\ m.lifecycle = "Delivered" /\ m.source = messages[i].source
          /\ m.destination = messages[i].destination /\ m.publish = messages[i].publish
          /\ m.send = messages[i].send /\ m.delivery = messages[i].delivery
        BY <1>5, <1>6 DEF Message
    <1>9. SameRecords
        BY <1>7, <1>8 DEF SameRecords
    <1>10. /\ Of(queue, "CausedAction")' = Of(queue, "CausedAction")
           /\ Of(queue, "MessageDelivery")' = Of(queue, "MessageDelivery") \ {e}
        BY <1>1, TakenEvent
    <1>11. DeliverySound'
        <2>1. m.delivery <= tick
            BY <1>1, <1>3, <1>8
        <2>2. ASSUME NEW k \in DOMAIN messages, k # i
              PROVE  \A x \in Of(queue, "MessageDelivery") :
                         x.entities.message = k => x \in Of(queue, "MessageDelivery")'
            BY <1>10, <2>2 DEF i
        <2>. QED  BY <1>1, <1>7, <1>8, <1>10, <2>1, <2>2 DEF MessagesInv, DeliverySound
    <1>. QED  BY <1>1, <1>4, <1>9, <1>11, MovedMessages

\* A send happens in the tick planned for it, and its delivery is then pending.
LEMMA SendMessageMessages ==
    ASSUME KernelInv, MessagesInv, NEW e \in queue.events, SendMessage(e)
    PROVE  MessagesInv'
    <1>. DEFINE i == e.entities.message
                m == messages[i]
    <1>1. /\ TypeOK /\ tick \in Nat /\ stage = "act" /\ i \in DOMAIN messages
          /\ UNCHANGED <<config, stage, tick, jobs>>
        BY MessageIsSent DEF KernelInv, StateInv, TypeOK
    <1>2. /\ m \in Message /\ m.send = tick /\ m.delivery > tick
          /\ DOMAIN messages' = DOMAIN messages
          /\ \A k \in DOMAIN messages : k # i => messages'[k] = messages[k]
          /\ messages'[i].lifecycle = "InFlight" /\ messages'[i].delivery = m.delivery
          /\ messages'[i].send = m.send /\ messages'[i].destination = m.destination
          /\ messages'[i].source = m.source /\ messages'[i].publish = m.publish
        BY MessageIsSent
    <1>3. PICK f :
              /\ f.entities.message = i
              /\ Of(queue, "CausedAction")' = Of(queue, "CausedAction") \ {e}
              /\ \/ Of(queue, "MessageDelivery")' = Of(queue, "MessageDelivery") \cup {f}
                 \/ /\ ~ DeliveryQueued(m)
                    /\ Of(queue, "MessageDelivery")' = Of(queue, "MessageDelivery")
        BY MessageIsSent
    <1>4. SameRecords
        BY <1>2 DEF SameRecords
    <1>5. m.delivery \in Nat /\ m.send \in Nat
        BY <1>2 DEF Message
    <1>6. DeliverySound'
        <2>1. m.delivery <= config.stop => \E x \in Of(queue, "MessageDelivery")' : x.entities.message = i
            BY <1>3 DEF DeliveryQueued
        <2>2. ASSUME NEW k \in DOMAIN messages, k # i
              PROVE  /\ \A x \in Of(queue, "CausedAction") :
                            x.entities.message = k => x \in Of(queue, "CausedAction")'
                     /\ Of(queue, "MessageDelivery") \subseteq Of(queue, "MessageDelivery")'
            BY <1>3, <2>2
        <2>3. tick <= m.delivery /\ m.send <= tick
            BY <1>1, <1>2, <1>5
        <2>. HIDE DEF i, m
        <2>. QED  BY <1>1, <1>2, <2>1, <2>2, <2>3 DEF MessagesInv, DeliverySound
    <1>. QED  BY <1>1, <1>4, <1>6, MovedMessages

\* A job that progresses leaves completed jobs alone.
LEMMA ProgressKeepsCompleted == JobProgress => CompletedStay
    <1>. SUFFICES ASSUME JobProgress, NEW k \in Released, ~ Active(k)
                  PROVE  k \in Released' /\ jobs'[k] = jobs[k]
        BY DEF CompletedStay
    <1>1. jobs[k].lifecycle = "Completed"
        BY DEF Active
    <1>. QED  BY <1>1 DEF JobProgress, Released

\* A deadline check completes no job.
LEMMA CheckDeadlineCompletesNone ==
    ASSUME KernelInv, NEW e \in queue.events, CheckDeadline(e)
    PROVE  NoneCompletes
    <1>. DEFINE j == DeadlineOf(e)
    <1>1. jobs \in [Released -> JobState]
        BY DEF KernelInv, StateInv, TypeOK
    <1>2. CASE UNCHANGED jobs
        BY <1>2, JobsStay
    <1>3. CASE jobs' # jobs
        <2>1. j \in Released /\ Active(j) /\ jobs' = [jobs EXCEPT ![j].missed = TRUE]
            BY <1>3 DEF CheckDeadline, DeadlineMatches
        <2>. HIDE DEF j
        <2>2. jobs[j] \in JobState
            BY <1>1, <2>1
        <2>3. /\ Released' = Released /\ jobs'[j].lifecycle = jobs[j].lifecycle
              /\ \A k \in Released : k # j => jobs'[k] = jobs[k]
            BY <1>1, <2>1, <2>2 DEF Released, JobState
        <2>. QED  BY <2>1, <2>3 DEF NoneCompletes, Active
    <1>. QED  BY <1>2, <1>3

\* A release completes no job.
LEMMA ReleaseCompletesNone ==
    ASSUME KernelInv, NEW e \in batch, ReleaseJob(e)
    PROVE  NoneCompletes
    <1>. DEFINE j == JobOf(e)
    <1>1. CASE UNCHANGED jobs
        BY <1>1, JobsStay
    <1>2. CASE jobs' # jobs
        <2>1. PICK job : job = NewJob(e.entities.task, e)
            OBVIOUS
        <2>2. jobs' = [k \in Released \cup {j} |-> IF k = j THEN job ELSE jobs[k]]
            BY <1>2, <2>1 DEF ReleaseJob, JobOf
        <2>3. job.lifecycle = "Ready"
            BY <2>1 DEF NewJob
        <2>. HIDE DEF j
        <2>4. Released' = Released \cup {j} /\ jobs'[j] = job /\ \A k \in Released : k # j => jobs'[k] = jobs[k]
            BY <2>2 DEF Released
        <2>. QED  BY <2>3, <2>4 DEF NoneCompletes, Active
    <1>. QED  BY <1>1, <1>2

\* A dispatch completes no job.
LEMMA DispatchCompletesNone ==
    ASSUME KernelInv, NEW r \in ResourceIds, NEW j \in ready[r], Dispatch(r, j)
    PROVE  NoneCompletes
    <1>1. TypeOK /\ stage = "schedule"
        BY DEF KernelInv, StateInv, Dispatch, Visiting
    <1>2. CASE UNCHANGED jobs
        BY <1>2, JobsStay
    <1>3. CASE jobs' # jobs
        <2>1. jobs' = [jobs EXCEPT ![j] = StartedJob(jobs[j])]
            BY <1>3 DEF Dispatch, StartSelected
        <2>2. j \in Released /\ jobs[j] \in JobState
            BY <1>1, StartedAndHeld DEF TypeOK
        <2>3. /\ Released' = Released /\ jobs'[j] = StartedJob(jobs[j])
              /\ \A k \in Released : k # j => jobs'[k] = jobs[k]
            BY <1>1, <2>1, <2>2 DEF Released, TypeOK
        <2>4. jobs'[j].lifecycle = "Running"
            BY <2>2, <2>3, StartedFields
        <2>. QED  BY <2>3, <2>4 DEF NoneCompletes, Active
    <1>. QED  BY <1>2, <1>3

\* A preemption completes no job.
LEMMA PreemptCompletesNone ==
    ASSUME KernelInv, NEW r \in ResourceIds, NEW j \in ready[r], Preempt(r, j)
    PROVE  NoneCompletes
    <1>. DEFINE p == resource[r].running
    <1>1. TypeOK /\ stage = "schedule" /\ ~ Idle(r)
        BY DEF KernelInv, StateInv, Preempt, Visiting
    <1>2. ReplaceRunning(r, p, j)
        BY PreemptionAccepted DEF Preempt
    <1>3. j \in Released /\ jobs[j] \in JobState /\ p \in Released /\ jobs[p] \in JobState /\ p # j
        BY <1>1, StartedAndHeld DEF TypeOK
    <1>4. PICK held : held = PreemptedJob(jobs[p], resource[r])
        OBVIOUS
    <1>5. PICK job : job = StartedJob(jobs[j])
        OBVIOUS
    <1>6. jobs' = [jobs EXCEPT ![p] = held, ![j] = job]
        BY <1>2, <1>3, <1>4, <1>5 DEF ReplaceRunning
    <1>. HIDE DEF p
    <1>7. held.lifecycle = "Ready" /\ job.lifecycle = "Running"
        BY <1>3, <1>4, <1>5, StartedFields, HeldFields
    <1>8. /\ Released' = Released /\ jobs'[p] = held /\ jobs'[j] = job
          /\ \A k \in Released : k \notin {j, p} => jobs'[k] = jobs[k]
        BY <1>1, <1>3, <1>6 DEF TypeOK, Released
    <1>. QED  BY <1>7, <1>8 DEF NoneCompletes, Active

\* Every step keeps the messages on schedule.
LEMMA NextMessages == KernelInv /\ MessagesInv /\ [Next]_vars => MessagesInv'
    <1>. SUFFICES ASSUME KernelInv, MessagesInv, [Next]_vars PROVE MessagesInv'
        OBVIOUS
    <1>1. TypeOK
        BY DEF KernelInv, StateInv
    <1>2. ASSUME UNCHANGED <<config, tick, queue, messages, jobs>>,
                 stage # "publish", stage' # "publish", stage = "failed" => stage' = "failed"
          PROVE  MessagesInv'
        <2>1. \A phase : Of(queue, phase)' = Of(queue, phase)
            BY <1>2 DEF Of
        <2>. QED  BY <1>2, <2>1, JobsStay, MessagesKept
    <1>3. CASE \E t \in TaskIds : QueueFirstRelease(t)
        <2>1. PICK t \in TaskIds : QueueFirstRelease(t)
            BY <1>3
        <2>2. /\ stage = "initialize" /\ UNCHANGED <<config, tick, messages, jobs, stage>>
              /\ queue' = Scheduled(queue, release[t].tick, "JobRelease", "JobRelease",
                                    JobEntities(t, release[t].job, config.assignment[t]), Absent)
            BY <2>1 DEF QueueFirstRelease, ScheduleCurrentRelease
        <2>3. \A phase : phase # "JobRelease" => Of(queue', phase) = Of(queue, phase)
            BY <2>2, ScheduledOf
        <2>4. \A phase : Of(queue, phase)' = Of(queue', phase)
            BY DEF Of
        <2>. QED  BY <2>2, <2>3, <2>4, JobsStay, MessagesKept
    <1>4. CASE Initialized \/ FinishEmpty \/ EndTick
        BY <1>2, <1>4 DEF Initialized, FinishEmpty, EndTick
    <1>5. CASE \E e \in queue.events : BeginTick(e)
        BY <1>5, BeginTickMessages
    <1>6. CASE Settle
        <2>1. ASSUME NEW e \in queue.events, IgnoreStaleCompletion(e) \/ CheckDeadline(e),
                     CompletedStay, NoneCompletes
              PROVE  MessagesInv'
            <3>1. /\ queue' = Popped(queue, e) /\ stage = "settle" /\ UNCHANGED <<config, tick, messages>>
                  /\ e.phase \in {"ExecutionCompletion", "DeadlineCheck"} /\ stage' # "publish"
                BY <2>1 DEF IgnoreStaleCompletion, CheckDeadline, Settling, Throw
            <3>2. \A phase : phase # e.phase => Of(queue, phase)' = Of(queue, phase)
                BY <1>1, <3>1, TakenEvent
            <3>. QED  BY <2>1, <3>1, <3>2, MessagesKept
        <2>2. ASSUME NEW e \in queue.events, IgnoreStaleCompletion(e) PROVE MessagesInv'
            <3>1. UNCHANGED jobs
                BY <2>2 DEF IgnoreStaleCompletion
            <3>. QED  BY <2>1, <2>2, <3>1, JobsStay
        <2>3. ASSUME NEW e \in queue.events, CheckDeadline(e) PROVE MessagesInv'
            BY <2>1, <2>3, CheckDeadlineCompletesNone, CheckDeadlineProgress, ProgressKeepsCompleted
        <2>. QED  BY <1>6, <2>2, <2>3, AcceptCompletionMessages, DeliverMessageMessages DEF Settle
    <1>7. CASE \E d \in TaskIds : PublishRoute(d)
        BY <1>7, PublishRouteMessages
    <1>8. CASE ProcessReleases
        <2>1. CASE CollectReleases
            <3>1. /\ stage = "settle" /\ stage' # "publish" /\ UNCHANGED <<config, tick, messages, jobs>>
                  /\ queue' = [queue EXCEPT !.events =
                                   queue.events \ {x \in queue.events : x.tick = tick /\ x.phase = "JobRelease"}]
                BY <2>1 DEF CollectReleases
            <3>2. \A phase : phase # "JobRelease" => Of(queue, phase)' = Of(queue, phase)
                BY <1>1, <3>1 DEF Of, TypeOK, EventQueueState
            <3>. QED  BY <3>1, <3>2, JobsStay, MessagesKept
        <2>2. ASSUME NEW e \in batch, ReleaseRefused(e) PROVE MessagesInv'
            BY <1>2, <2>2 DEF ReleaseRefused, Throw
        <2>3. ASSUME NEW e \in batch, ReleaseJob(e) PROVE MessagesInv'
            <3>1. /\ stage = "release" /\ stage' # "publish" /\ UNCHANGED <<config, tick, messages>>
                  /\ ~ DeadlineOverflows(e.entities.task)
                BY <2>3 DEF ReleaseJob, Throw
            <3>2. CompletedStay /\ NoneCompletes
                BY <2>3, ReleaseCompletesNone, ReleaseJobProgress, ProgressKeepsCompleted
            <3>3. \A phase : phase \notin {"JobRelease", "DeadlineCheck"} => Of(queue, phase)' = Of(queue, phase)
                <4>. DEFINE t == e.entities.task
                            j == JobOf(e)
                            q == QueueAfterRelease(t)
                            job == NewJob(t, e)
                <4>1. CASE HasActiveJob(t) \/ j \in Released
                    <5>1. queue' = q
                        BY <2>3, <4>1 DEF ReleaseJob, JobOf
                    <5>2. \A phase : phase # "JobRelease" => Of(q, phase) = Of(queue, phase)
                        BY <3>1, SuccessorQueued
                    <5>. HIDE DEF q
                    <5>3. \A phase : Of(queue, phase)' = Of(queue', phase)
                        BY DEF Of
                    <5>. QED  BY <5>1, <5>2, <5>3
                <4>2. CASE ~ (HasActiveJob(t) \/ j \in Released)
                    <5>1. queue' = IF job.deadline <= config.stop
                                   THEN Scheduled(q, job.deadline, "DeadlineCheck", "DeadlineMiss",
                                                  JobEntities(t, e.entities.job, e.entities.resource), Absent)
                                   ELSE q
                        BY <2>3, <4>2 DEF ReleaseJob, JobOf
                    <5>. QED  BY <3>1, <5>1, QueueAfterJobRelease
                <4>. QED  BY <4>1, <4>2
            <3>. QED  BY <3>1, <3>2, <3>3, MessagesKept
        <2>. QED  BY <1>8, <2>1, <2>2, <2>3 DEF ProcessReleases
    <1>9. CASE Schedule
        <2>1. ASSUME NEW r \in ResourceIds, LeaveResource(r) PROVE MessagesInv'
            BY <1>2, <2>1 DEF LeaveResource, Visiting, Visited
        <2>2. ASSUME NEW r \in ResourceIds, NEW j \in ready[r], Dispatch(r, j) PROVE MessagesInv'
            <3>1. /\ stage = "schedule" /\ stage' # "publish" /\ UNCHANGED <<config, tick, messages>>
                  /\ queue' = queue \/ queue' = QueueAfterStart(queue, r, j)
                BY <2>2 DEF Dispatch, Visiting, Visited, Throw, StartSelected
            <3>2. CompletedStay /\ NoneCompletes
                BY <2>2, DispatchCompletesNone, DispatchProgress, ProgressKeepsCompleted
            <3>3. j \in JobIdentity
                BY <1>1, <3>1, StartedAndHeld DEF TypeOK
            <3>4. \A phase : phase \notin {"Scheduling", "ExecutionCompletion"} => Of(queue, phase)' = Of(queue, phase)
                <4>1. \A phase : Of(queue, phase)' = Of(queue', phase)
                    BY DEF Of
                <4>. QED  BY <3>1, <3>3, <4>1, StartQueued
            <3>. QED  BY <3>1, <3>2, <3>4, MessagesKept
        <2>3. ASSUME NEW r \in ResourceIds, NEW j \in ready[r], Preempt(r, j) PROVE MessagesInv'
            <3>. DEFINE p == resource[r].running
                        preempted == Scheduled(queue, tick, "Scheduling", "JobPreempt",
                                               JobEntities(p[1], p[2], r), Absent)
            <3>1. ReplaceRunning(r, p, j) /\ Visited(r)
                BY <2>3, PreemptionAccepted DEF Preempt
            <3>2. /\ stage = "schedule" /\ stage' # "publish" /\ UNCHANGED <<config, tick, messages>>
                  /\ queue' = QueueAfterStart(preempted, r, j)
                BY <2>3, <3>1 DEF Preempt, Visiting, Visited, ReplaceRunning
            <3>3. CompletedStay /\ NoneCompletes
                BY <2>3, PreemptCompletesNone, PreemptProgress, ProgressKeepsCompleted
            <3>4. j \in JobIdentity
                BY <1>1, <3>2, StartedAndHeld DEF TypeOK
            <3>5. \A phase : phase # "Scheduling" => Of(preempted, phase) = Of(queue, phase)
                BY ScheduledOf
            <3>. HIDE DEF preempted
            <3>6. \A phase : phase \notin {"Scheduling", "ExecutionCompletion"} => Of(queue, phase)' = Of(queue, phase)
                <4>1. \A phase : Of(queue, phase)' = Of(queue', phase)
                    BY DEF Of
                <4>. QED  BY <3>2, <3>4, <3>5, <4>1, StartQueued
            <3>. QED  BY <3>2, <3>3, <3>6, MessagesKept
        <2>. QED  BY <1>9, <2>1, <2>2, <2>3 DEF Schedule
    <1>10. CASE Act
        <2>1. ASSUME NEW e \in queue.events, RecordDecision(e) PROVE MessagesInv'
            <3>1. /\ queue' = Popped(queue, e) /\ stage = "act" /\ e.phase = "Scheduling"
                  /\ UNCHANGED <<config, tick, messages, jobs, stage>>
                BY <2>1 DEF RecordDecision
            <3>2. \A phase : phase # e.phase => Of(queue, phase)' = Of(queue, phase)
                BY <1>1, <3>1, TakenEvent
            <3>. QED  BY <3>1, <3>2, JobsStay, MessagesKept
        <2>. QED  BY <1>4, <1>10, <2>1, SendMessageMessages DEF Act
    <1>11. CASE StepAfterEnd \/ UNCHANGED vars
        <2>1. UNCHANGED <<config, tick, queue, messages, jobs, stage, todo, trace>>
            BY <1>11 DEF StepAfterEnd, vars
        <2>2. SameRecords /\ CompletedStay /\ (\A phase : Of(queue, phase)' = Of(queue, phase))
            BY <2>1, JobsStay DEF SameRecords, Of
        <2>3. PublicationSound'
            BY <2>1 DEF MessagesInv, PublicationSound, Publisher, Sent, JobOf, Active, Released
        <2>. QED  BY <2>1, <2>2, <2>3, RecordsKept, DeliveryKept DEF MessagesInv
    <1>. QED  BY <1>3, <1>4, <1>5, <1>6, <1>7, <1>8, <1>9, <1>10, <1>11 DEF Next

-----------------------------------------------------------------------------
(* What a resource has been busy never exceeds the time that has passed. *)

\* What the account comes to: an idle resource was charged no more than the present, a running
\* one no more than the moment it was dispatched.
LEMMA BusyBound ==
    ASSUME TypeOK
    PROVE  BusyWithinTime <=>
               \A r \in ResourceIds :
                   resource[r].busy <= IF Idle(r) THEN tick ELSE resource[r].since
    <1>1. tick \in Nat /\ \A r \in ResourceIds : resource[r].busy \in Nat /\ resource[r].since \in Int
        BY DEF TypeOK, ResourceState
    <1>2. ASSUME NEW r \in ResourceIds
          PROVE  resource[r].busy + (IF Idle(r) THEN 0 ELSE tick - resource[r].since) <= tick
                     <=> resource[r].busy <= IF Idle(r) THEN tick ELSE resource[r].since
        <2>1. CASE Idle(r)
            BY <1>1, <2>1
        <2>2. CASE ~ Idle(r)
            BY <1>1, <2>2
        <2>. QED  BY <2>1, <2>2
    <1>. QED  BY <1>2 DEF BusyWithinTime

\* At most one resource changes; what it is given is within its bound.
LEMMA BusyChanged ==
    ASSUME TypeOK, TypeOK', BusyWithinTime, tick <= tick', NEW r,
           \A s \in ResourceIds : s # r => resource'[s] = resource[s],
           r \in ResourceIds =>
               resource'[r].busy <= IF resource'[r].running = NoJob THEN tick' ELSE resource'[r].since
    PROVE  BusyWithinTime'
    <1>1. /\ tick \in Nat /\ tick' \in Nat
          /\ \A s \in ResourceIds : resource[s].busy \in Nat /\ resource[s].since \in Int
        BY DEF TypeOK, ResourceState
    <1>2. \A s \in ResourceIds : resource[s].busy <= IF Idle(s) THEN tick ELSE resource[s].since
        BY BusyBound
    <1>3. ASSUME NEW s \in ResourceIds
          PROVE  resource'[s].busy <= IF Idle(s)' THEN tick' ELSE resource'[s].since
        <2>1. CASE s = r
            BY <2>1 DEF Idle
        <2>2. CASE s # r
            BY <1>1, <1>2, <2>2 DEF Idle
        <2>. QED  BY <2>1, <2>2
    <1>4. \A s \in ResourceIds : resource'[s].busy \in Nat /\ resource'[s].since \in Int
        BY DEF TypeOK, ResourceState
    <1>5. ASSUME NEW s \in ResourceIds
          PROVE  resource'[s].busy + (IF Idle(s)' THEN 0 ELSE tick' - resource'[s].since) <= tick'
        <2>1. resource'[s].busy <= IF Idle(s)' THEN tick' ELSE resource'[s].since
            BY <1>3
        <2>2. CASE Idle(s)'
            BY <1>1, <1>4, <2>1, <2>2
        <2>3. CASE ~ Idle(s)'
            BY <1>1, <1>4, <2>1, <2>3
        <2>. QED  BY <2>2, <2>3
    <1>. QED  BY <1>5 DEF BusyWithinTime, Idle

\* The interval of an accepted completion is charged up to now.
LEMMA AcceptCompletionBusy ==
    ASSUME KernelInv, TypeOK', BusyWithinTime, NEW e \in queue.events, AcceptCompletion(e)
    PROVE  BusyWithinTime'
    <1>. DEFINE r == e.entities.resource
    <1>1. TypeOK /\ Settling(e, "ExecutionCompletion") /\ CompletionIsCurrent(e) /\ tick' = tick
        BY DEF KernelInv, StateInv, AcceptCompletion
    <1>2. r \in ResourceIds /\ ~ Idle(r)
        BY <1>1, CurrentCompletes
    <1>3. resource' = [resource EXCEPT ![r] = IdledResource(resource[r])]
        BY <1>1, CurrentCompletes DEF AcceptCompletion, JobOf
    <1>. HIDE DEF r
    <1>5. tick \in Nat /\ resource[r].busy \in Nat /\ resource[r].since \in Int
        BY <1>1, <1>2 DEF TypeOK, ResourceState
    <1>6. resource[r].busy <= resource[r].since
        BY <1>1, <1>2, BusyBound
    <1>7. /\ resource'[r] = IdledResource(resource[r])
          /\ \A s \in ResourceIds : s # r => resource'[s] = resource[s]
        BY <1>1, <1>2, <1>3 DEF TypeOK
    <1>8. resource'[r].running = NoJob /\ resource'[r].busy <= tick'
        BY <1>1, <1>5, <1>6, <1>7 DEF IdledResource
    <1>. QED  BY <1>1, <1>5, <1>7, <1>8, BusyChanged

\* A dispatch charges nothing.
LEMMA DispatchBusy ==
    ASSUME KernelInv, TypeOK', BusyWithinTime, NEW r \in ResourceIds, NEW j \in ready[r],
           Dispatch(r, j)
    PROVE  BusyWithinTime'
    <1>1. TypeOK /\ tick' = tick /\ Idle(r)
        BY DEF KernelInv, StateInv, Dispatch
    <1>2. resource' = resource \/ resource' = [resource EXCEPT ![r] = StartedResource(resource[r], j, jobs[j].remaining)]
        BY DEF Dispatch, StartSelected
    <1>3. tick \in Nat /\ resource[r] \in ResourceState /\ resource[r].busy <= tick
        BY <1>1, BusyBound DEF TypeOK
    <1>4. \A s \in ResourceIds : s # r => resource'[s] = resource[s]
        BY <1>1, <1>2 DEF TypeOK
    <1>5. CASE resource' = resource
        BY <1>1, <1>3, <1>4, <1>5, BusyChanged DEF Idle
    <1>6. CASE resource' # resource
        <2>1. resource'[r] = StartedResource(resource[r], j, jobs[j].remaining)
            BY <1>1, <1>2, <1>6 DEF TypeOK
        <2>2. resource'[r].since = tick /\ resource'[r].busy = resource[r].busy
            BY <1>3, <2>1 DEF StartedResource, ResourceState
        <2>. QED  BY <1>1, <1>3, <1>4, <2>2, BusyChanged
    <1>. QED  BY <1>5, <1>6

\* A preemption charges the interval it cuts short up to now, and opens the next one now.
LEMMA PreemptBusy ==
    ASSUME KernelInv, TypeOK', BusyWithinTime, NEW r \in ResourceIds, NEW j \in ready[r],
           Preempt(r, j)
    PROVE  BusyWithinTime'
    <1>. DEFINE freed == IdledResource(resource[r])
    <1>1. TypeOK /\ tick' = tick /\ ~ Idle(r) /\ ReplaceRunning(r, resource[r].running, j)
        BY PreemptionAccepted DEF KernelInv, StateInv, Preempt
    <1>2. resource' = [resource EXCEPT ![r] = StartedResource(freed, j, jobs[j].remaining)]
        BY <1>1 DEF ReplaceRunning
    <1>3. tick \in Nat /\ resource[r].busy \in Nat /\ resource[r].since \in Int
        BY <1>1 DEF TypeOK, ResourceState
    <1>4. resource[r].busy <= resource[r].since
        BY <1>1, BusyBound
    <1>5. freed.busy <= tick
        BY <1>3, <1>4 DEF IdledResource
    <1>6. StartedResource(freed, j, jobs[j].remaining).since = tick
          /\ StartedResource(freed, j, jobs[j].remaining).busy = freed.busy
        BY DEF StartedResource, IdledResource
    <1>. HIDE DEF freed
    <1>7. /\ resource'[r] = StartedResource(freed, j, jobs[j].remaining)
          /\ \A s \in ResourceIds : s # r => resource'[s] = resource[s]
        BY <1>1, <1>2 DEF TypeOK
    <1>. QED  BY <1>1, <1>3, <1>5, <1>6, <1>7, BusyChanged

\* Every step keeps the accounts within the time that has passed.
LEMMA NextBusy == KernelInv /\ BusyWithinTime /\ [Next]_vars => BusyWithinTime'
    <1>. SUFFICES ASSUME KernelInv, BusyWithinTime, [Next]_vars PROVE BusyWithinTime'
        OBVIOUS
    <1>1. TypeOK /\ TypeOK'
        BY NextStateInv DEF KernelInv, StateInv
    <1>2. ASSUME resource' = resource PROVE BusyWithinTime'
        <2>1. tick <= tick'
            BY <1>1, NextTakesNothingBack DEF TypeOK, HistoryGrows, vars
        <2>. PICK r : r \notin ResourceIds
            BY NoSetContainsEverything
        <2>. QED  BY <1>1, <1>2, <2>1, BusyChanged
    <1>3. CASE Settle
        <2>1. ASSUME NEW e \in queue.events,
                     IgnoreStaleCompletion(e) \/ DeliverMessage(e) \/ CheckDeadline(e)
              PROVE  BusyWithinTime'
            BY <1>2, <2>1 DEF IgnoreStaleCompletion, DeliverMessage, CheckDeadline
        <2>. QED  BY <1>1, <1>3, <2>1, AcceptCompletionBusy DEF Settle
    <1>4. CASE Schedule
        <2>1. ASSUME NEW r \in ResourceIds, LeaveResource(r) PROVE BusyWithinTime'
            BY <1>2, <2>1 DEF LeaveResource
        <2>. QED  BY <1>1, <1>4, <2>1, DispatchBusy, PreemptBusy DEF Schedule
    <1>5. CASE \/ \E t \in TaskIds : QueueFirstRelease(t)
               \/ Initialized \/ (\E e \in queue.events : BeginTick(e)) \/ FinishEmpty
               \/ \E d \in TaskIds : PublishRoute(d)
        BY <1>2, <1>5 DEF QueueFirstRelease, Initialized, BeginTick, FinishEmpty, PublishRoute
    <1>6. CASE ProcessReleases
        BY <1>2, <1>6 DEF ProcessReleases, CollectReleases, ReleaseJob, ReleaseRefused
    <1>7. CASE Act
        BY <1>2, <1>7 DEF Act, EndTick, RecordDecision, SendMessage
    <1>8. CASE StepAfterEnd \/ UNCHANGED vars
        BY <1>2, <1>8 DEF StepAfterEnd, vars
    <1>. QED  BY <1>3, <1>4, <1>5, <1>6, <1>7, <1>8 DEF Next

-----------------------------------------------------------------------------
(* The history of a run, and what it means to a caller. *)

\* A run begins without history.
LEMMA InitHistoryInv == Init => HistoryInv
    <1>. SUFFICES ASSUME Init PROVE HistoryInv
        OBVIOUS
    <1>1. KernelInv /\ TypeOK
        BY InitKernelInv DEF KernelInv, StateInv
    <1>2. /\ queue.events = {} /\ batch = {} /\ trace = <<>> /\ messages = <<>>
          /\ Released = {} /\ stage = "initialize" /\ tick = 0
        BY DEF Init, EmptyQueue, Released
    <1>3. DOMAIN trace = {} /\ DOMAIN messages = {} /\ 1 .. Len(trace) - 1 = {}
        BY <1>2
    <1>4. FrontierSound /\ TraceCanonical
        BY <1>2, <1>3 DEF FrontierSound, LastIsNow, TraceCanonical
    <1>5. RecordsSound /\ PublicationSound /\ DeliverySound
        BY <1>2, <1>3 DEF RecordsSound, PublicationSound, DeliverySound
    <1>6. BusyWithinTime
        <2>1. \A r \in ResourceIds : resource[r].busy = 0 /\ resource[r].running = NoJob
            BY DEF Init, IdleResource
        <2>. QED  BY <1>1, <1>2, <2>1, BusyBound DEF Idle
    <1>. QED  BY <1>1, <1>4, <1>5, <1>6 DEF HistoryInv

\* Every step of the engine preserves the invariant.
LEMMA NextHistoryInv == HistoryInv /\ [Next]_vars => HistoryInv'
    BY NextKernelInv, NextFrontier, NextMessages, NextBusy DEF HistoryInv, MessagesInv

\* The invariant holds in every reachable state.
LEMMA HistoryInvariance == Spec => []HistoryInv
    BY InitHistoryInv, NextHistoryInv, PTL DEF Spec

\* Where a message is, at a moment a caller can look at it.
LEMMA MessagePosition ==
    ASSUME HistoryInv, Inspectable, NEW i \in DOMAIN messages
    PROVE  LET m == messages[i]
           IN  /\ m.send \in Nat /\ m.delivery \in Nat /\ Covered \in Nat /\ m.send < m.delivery
               /\ m.lifecycle \in MessageLifecycle
               /\ m.lifecycle = "PendingSend" => Covered < m.send
               /\ m.lifecycle = "InFlight" => m.send <= Covered /\ Covered < m.delivery
               /\ m.lifecycle = "Delivered" => m.delivery <= Covered
    <1>. DEFINE m == messages[i]
    <1>1. /\ TypeOK /\ PositionSound /\ NothingInThePast /\ NetworkSound /\ DeliverySound
          /\ stage \in {"between", "finished"} /\ trace # <<>>
        BY DEF HistoryInv, KernelInv, StateInv, Inspectable
    <1>2. /\ tick \in Nat /\ config.stop \in Nat /\ tick <= config.stop
          /\ m \in Message /\ m.send \in Nat /\ m.delivery \in Nat /\ m.lifecycle \in MessageLifecycle
        <2>1. tick \in Nat /\ config.stop \in Nat /\ messages \in Seq(Message)
            BY <1>1, ConfigType DEF TypeOK
        <2>2. tick <= config.stop
            BY <1>1 DEF PositionSound
        <2>3. m \in Message
            BY <2>1
        <2>. HIDE DEF m
        <2>4. m.send \in Nat /\ m.delivery \in Nat /\ m.lifecycle \in MessageLifecycle
            BY <2>3 DEF Message
        <2>. QED  BY <2>1, <2>2, <2>3, <2>4
    <1>3. Covered \in Nat /\ tick <= Covered /\ Covered <= config.stop
        BY <1>1, <1>2 DEF Covered
    <1>4. m.send < m.delivery
        BY <1>1, <1>2 DEF NetworkSound
    <1>5. ASSUME NEW e \in queue.events PROVE e.tick \in Nat /\ e.tick > Covered
        <2>1. e.tick \in Nat
            BY <1>1, PendingType DEF Event
        <2>2. stage = "between" => e.tick > tick
            BY <1>1 DEF NothingInThePast
        <2>3. stage = "finished" => e.tick > config.stop
            BY <1>1 DEF PositionSound
        <2>. QED  BY <1>1, <2>1, <2>2, <2>3 DEF Covered
    <1>6. ASSUME NEW n \in Nat, n <= config.stop => \E e \in queue.events : e.tick = n
          PROVE  Covered < n
        <2>1. CASE n <= config.stop
            BY <1>5, <1>6, <2>1
        <2>2. CASE ~ (n <= config.stop)
            BY <1>2, <1>3, <2>2
        <2>. QED  BY <2>1, <2>2
    <1>7. ASSUME m.lifecycle = "PendingSend" PROVE Covered < m.send
        <2>1. m.send <= config.stop => \E e \in Of(queue, "CausedAction") : e.entities.message = i
            BY <1>1, <1>7 DEF DeliverySound
        <2>2. \A e \in Of(queue, "CausedAction") :
                  e \in queue.events /\ e.tick = messages[e.entities.message].send
            BY <1>1 DEF NetworkSound, SendMatches, Of
        <2>3. m.send <= config.stop => \E e \in queue.events : e.tick = m.send
            BY <2>1, <2>2
        <2>. HIDE DEF m
        <2>. QED  BY <1>2, <1>6, <2>3
    <1>8. ASSUME m.lifecycle = "InFlight" PROVE m.send <= Covered /\ Covered < m.delivery
        <2>1. /\ m.send <= tick
              /\ m.delivery <= config.stop =>
                     \E e \in Of(queue, "MessageDelivery") : e.entities.message = i
            BY <1>1, <1>8 DEF DeliverySound
        <2>2. \A e \in Of(queue, "MessageDelivery") :
                  e \in queue.events /\ e.tick = messages[e.entities.message].delivery
            BY <1>1 DEF NetworkSound, DeliveryMatches, Of
        <2>3. m.delivery <= config.stop => \E e \in queue.events : e.tick = m.delivery
            BY <2>1, <2>2
        <2>. HIDE DEF m
        <2>. QED  BY <1>2, <1>3, <1>6, <2>1, <2>3
    <1>9. ASSUME m.lifecycle = "Delivered" PROVE m.delivery <= Covered
        <2>1. m.delivery <= tick
            BY <1>1, <1>9 DEF DeliverySound
        <2>. HIDE DEF m
        <2>. QED  BY <1>2, <1>3, <2>1
    <1>. QED  BY <1>2, <1>3, <1>4, <1>7, <1>8, <1>9

\* At every moment a caller can look, each completed job has one message for each of its
\* routes, and each message is where its ticks say.
LEMMA MessagesAreOnSchedule == HistoryInv => MessagesOnSchedule
    <1>. SUFFICES ASSUME HistoryInv, Inspectable PROVE MessagesOnSchedule
        BY DEF MessagesOnSchedule
    <1>1. /\ TypeOK /\ RecordsSound /\ PublicationSound
          /\ stage \notin {"publish", "failed"}
        BY DEF HistoryInv, KernelInv, StateInv, Inspectable
    <1>. DEFINE completed == {k \in Released : ~ Active(k)}
                due == UNION {{<<j, d>> : d \in Destinations(config, j[1])} : j \in completed}
                sent == {<<messages[i].source, messages[i].destination>> : i \in DOMAIN messages}
    <1>2. sent \subseteq due
        BY <1>1 DEF RecordsSound
    <1>3. ASSUME NEW j \in completed, NEW d \in Destinations(config, j[1])
          PROVE  <<j, d>> \in sent
        <2>1. Sent(j, d)
            BY <1>1, <1>3 DEF PublicationSound
        <2>. QED  BY <2>1 DEF Sent
    <1>4. due \subseteq sent
        BY <1>3
    <1>5. ASSUME NEW i \in DOMAIN messages
          PROVE  LET m == messages[i]
                 IN  m.lifecycle = CASE Covered < m.send     -> "PendingSend"
                                     [] Covered >= m.delivery -> "Delivered"
                                     [] OTHER                 -> "InFlight"
        <2>1. PICK m : m = messages[i]
            OBVIOUS
        <2>2. /\ m.send \in Nat /\ m.delivery \in Nat /\ Covered \in Nat /\ m.send < m.delivery
              /\ m.lifecycle \in {"PendingSend", "InFlight", "Delivered"}
              /\ m.lifecycle = "PendingSend" => Covered < m.send
              /\ m.lifecycle = "InFlight" => m.send <= Covered /\ Covered < m.delivery
              /\ m.lifecycle = "Delivered" => m.delivery <= Covered
            BY <2>1, MessagePosition DEF MessageLifecycle
        <2>3. CASE m.lifecycle = "PendingSend"
            BY <2>1, <2>2, <2>3
        <2>4. CASE m.lifecycle = "InFlight"
            <3>1. ~ (Covered < m.send) /\ ~ (Covered >= m.delivery)
                BY <2>2, <2>4
            <3>. QED  BY <2>1, <2>4, <3>1
        <2>5. CASE m.lifecycle = "Delivered"
            <3>1. ~ (Covered < m.send) /\ Covered >= m.delivery
                BY <2>2, <2>5
            <3>. QED  BY <2>1, <2>5, <3>1
        <2>. QED  BY <2>2, <2>3, <2>4, <2>5
    <1>6. sent = due
        BY <1>2, <1>4
    <1>. HIDE DEF sent, due, completed
    <1>7. \A i \in DOMAIN messages :
              LET m == messages[i]
              IN  /\ m.publish = jobs[m.source].finish
                  /\ m.send = m.publish + 1
                  /\ m.delivery = m.send + RouteDelay(config, m.source[1], m.destination)
        BY <1>1 DEF RecordsSound
    <1>8. \A i, k \in DOMAIN messages :
              (messages[i].source = messages[k].source
                 /\ messages[i].destination = messages[k].destination) => i = k
        BY <1>1 DEF RecordsSound
    <1>. QED  BY <1>5, <1>6, <1>7, <1>8 DEF MessagesOnSchedule, sent, due, completed

\* The canonical trace is in canonical order, and the cause of an event is in it before the
\* event (process_event_tick and process_release_batch, simulation_engine.cpp:181-283).
THEOREM TraceInOrder == Spec => []TraceCanonical
    <1>1. HistoryInv => TraceCanonical
        BY DEF HistoryInv
    <1>. QED  BY <1>1, HistoryInvariance, PTL

\* Every completion publishes one message per route, and each is sent and delivered when its
\* delay says, within the horizon (fixed_delay_network.cpp:95-193).
THEOREM MessagesArrive == Spec => []MessagesSound
    <1>1. HistoryInv => MessagesSound
        BY MessagesAreOnSchedule DEF HistoryInv, KernelInv, MessagesSound
    <1>. QED  BY <1>1, HistoryInvariance, PTL

\* No resource is ever charged for more time than has passed (runtime_state.cpp:144-204).
THEOREM AccountsWithinTime == Spec => []BusyWithinTime
    <1>1. HistoryInv => BusyWithinTime
        BY DEF HistoryInv
    <1>. QED  BY <1>1, HistoryInvariance, PTL

-----------------------------------------------------------------------------
(* Sums over finite sets.  SumFunctionOnSet is defined by recursion over the subsets; *)
(* what follows is what accounts are kept with: the order of addition is irrelevant.  *)

Chosen(T) == CHOOSE x \in T : TRUE

\* The sum over T, given the sums over smaller sets.
SumStep(f, g, T) == IF T = {} THEN 0 ELSE f[Chosen(T)] + g[T \ {Chosen(T)}]

\* g has the sums over the sets in D.
Sums(f, D, g) == g = [T \in D |-> SumStep(f, g, T)]

\* g has the sums over the subsets of S.
SubSums(f, S, g) == Sums(f, SUBSET S, g)

\* The definition the library gives.
LEMMA SumMeans ==
    ASSUME NEW f, NEW S
    PROVE  SumFunctionOnSet(f, S) = (CHOOSE g : SubSums(f, S, g))[S]
    BY DEF SumFunctionOnSet, FoldFunctionOnSet, MapThenFoldSet, Sums, SubSums, SumStep, Chosen

\* Taking the chosen element leaves a smaller set.
LEMMA ChosenSmaller ==
    ASSUME NEW T, IsFiniteSet(T), T # {}
    PROVE  /\ Chosen(T) \in T /\ IsFiniteSet(T \ {Chosen(T)})
           /\ Cardinality(T) \in Nat /\ Cardinality(T \ {Chosen(T)}) = Cardinality(T) - 1
           /\ Cardinality(T) > 0
    <1>1. Chosen(T) \in T
        BY DEF Chosen
    <1>2. Cardinality(T) \in Nat /\ Cardinality(T) # 0
        BY FS_CardinalityType, FS_EmptySet
    <1>. QED  BY <1>1, <1>2, FS_RemoveElement

Upto(S, n) == {T \in SUBSET S : Cardinality(T) <= n}

\* The recursion has a solution on the subsets of every size.
LEMMA PartialSumExists ==
    ASSUME NEW f, NEW S, IsFiniteSet(S)
    PROVE  \A n \in Nat : \E g : Sums(f, Upto(S, n), g)
    <1>. DEFINE Has(n) == \E g : Sums(f, Upto(S, n), g)
                bad == {n \in Nat : ~ Has(n)}
    <1>1. SUFFICES ASSUME bad # {} PROVE FALSE
        OBVIOUS
    <1>2. PICK n \in bad : \A k \in bad : n <= k
        <2>1. bad \in SUBSET Nat
            OBVIOUS
        <2>. HIDE DEF bad
        <2>. QED  BY <1>1, <2>1, LeastNumber
    <1>3. \A T \in SUBSET S : IsFiniteSet(T) /\ Cardinality(T) \in Nat
        BY FS_Subset, FS_CardinalityType
    <1>4. CASE n = 0
        <2>1. PICK g : g = [T \in Upto(S, 0) |-> 0]
            OBVIOUS
        <2>2. \A T \in Upto(S, 0) : T = {}
            BY <1>3, FS_EmptySet DEF Upto
        <2>3. Sums(f, Upto(S, 0), g)
            BY <2>1, <2>2 DEF SumStep, Sums
        <2>. QED  BY <1>2, <1>4, <2>3
    <1>5. CASE n # 0
        <2>1. n - 1 \in Nat /\ n - 1 \notin bad
            BY <1>2, <1>5
        <2>2. PICK g : Sums(f, Upto(S, n - 1), g)
            BY <2>1
        <2>3. PICK h : h = [T \in Upto(S, n) |-> SumStep(f, g, T)]
            OBVIOUS
        <2>4. ASSUME NEW T \in Upto(S, n - 1) PROVE T \in Upto(S, n) /\ h[T] = g[T]
            <3>1. T \in Upto(S, n)
                BY <1>2, <1>3 DEF Upto
            <3>2. g[T] = SumStep(f, g, T)
                BY <2>2 DEF Sums
            <3>. QED  BY <2>3, <3>1, <3>2
        <2>5. ASSUME NEW T \in Upto(S, n), T # {} PROVE T \ {Chosen(T)} \in Upto(S, n - 1)
            <3>1. T \in SUBSET S /\ IsFiniteSet(T) /\ Cardinality(T) <= n
                BY <1>3 DEF Upto
            <3>2. Cardinality(T) \in Nat /\ Cardinality(T \ {Chosen(T)}) = Cardinality(T) - 1
                BY <2>5, <3>1, ChosenSmaller
            <3>. QED  BY <1>2, <3>1, <3>2 DEF Upto
        <2>6. \A T \in Upto(S, n) : SumStep(f, g, T) = SumStep(f, h, T)
            BY <2>4, <2>5 DEF SumStep
        <2>7. Sums(f, Upto(S, n), h)
            BY <2>3, <2>6 DEF Sums
        <2>. QED  BY <1>2, <2>7
    <1>. QED  BY <1>4, <1>5

\* So it has one on all subsets of a finite set.
LEMMA SumExists ==
    ASSUME NEW f, NEW S, IsFiniteSet(S)
    PROVE  \E g : SubSums(f, S, g)
    <1>1. Cardinality(S) \in Nat
        BY FS_CardinalityType
    <1>2. Upto(S, Cardinality(S)) = SUBSET S
        BY FS_Subset DEF Upto
    <1>3. PICK g : Sums(f, Upto(S, Cardinality(S)), g)
        BY <1>1, PartialSumExists, Zenon
    <1>4. SubSums(f, S, g)
        BY <1>2, <1>3, Zenon DEF SubSums
    <1>. QED  BY <1>4, Zenon

\* Two solutions agree where both are defined.
LEMMA SumUnique ==
    ASSUME NEW f, NEW S, IsFiniteSet(S), NEW R, R \subseteq S,
           NEW g, SubSums(f, S, g), NEW h, SubSums(f, R, h)
    PROVE  g[R] = h[R]
    <1>. DEFINE differ == {T \in SUBSET R : g[T] # h[T]}
                sizes == {Cardinality(T) : T \in differ}
    <1>1. \A T \in SUBSET R : IsFiniteSet(T) /\ Cardinality(T) \in Nat
        BY FS_Subset, FS_CardinalityType
    <1>2. SUFFICES ASSUME differ # {} PROVE FALSE
        OBVIOUS
    <1>3. PICK n \in sizes : \A k \in sizes : n <= k
        <2>1. sizes \in SUBSET Nat /\ sizes # {}
            BY <1>1, <1>2
        <2>. HIDE DEF sizes
        <2>. QED  BY <2>1, LeastNumber
    <1>4. PICK T \in differ : n = Cardinality(T)
        BY <1>3
    <1>5. T \in SUBSET R /\ T \in SUBSET S /\ g[T] # h[T] /\ IsFiniteSet(T)
        BY <1>1, <1>4
    <1>6. g[T] = SumStep(f, g, T) /\ h[T] = SumStep(f, h, T)
        BY <1>5 DEF Sums, SubSums
    <1>7. T # {}
        BY <1>5, <1>6 DEF SumStep
    <1>8. PICK U : U = T \ {Chosen(T)}
        OBVIOUS
    <1>9. U \in SUBSET R /\ Cardinality(U) = n - 1 /\ n \in Nat
        BY <1>4, <1>5, <1>7, <1>8, ChosenSmaller
    <1>10. U \notin differ
        BY <1>3, <1>9
    <1>11. g[U] = h[U]
        BY <1>9, <1>10
    <1>. QED  BY <1>5, <1>6, <1>7, <1>8, <1>11 DEF SumStep

\* The sum over nothing.
LEMMA SumOfNone == ASSUME NEW f PROVE SumFunctionOnSet(f, {}) = 0
    <1>1. PICK g : g = (CHOOSE h : SubSums(f, {}, h))
        OBVIOUS
    <1>2. SubSums(f, {}, g)
        BY <1>1, SumExists, FS_EmptySet
    <1>. QED  BY <1>1, <1>2, SumMeans DEF Sums, SubSums, SumStep

\* The chosen element is added to the sum over the rest.
LEMMA SumOfSome ==
    ASSUME NEW f, NEW S, IsFiniteSet(S), S # {}
    PROVE  SumFunctionOnSet(f, S) = f[Chosen(S)] + SumFunctionOnSet(f, S \ {Chosen(S)})
    <1>1. PICK R : R = S \ {Chosen(S)}
        OBVIOUS
    <1>2. IsFiniteSet(R) /\ R \subseteq S
        BY <1>1, FS_Subset
    <1>3. PICK g : g = (CHOOSE h : SubSums(f, S, h))
        OBVIOUS
    <1>4. PICK k : k = (CHOOSE h : SubSums(f, R, h))
        OBVIOUS
    <1>5. SubSums(f, S, g) /\ SubSums(f, R, k)
        BY <1>2, <1>3, <1>4, SumExists
    <1>6. g[R] = k[R]
        BY <1>2, <1>5, SumUnique
    <1>7. SumFunctionOnSet(f, S) = g[S] /\ SumFunctionOnSet(f, R) = k[R]
        BY <1>3, <1>4, SumMeans
    <1>8. g[S] = SumStep(f, g, S)
        BY <1>5 DEF Sums, SubSums
    <1>. QED  BY <1>1, <1>6, <1>7, <1>8 DEF SumStep

\* The sum of integers is an integer, and of naturals a natural.
LEMMA SumType ==
    ASSUME NEW f, NEW S, IsFiniteSet(S), NEW Numbers \in {Nat, Int}, \A x \in S : f[x] \in Numbers
    PROVE  SumFunctionOnSet(f, S) \in Numbers
    <1>. DEFINE bad == {T \in SUBSET S : SumFunctionOnSet(f, T) \notin Numbers}
                sizes == {Cardinality(T) : T \in bad}
    <1>1. \A T \in SUBSET S : IsFiniteSet(T) /\ Cardinality(T) \in Nat
        BY FS_Subset, FS_CardinalityType
    <1>2. SUFFICES ASSUME bad # {} PROVE FALSE
        OBVIOUS
    <1>3. PICK n \in sizes : \A k \in sizes : n <= k
        <2>1. sizes \in SUBSET Nat /\ sizes # {}
            BY <1>1, <1>2
        <2>. HIDE DEF sizes
        <2>. QED  BY <2>1, LeastNumber
    <1>4. PICK T \in bad : n = Cardinality(T)
        BY <1>3
    <1>5. T \in SUBSET S /\ IsFiniteSet(T) /\ SumFunctionOnSet(f, T) \notin Numbers
        BY <1>1, <1>4
    <1>6. 0 \in Numbers /\ \A a, b \in Numbers : a + b \in Numbers
        OBVIOUS
    <1>7. T # {}
        BY <1>5, <1>6, SumOfNone
    <1>8. PICK U : U = T \ {Chosen(T)}
        OBVIOUS
    <1>9. U \in SUBSET S /\ Cardinality(U) = n - 1 /\ n \in Nat
        BY <1>4, <1>5, <1>7, <1>8, ChosenSmaller
    <1>10. U \notin bad
        BY <1>3, <1>9
    <1>11. SumFunctionOnSet(f, U) \in Numbers /\ f[Chosen(T)] \in Numbers
        BY <1>5, <1>7, <1>9, <1>10, ChosenSmaller
    <1>. QED  BY <1>5, <1>6, <1>7, <1>8, <1>11, SumOfSome

\* Any element may be added last.
LEMMA SumOfRest ==
    ASSUME NEW f, NEW S, IsFiniteSet(S), \A x \in S : f[x] \in Int
    PROVE  \A x \in S : SumFunctionOnSet(f, S) = f[x] + SumFunctionOnSet(f, S \ {x})
    <1>. DEFINE Apart(T) == \A x \in T : SumFunctionOnSet(f, T) = f[x] + SumFunctionOnSet(f, T \ {x})
                bad == {T \in SUBSET S : ~ Apart(T)}
                sizes == {Cardinality(T) : T \in bad}
    <1>1. \A T \in SUBSET S : IsFiniteSet(T) /\ Cardinality(T) \in Nat
        BY FS_Subset, FS_CardinalityType
    <1>2. SUFFICES ASSUME bad # {} PROVE FALSE
        OBVIOUS
    <1>3. PICK n \in sizes : \A k \in sizes : n <= k
        <2>1. sizes \in SUBSET Nat /\ sizes # {}
            BY <1>1, <1>2
        <2>. HIDE DEF sizes
        <2>. QED  BY <2>1, LeastNumber
    <1>4. PICK T \in bad : n = Cardinality(T)
        BY <1>3
    <1>5. T \in SUBSET S /\ IsFiniteSet(T)
        BY <1>1, <1>4
    <1>6. PICK x \in T : SumFunctionOnSet(f, T) # f[x] + SumFunctionOnSet(f, T \ {x})
        BY <1>4
    <1>7. PICK c : c = Chosen(T)
        OBVIOUS
    <1>8. c \in T /\ SumFunctionOnSet(f, T) = f[c] + SumFunctionOnSet(f, T \ {c}) /\ c # x
        BY <1>5, <1>6, <1>7, ChosenSmaller, SumOfSome
    <1>9. ASSUME NEW y \in T PROVE Apart(T \ {y})
        <2>1. T \ {y} \in SUBSET S /\ Cardinality(T \ {y}) = n - 1 /\ n \in Nat
            BY <1>4, <1>5, FS_RemoveElement, FS_CardinalityType
        <2>2. T \ {y} \notin bad
            <3>1. Cardinality(T \ {y}) \notin sizes
                BY <1>3, <2>1
            <3>. QED  BY <3>1
        <2>. QED  BY <2>1, <2>2
    <1>10. PICK R : R = T \ {c, x}
        OBVIOUS
    <1>11. (T \ {c}) \ {x} = R /\ (T \ {x}) \ {c} = R /\ R \in SUBSET S
        BY <1>5, <1>10
    <1>12. SumFunctionOnSet(f, T \ {c}) = f[x] + SumFunctionOnSet(f, R)
        <2>1. Apart(T \ {c}) /\ x \in T \ {c}
            BY <1>6, <1>8, <1>9
        <2>. QED  BY <1>11, <2>1
    <1>13. SumFunctionOnSet(f, T \ {x}) = f[c] + SumFunctionOnSet(f, R)
        <2>1. Apart(T \ {x}) /\ c \in T \ {x}
            BY <1>6, <1>8, <1>9
        <2>. QED  BY <1>11, <2>1
    <1>14. SumFunctionOnSet(f, R) \in Int /\ f[c] \in Int /\ f[x] \in Int
        BY <1>1, <1>5, <1>6, <1>8, <1>11, SumType
    <1>. QED  BY <1>6, <1>8, <1>12, <1>13, <1>14

\* An account gains an item.
LEMMA SumGains ==
    ASSUME NEW f, NEW S, IsFiniteSet(S), NEW x, x \notin S, \A y \in S \cup {x} : f[y] \in Int
    PROVE  SumFunctionOnSet(f, S \cup {x}) = SumFunctionOnSet(f, S) + f[x]
    <1>1. IsFiniteSet(S \cup {x}) /\ x \in S \cup {x} /\ (S \cup {x}) \ {x} = S
        BY FS_AddElement
    <1>2. SumFunctionOnSet(f, S \cup {x}) = f[x] + SumFunctionOnSet(f, S)
        BY <1>1, SumOfRest
    <1>3. SumFunctionOnSet(f, S) \in Int
        BY SumType
    <1>. QED  BY <1>2, <1>3

\* Only the values of the items count.
LEMMA SumOfSame ==
    ASSUME NEW f, NEW g, NEW S, IsFiniteSet(S), \A x \in S : f[x] = g[x]
    PROVE  SumFunctionOnSet(f, S) = SumFunctionOnSet(g, S)
    <1>. DEFINE bad == {T \in SUBSET S : SumFunctionOnSet(f, T) # SumFunctionOnSet(g, T)}
                sizes == {Cardinality(T) : T \in bad}
    <1>1. \A T \in SUBSET S : IsFiniteSet(T) /\ Cardinality(T) \in Nat
        BY FS_Subset, FS_CardinalityType
    <1>2. SUFFICES ASSUME bad # {} PROVE FALSE
        OBVIOUS
    <1>3. PICK n \in sizes : \A k \in sizes : n <= k
        <2>1. sizes \in SUBSET Nat /\ sizes # {}
            BY <1>1, <1>2
        <2>. HIDE DEF sizes
        <2>. QED  BY <2>1, LeastNumber
    <1>4. PICK T \in bad : n = Cardinality(T)
        BY <1>3
    <1>5. T \in SUBSET S /\ IsFiniteSet(T) /\ SumFunctionOnSet(f, T) # SumFunctionOnSet(g, T)
        BY <1>1, <1>4
    <1>6. T # {}
        BY <1>5, SumOfNone
    <1>7. PICK U : U = T \ {Chosen(T)}
        OBVIOUS
    <1>8. U \in SUBSET S /\ Cardinality(U) = n - 1 /\ n \in Nat /\ Chosen(T) \in S
        BY <1>4, <1>5, <1>6, <1>7, ChosenSmaller
    <1>9. U \notin bad
        BY <1>3, <1>8
    <1>10. SumFunctionOnSet(f, U) = SumFunctionOnSet(g, U) /\ f[Chosen(T)] = g[Chosen(T)]
        BY <1>8, <1>9
    <1>. QED  BY <1>5, <1>6, <1>7, <1>10, SumOfSome

\* One item of an account changes.
LEMMA SumChanges ==
    ASSUME NEW f, NEW g, NEW S, IsFiniteSet(S), NEW x \in S,
           \A y \in S : f[y] \in Int /\ g[y] \in Int, \A y \in S \ {x} : f[y] = g[y]
    PROVE  SumFunctionOnSet(g, S) = SumFunctionOnSet(f, S) + (g[x] - f[x])
    <1>. DEFINE R == S \ {x}
    <1>1. IsFiniteSet(R) /\ R \subseteq S
        BY FS_Subset
    <1>2. SumFunctionOnSet(f, S) = f[x] + SumFunctionOnSet(f, R)
        BY SumOfRest
    <1>3. SumFunctionOnSet(g, S) = g[x] + SumFunctionOnSet(g, R)
        BY SumOfRest
    <1>4. SumFunctionOnSet(f, R) = SumFunctionOnSet(g, R)
        BY <1>1, SumOfSame
    <1>5. SumFunctionOnSet(f, R) \in Int
        BY <1>1, SumType
    <1>. HIDE DEF R
    <1>. QED  BY <1>2, <1>3, <1>4, <1>5

-----------------------------------------------------------------------------
(* What the steps that charge, start, hold or release a job do to the books. *)

\* Only job j of Released changes, and keeps its identity and placement.
OnlyJob(j) ==
    /\ j \in Released /\ Released' = Released
    /\ \A k \in Released : k # j => jobs'[k] = jobs[k]
    /\ jobs'[j].resource = jobs[j].resource

\* Only resource r changes.
OnlyResource(r) ==
    r \in ResourceIds /\ \A s \in ResourceIds : s # r => resource'[s] = resource[s]

\* An accepted completion charges the interval that ends now, which is all the job needed.
LEMMA CompletionEffect ==
    ASSUME KernelInv, NEW e \in queue.events, AcceptCompletion(e)
    PROVE  LET j == JobOf(e)
               r == e.entities.resource
           IN  /\ OnlyJob(j) /\ OnlyResource(r) /\ resource[r].running = j /\ jobs[j].resource = r
               /\ jobs[j].lifecycle = "Running" /\ jobs'[j].lifecycle = "Completed"
               /\ jobs[j].remaining = tick - resource[r].since /\ tick > resource[r].since
               /\ jobs'[j].remaining = 0 /\ jobs'[j].finish = tick
               /\ jobs'[j].first_start = jobs[j].first_start
               /\ jobs'[j].preemptions = jobs[j].preemptions /\ jobs'[j].missed = jobs[j].missed
               /\ jobs'[j].release = jobs[j].release /\ jobs'[j].priority = jobs[j].priority
               /\ resource'[r].running = NoJob
               /\ resource'[r].busy = resource[r].busy + (tick - resource[r].since)
               /\ trace' = Append(trace, e) /\ queue' = Popped(queue, e)
               /\ e.phase = "ExecutionCompletion" /\ e.tick = tick
               /\ UNCHANGED <<config, tick, release, ready, batch>>
               /\ stage' \in {"settle", "publish"}
    <1>1. TypeOK /\ Settling(e, "ExecutionCompletion") /\ CompletionIsCurrent(e)
        BY DEF KernelInv, StateInv, AcceptCompletion
    <1>. DEFINE j == JobOf(e)
                r == e.entities.resource
    <1>2. /\ r \in ResourceIds /\ j \in Released /\ resource[r].running = j
          /\ jobs[j].lifecycle = "Running" /\ jobs[j].resource = r
          /\ e.tick = tick /\ e.phase = "ExecutionCompletion" /\ ChargeCompletes(r, j)
        BY <1>1, CurrentCompletes
    <1>3. /\ jobs' = [jobs EXCEPT ![j] = CompletedJob(jobs[j])]
          /\ resource' = [resource EXCEPT ![r] = IdledResource(resource[r])]
          /\ trace' = Append(trace, e) /\ queue' = Popped(queue, e)
          /\ UNCHANGED <<config, tick, release, ready, batch>>
          /\ stage' \in {"settle", "publish"}
        BY <1>2 DEF AcceptCompletion, JobOf
    <1>. HIDE DEF j, r
    <1>4. jobs[j] \in JobState /\ resource[r] \in ResourceState /\ tick \in Nat
        BY <1>1, <1>2 DEF TypeOK
    <1>5. PICK done : done = CompletedJob(jobs[j])
        OBVIOUS
    <1>6. /\ done.resource = jobs[j].resource /\ done.remaining = 0 /\ done.lifecycle = "Completed"
          /\ done.finish = tick /\ done.first_start = jobs[j].first_start
          /\ done.preemptions = jobs[j].preemptions /\ done.missed = jobs[j].missed
          /\ done.release = jobs[j].release /\ done.priority = jobs[j].priority
        BY <1>4, <1>5 DEF CompletedJob, JobState
    <1>7. /\ Released' = Released /\ jobs'[j] = done
          /\ \A k \in Released : k # j => jobs'[k] = jobs[k]
        BY <1>1, <1>2, <1>3, <1>5 DEF TypeOK, Released
    <1>8. /\ resource'[r] = IdledResource(resource[r])
          /\ \A s \in ResourceIds : s # r => resource'[s] = resource[s]
        BY <1>1, <1>2, <1>3 DEF TypeOK
    <1>9. /\ resource'[r].running = NoJob
          /\ resource'[r].busy = resource[r].busy + (tick - resource[r].since)
        <2>1. resource[r].busy \in Nat /\ resource[r].since \in Int
            BY <1>4 DEF ResourceState
        <2>. QED  BY <1>4, <1>8, <2>1 DEF IdledResource
    <1>10. jobs[j].remaining = tick - resource[r].since /\ tick > resource[r].since
        BY <1>2 DEF ChargeCompletes
    <1>11. OnlyJob(j) /\ OnlyResource(r)
        BY <1>2, <1>6, <1>7, <1>8 DEF OnlyJob, OnlyResource
    <1>. QED  BY <1>2, <1>3, <1>6, <1>7, <1>9, <1>10, <1>11 DEF j, r

\* Starting a job changes neither its placement nor what it still needs.
LEMMA StartEffect ==
    ASSUME NEW job \in JobState, NEW started, started = StartedJob(job)
    PROVE  /\ started.resource = job.resource /\ started.remaining = job.remaining
           /\ started.lifecycle = "Running" /\ started.preemptions = job.preemptions
           /\ started.release = job.release /\ started.priority = job.priority
           /\ started.missed = job.missed /\ started.finish = job.finish
           /\ started.first_start = IF Started(job) THEN job.first_start ELSE tick
    BY DEF StartedJob, JobState

\* A dispatch charges nothing: it starts a Ready job on an idle resource, or is refused.
LEMMA DispatchEffect ==
    ASSUME KernelInv, NEW r \in ResourceIds, NEW j \in ready[r], Dispatch(r, j)
    PROVE  /\ UNCHANGED <<config, tick, trace, release, batch>> /\ Idle(r) /\ stage = "schedule"
           /\ jobs[j].resource = r /\ jobs[j].lifecycle = "Ready" /\ j \in Released
           /\ \/ stage' = "failed" /\ UNCHANGED <<jobs, resource, ready, queue>>
              \/ /\ OnlyJob(j) /\ OnlyResource(r)
                 /\ jobs'[j].lifecycle = "Running" /\ jobs'[j].remaining = jobs[j].remaining
                 /\ jobs'[j].first_start = IF Started(jobs[j]) THEN jobs[j].first_start ELSE tick
                 /\ jobs'[j].preemptions = jobs[j].preemptions
                 /\ jobs'[j].release = jobs[j].release /\ jobs'[j].priority = jobs[j].priority
                 /\ jobs'[j].missed = jobs[j].missed /\ jobs'[j].finish = jobs[j].finish
                 /\ resource'[r].running = j /\ resource'[r].since = tick
                 /\ resource'[r].busy = resource[r].busy
                 /\ ready' = [ready EXCEPT ![r] = ready[r] \ {j}]
                 /\ queue' = QueueAfterStart(queue, r, j) /\ Visited(r)
    <1>1. TypeOK /\ stage = "schedule" /\ Idle(r) /\ UNCHANGED <<config, tick, trace, release, batch>>
        BY DEF KernelInv, StateInv, Dispatch, Visiting
    <1>2. jobs[j].resource = r /\ jobs[j].lifecycle = "Ready" /\ j \in Released
        BY <1>1, StartedAndHeld
    <1>3. CASE StartOverflows(j)
        BY <1>1, <1>2, <1>3 DEF Dispatch, Throw
    <1>4. CASE ~ StartOverflows(j)
        <2>1. /\ jobs' = [jobs EXCEPT ![j] = StartedJob(jobs[j])]
              /\ resource' = [resource EXCEPT ![r] = StartedResource(resource[r], j, jobs[j].remaining)]
              /\ ready' = [ready EXCEPT ![r] = ready[r] \ {j}]
              /\ queue' = QueueAfterStart(queue, r, j) /\ Visited(r)
            BY <1>4 DEF Dispatch, StartSelected
        <2>2. jobs[j] \in JobState /\ resource[r] \in ResourceState
            BY <1>1, <1>2 DEF TypeOK
        <2>3. PICK started : started = StartedJob(jobs[j])
            OBVIOUS
        <2>4. /\ Released' = Released /\ jobs'[j] = started
              /\ \A k \in Released : k # j => jobs'[k] = jobs[k]
            BY <1>1, <1>2, <2>1, <2>3 DEF TypeOK, Released
        <2>5. /\ resource'[r] = StartedResource(resource[r], j, jobs[j].remaining)
              /\ \A s \in ResourceIds : s # r => resource'[s] = resource[s]
            BY <1>1, <2>1 DEF TypeOK
        <2>6. /\ resource'[r].running = j /\ resource'[r].since = tick
              /\ resource'[r].busy = resource[r].busy
            BY <2>2, <2>5 DEF StartedResource, ResourceState
        <2>7. /\ started.resource = jobs[j].resource /\ started.remaining = jobs[j].remaining
              /\ started.lifecycle = "Running" /\ started.preemptions = jobs[j].preemptions
              /\ started.release = jobs[j].release /\ started.priority = jobs[j].priority
              /\ started.missed = jobs[j].missed /\ started.finish = jobs[j].finish
              /\ started.first_start = IF Started(jobs[j]) THEN jobs[j].first_start ELSE tick
            BY <2>2, <2>3, StartEffect
        <2>8. OnlyJob(j) /\ OnlyResource(r)
            BY <1>2, <2>4, <2>5, <2>7 DEF OnlyJob, OnlyResource
        <2>. QED  BY <1>1, <1>2, <2>1, <2>4, <2>6, <2>7, <2>8
    <1>. QED  BY <1>3, <1>4

\* A preemption charges the job it holds for the interval it cuts short, and starts another.
LEMMA PreemptEffect ==
    ASSUME KernelInv, NEW r \in ResourceIds, NEW j \in ready[r], Preempt(r, j)
    PROVE  LET p == resource[r].running
               preempted == Scheduled(queue, tick, "Scheduling", "JobPreempt",
                                      JobEntities(p[1], p[2], r), Absent)
           IN  /\ UNCHANGED <<config, tick, trace, release, batch>> /\ ~ Idle(r) /\ stage = "schedule"
               /\ j \in Released /\ p \in Released /\ p # j /\ Released' = Released
               /\ \A k \in Released : k \notin {j, p} => jobs'[k] = jobs[k]
               /\ jobs[j].resource = r /\ jobs[j].lifecycle = "Ready"
               /\ jobs[p].resource = r /\ jobs[p].lifecycle = "Running"
               /\ jobs'[j].resource = r /\ jobs'[p].resource = r
               /\ jobs'[j].lifecycle = "Running" /\ jobs'[j].remaining = jobs[j].remaining
               /\ jobs'[j].first_start = IF Started(jobs[j]) THEN jobs[j].first_start ELSE tick
               /\ jobs'[j].preemptions = jobs[j].preemptions
               /\ jobs'[j].release = jobs[j].release /\ jobs'[j].priority = jobs[j].priority
               /\ jobs'[j].missed = jobs[j].missed /\ jobs'[j].finish = jobs[j].finish
               /\ jobs'[p].lifecycle = "Ready"
               /\ jobs'[p].remaining = jobs[p].remaining - (tick - resource[r].since)
               /\ jobs'[p].first_start = jobs[p].first_start
               /\ jobs'[p].preemptions = jobs[p].preemptions + 1
               /\ jobs'[p].release = jobs[p].release /\ jobs'[p].priority = jobs[p].priority
               /\ jobs'[p].missed = jobs[p].missed /\ jobs'[p].finish = jobs[p].finish
               /\ OnlyResource(r) /\ resource'[r].running = j /\ resource'[r].since = tick
               /\ resource'[r].busy = resource[r].busy + (tick - resource[r].since)
               /\ ready' = [ready EXCEPT ![r] = (ready[r] \cup {p}) \ {j}]
               /\ queue' = QueueAfterStart(preempted, r, j) /\ Visited(r)
    <1>. DEFINE p == resource[r].running
                preempted == Scheduled(queue, tick, "Scheduling", "JobPreempt",
                                       JobEntities(p[1], p[2], r), Absent)
                freed == IdledResource(resource[r])
    <1>1. /\ TypeOK /\ stage = "schedule" /\ ~ Idle(r)
          /\ UNCHANGED <<config, tick, trace, release, batch>>
        BY DEF KernelInv, StateInv, Preempt, Visiting
    <1>2. ReplaceRunning(r, p, j) /\ Visited(r)
        BY PreemptionAccepted DEF Preempt
    <1>3. /\ j \in Released /\ jobs[j].lifecycle = "Ready" /\ jobs[j].resource = r
          /\ p \in Released /\ jobs[p].lifecycle = "Running" /\ jobs[p].resource = r /\ p # j
        BY <1>1, StartedAndHeld
    <1>4. PICK held : held = PreemptedJob(jobs[p], resource[r])
        OBVIOUS
    <1>5. PICK started : started = StartedJob(jobs[j])
        OBVIOUS
    <1>6. /\ jobs' = [jobs EXCEPT ![p] = held, ![j] = started]
          /\ resource' = [resource EXCEPT ![r] = StartedResource(freed, j, jobs[j].remaining)]
          /\ ready' = [ready EXCEPT ![r] = (ready[r] \cup {p}) \ {j}]
          /\ queue' = QueueAfterStart(preempted, r, j)
        BY <1>2, <1>3, <1>4, <1>5 DEF ReplaceRunning
    <1>. HIDE DEF preempted, p
    <1>7. jobs[j] \in JobState /\ jobs[p] \in JobState /\ resource[r] \in ResourceState /\ tick \in Nat
        BY <1>1, <1>3 DEF TypeOK
    <1>8. /\ started.resource = jobs[j].resource /\ started.remaining = jobs[j].remaining
          /\ started.lifecycle = "Running" /\ started.preemptions = jobs[j].preemptions
          /\ started.release = jobs[j].release /\ started.priority = jobs[j].priority
          /\ started.missed = jobs[j].missed /\ started.finish = jobs[j].finish
          /\ started.first_start = IF Started(jobs[j]) THEN jobs[j].first_start ELSE tick
        BY <1>5, <1>7, StartEffect
    <1>9. /\ held.resource = jobs[p].resource /\ held.lifecycle = "Ready"
          /\ held.remaining = jobs[p].remaining - (tick - resource[r].since)
          /\ held.first_start = jobs[p].first_start /\ held.preemptions = jobs[p].preemptions + 1
          /\ held.release = jobs[p].release /\ held.priority = jobs[p].priority
          /\ held.missed = jobs[p].missed /\ held.finish = jobs[p].finish
        BY <1>4, <1>7 DEF PreemptedJob, JobState
    <1>10. /\ Released' = Released /\ jobs'[p] = held /\ jobs'[j] = started
           /\ \A k \in Released : k \notin {j, p} => jobs'[k] = jobs[k]
        BY <1>1, <1>3, <1>6 DEF TypeOK, Released
    <1>11. freed.busy = resource[r].busy + (tick - resource[r].since)
        <2>1. resource[r].busy \in Nat /\ resource[r].since \in Int
            BY <1>7 DEF ResourceState
        <2>. QED  BY <1>7, <2>1 DEF IdledResource
    <1>12. LET given == StartedResource(freed, j, jobs[j].remaining)
           IN  given.running = j /\ given.since = tick /\ given.busy = freed.busy
        BY DEF StartedResource, IdledResource
    <1>. HIDE DEF freed
    <1>13. /\ resource'[r] = StartedResource(freed, j, jobs[j].remaining)
           /\ \A s \in ResourceIds : s # r => resource'[s] = resource[s]
        BY <1>1, <1>6 DEF TypeOK
    <1>14. /\ OnlyResource(r) /\ resource'[r].running = j /\ resource'[r].since = tick
           /\ resource'[r].busy = resource[r].busy + (tick - resource[r].since)
        BY <1>11, <1>12, <1>13 DEF OnlyResource
    <1>15. /\ jobs'[j].resource = r /\ jobs'[p].resource = r
           /\ jobs'[j].lifecycle = "Running" /\ jobs'[j].remaining = jobs[j].remaining
           /\ jobs'[j].first_start = (IF Started(jobs[j]) THEN jobs[j].first_start ELSE tick)
           /\ jobs'[j].preemptions = jobs[j].preemptions
           /\ jobs'[j].release = jobs[j].release /\ jobs'[j].priority = jobs[j].priority
           /\ jobs'[j].missed = jobs[j].missed /\ jobs'[j].finish = jobs[j].finish
        BY <1>3, <1>8, <1>9, <1>10
    <1>16. /\ jobs'[p].lifecycle = "Ready"
           /\ jobs'[p].remaining = jobs[p].remaining - (tick - resource[r].since)
           /\ jobs'[p].first_start = jobs[p].first_start
           /\ jobs'[p].preemptions = jobs[p].preemptions + 1
           /\ jobs'[p].release = jobs[p].release /\ jobs'[p].priority = jobs[p].priority
           /\ jobs'[p].missed = jobs[p].missed /\ jobs'[p].finish = jobs[p].finish
        BY <1>9, <1>10
    <1>. QED  BY <1>1, <1>2, <1>3, <1>6, <1>10, <1>14, <1>15, <1>16, Zenon DEF p, preempted

\* An accepted release adds a Ready job that has been charged nothing; a release that finds
\* an incomplete job adds none.
LEMMA ReleaseEffect ==
    ASSUME KernelInv, NEW e \in batch, ReleaseJob(e)
    PROVE  LET j == JobOf(e)
               t == e.entities.task
           IN  /\ UNCHANGED <<config, tick, resource>> /\ stage = "release"
               /\ t \in TaskIds /\ e.tick = tick /\ e.phase = "JobRelease" /\ j \notin Released
               /\ \A phase : phase \notin {"JobRelease", "DeadlineCheck"} => Of(queue, phase)' = Of(queue, phase)
               /\ batch' = batch \ {e} /\ release' = [release EXCEPT ![t] = ReleaseAfter(t)]
               /\ \/ /\ stage' = "failed" /\ UNCHANGED <<jobs, ready, trace>>
                     /\ HasActiveJob(t) /\ fault' = "self_overlap"
                  \/ /\ Released' = Released \cup {j} /\ \A k \in Released : jobs'[k] = jobs[k]
                     /\ ~ HasActiveJob(t)
                     /\ jobs'[j] = NewJob(t, e)
                     /\ jobs'[j].resource = config.assignment[t]
                     /\ jobs'[j].lifecycle = "Ready" /\ jobs'[j].remaining = Demand(config, t)
                     /\ jobs'[j].first_start = Absent /\ jobs'[j].preemptions = 0
                     /\ jobs'[j].release = tick /\ jobs'[j].priority = config.task[t].priority
                     /\ jobs'[j].deadline = tick + config.task[t].deadline
                     /\ jobs'[j].missed = FALSE
                     /\ ready' = [ready EXCEPT ![config.assignment[t]] =
                                      ready[config.assignment[t]] \cup {j}]
                     /\ trace' = Append(trace, e)
                     /\ stage' = (IF batch = {e} THEN "settle" ELSE "release")
                     /\ UNCHANGED fault
    <1>. DEFINE j == JobOf(e)
                t == e.entities.task
                r == e.entities.resource
                job == NewJob(t, e)
    <1>1. TypeOK /\ stage = "release" /\ UNCHANGED <<config, tick, resource>>
        BY DEF KernelInv, StateInv, ReleaseJob
    <1>2. /\ t \in TaskIds /\ e.tick = tick /\ e.phase = "JobRelease" /\ r = config.assignment[t]
          /\ e.entities.job \in Nat /\ \A k \in Released : k[1] = t => k[2] < e.entities.job
        BY <1>1, BatchRelease DEF ReleaseState
    <1>3. j \notin Released
        BY <1>2 DEF JobOf
    <1>4. /\ batch' = batch \ {e} /\ release' = [release EXCEPT ![t] = ReleaseAfter(t)]
          /\ ~ DeadlineOverflows(t)
        BY DEF ReleaseJob
    <1>5. CASE HasActiveJob(t)
        <2>1. queue' = QueueAfterRelease(t) /\ UNCHANGED <<jobs, ready, trace>>
              /\ stage' = "failed" /\ fault' = "self_overlap"
            BY <1>5 DEF ReleaseJob, Throw
        <2>2. \A phase : phase # "JobRelease" => Of(queue, phase)' = Of(queue, phase)
            <3>1. \A phase : Of(queue, phase)' = Of(queue', phase)
                BY DEF Of
            <3>. QED  BY <1>1, <2>1, <3>1, SuccessorQueued
        <2>. QED  BY <1>1, <1>2, <1>3, <1>4, <1>5, <2>1, <2>2
    <1>6. CASE ~ HasActiveJob(t)
        <2>1. /\ jobs' = [k \in Released \cup {j} |-> IF k = j THEN job ELSE jobs[k]]
              /\ ready' = [ready EXCEPT ![r] = ready[r] \cup {j}]
              /\ queue' = IF job.deadline <= config.stop
                          THEN Scheduled(QueueAfterRelease(t), job.deadline, "DeadlineCheck",
                                         "DeadlineMiss", JobEntities(t, e.entities.job, r), Absent)
                          ELSE QueueAfterRelease(t)
              /\ trace' = Append(trace, e)
              /\ stage' = (IF batch = {e} THEN "settle" ELSE "release")
              /\ UNCHANGED fault
            BY <1>3, <1>6 DEF ReleaseJob, JobOf
        <2>2. \A phase : phase \notin {"JobRelease", "DeadlineCheck"} => Of(queue, phase)' = Of(queue, phase)
            BY <1>1, <1>4, <2>1, QueueAfterJobRelease
        <2>3. /\ job.resource = r /\ job.lifecycle = "Ready" /\ job.remaining = config.demand[t, r]
              /\ job.first_start = Absent /\ job.preemptions = 0 /\ job.missed = FALSE
              /\ job.release = e.tick /\ job.priority = config.task[t].priority
              /\ job.deadline = e.tick + config.task[t].deadline
            BY DEF NewJob
        <2>. HIDE DEF job, j, r, t
        <2>4. Released' = Released \cup {j} /\ jobs'[j] = job /\ \A k \in Released : jobs'[k] = jobs[k]
            BY <1>3, <2>1 DEF Released
        <2>5. ready' = [ready EXCEPT ![config.assignment[t]] = ready[config.assignment[t]] \cup {j}]
            BY <1>2, <2>1
        <2>6. /\ jobs'[j].resource = config.assignment[t] /\ jobs'[j].lifecycle = "Ready"
              /\ jobs'[j].remaining = Demand(config, t)
              /\ jobs'[j].first_start = Absent /\ jobs'[j].preemptions = 0 /\ jobs'[j].missed = FALSE
              /\ jobs'[j].release = tick /\ jobs'[j].priority = config.task[t].priority
              /\ jobs'[j].deadline = tick + config.task[t].deadline
            BY <1>2, <2>3, <2>4 DEF Demand
        <2>. QED  BY <1>1, <1>2, <1>3, <1>4, <1>6, <2>1, <2>2, <2>4, <2>5, <2>6 DEF j, t, job
    <1>. QED  BY <1>5, <1>6

-----------------------------------------------------------------------------
(* The busy account of a resource is what its jobs were charged. *)

\* Jobs that were released on r.
JobsOn(r) == {j \in Released : jobs[j].resource = r}

\* The inductive invariant of the accounts.
AccountsInv == IsFiniteSet(Released) /\ BusyAccountExact

\* What is summed: integers, over finite sets.
LEMMA AccountTypes ==
    ASSUME TypeOK, IsFiniteSet(Released)
    PROVE  /\ \A r : IsFiniteSet(JobsOn(r)) /\ JobsOn(r) \subseteq Released
           /\ \A j \in Released : Charged[j] \in Int /\ Charged[j] = Demand(config, j[1]) - jobs[j].remaining
           /\ \A t \in TaskIds : Demand(config, t) \in Nat
    <1>1. ASSUME NEW r PROVE IsFiniteSet(JobsOn(r)) /\ JobsOn(r) \subseteq Released
        <2>1. JobsOn(r) \subseteq Released
            BY DEF JobsOn
        <2>. QED  BY <2>1, FS_Subset
    <1>2. \A t \in TaskIds : Demand(config, t) \in Nat
        BY ConfigType, DemandType DEF Demand
    <1>3. ASSUME NEW j \in Released
          PROVE  Charged[j] \in Int /\ Charged[j] = Demand(config, j[1]) - jobs[j].remaining
        <2>1. j[1] \in TaskIds /\ jobs[j].remaining \in Nat
            BY DEF TypeOK, JobIdentity, JobState
        <2>2. Charged[j] = Demand(config, j[1]) - jobs[j].remaining
            BY DEF Charged
        <2>3. Demand(config, j[1]) \in Nat
            BY <1>2, <2>1
        <2>. QED  BY <2>1, <2>2, <2>3
    <1>. QED  BY <1>1, <1>2, <1>3

\* The account of r as a sum over the jobs released there.
LEMMA AccountOf ==
    BusyAccountExact <=> \A r \in ResourceIds : resource[r].busy = SumFunctionOnSet(Charged, JobsOn(r))
    BY DEF BusyAccountExact, JobsOn

\* A step that charges nothing keeps the accounts.
LEMMA NothingCharged ==
    ASSUME TypeOK, TypeOK', AccountsInv, UNCHANGED config, Released' = Released,
           \A k \in Released : jobs'[k].resource = jobs[k].resource /\ jobs'[k].remaining = jobs[k].remaining,
           \A r \in ResourceIds : resource'[r].busy = resource[r].busy
    PROVE  AccountsInv'
    <1>1. /\ IsFiniteSet(Released) /\ IsFiniteSet(Released)'
        BY DEF AccountsInv
    <1>2. \A j \in Released : Charged'[j] = Charged[j]
        <2>1. \A j \in Released : Charged'[j] = Demand(config', j[1]) - jobs'[j].remaining
            BY DEF Charged
        <2>. QED  BY <1>1, <2>1, AccountTypes
    <1>3. ASSUME NEW r \in ResourceIds
          PROVE  resource'[r].busy = SumFunctionOnSet(Charged', JobsOn(r)')
        <2>1. JobsOn(r)' = JobsOn(r)
            BY DEF JobsOn
        <2>2. IsFiniteSet(JobsOn(r)) /\ JobsOn(r) \subseteq Released
            BY <1>1, AccountTypes
        <2>3. SumFunctionOnSet(Charged, JobsOn(r)) = SumFunctionOnSet(Charged', JobsOn(r))
            BY <1>2, <2>2, SumOfSame
        <2>4. resource[r].busy = SumFunctionOnSet(Charged, JobsOn(r))
            BY AccountOf DEF AccountsInv
        <2>. QED  BY <2>1, <2>3, <2>4
    <1>4. BusyAccountExact'
        BY <1>3 DEF BusyAccountExact, JobsOn
    <1>. QED  BY <1>1, <1>4 DEF AccountsInv

\* Charging one job on r for an interval, and r for the same interval, keeps the accounts.
LEMMA IntervalCharged ==
    ASSUME TypeOK, TypeOK', AccountsInv, UNCHANGED config, Released' = Released,
           NEW p \in Released, NEW r, OnlyResource(r), jobs[p].resource = r,
           \A k \in Released : jobs'[k].resource = jobs[k].resource,
           \A k \in Released : k # p => jobs'[k].remaining = jobs[k].remaining,
           NEW w \in Int, jobs'[p].remaining = jobs[p].remaining - w,
           resource'[r].busy = resource[r].busy + w
    PROVE  AccountsInv'
    <1>1. /\ IsFiniteSet(Released) /\ IsFiniteSet(Released)'
        BY DEF AccountsInv
    <1>2. \A j \in Released : Charged'[j] = Demand(config, j[1]) - jobs'[j].remaining
        BY DEF Charged
    <1>3. \A j \in Released : Charged'[j] \in Int
        <2>1. \A j \in Released : j[1] \in TaskIds /\ jobs'[j].remaining \in Nat
            BY DEF TypeOK, JobIdentity, JobState
        <2>. QED  BY <1>1, <1>2, <2>1, AccountTypes
    <1>4. \A j \in Released : j # p => Charged'[j] = Charged[j]
        BY <1>1, <1>2, AccountTypes
    <1>5. Charged'[p] - Charged[p] = w
        <2>1. p[1] \in TaskIds /\ jobs[p].remaining \in Nat
            BY DEF TypeOK, JobIdentity, JobState
        <2>2. Demand(config, p[1]) \in Nat /\ Charged[p] = Demand(config, p[1]) - jobs[p].remaining
            BY <1>1, <2>1, AccountTypes
        <2>3. Charged'[p] = Demand(config, p[1]) - jobs'[p].remaining
            BY <1>2
        <2>. QED  BY <2>1, <2>2, <2>3
    <1>6. ASSUME NEW s \in ResourceIds
          PROVE  resource'[s].busy = SumFunctionOnSet(Charged', JobsOn(s)')
        <2>1. JobsOn(s)' = JobsOn(s)
            BY DEF JobsOn
        <2>2. IsFiniteSet(JobsOn(s)) /\ JobsOn(s) \subseteq Released
            BY <1>1, AccountTypes
        <2>3. resource[s].busy = SumFunctionOnSet(Charged, JobsOn(s))
            BY AccountOf DEF AccountsInv
        <2>4. CASE s = r
            <3>1. p \in JobsOn(s)
                BY <2>4 DEF JobsOn
            <3>2. \A j \in JobsOn(s) : Charged[j] \in Int /\ Charged'[j] \in Int
                BY <1>1, <1>3, <2>2, AccountTypes
            <3>3. \A j \in JobsOn(s) \ {p} : Charged[j] = Charged'[j]
                BY <1>4, <2>2
            <3>4. SumFunctionOnSet(Charged', JobsOn(s))
                      = SumFunctionOnSet(Charged, JobsOn(s)) + (Charged'[p] - Charged[p])
                BY <2>2, <3>1, <3>2, <3>3, SumChanges
            <3>. QED  BY <1>5, <2>1, <2>3, <2>4, <3>4
        <2>5. CASE s # r
            <3>1. p \notin JobsOn(s)
                BY <2>5 DEF JobsOn
            <3>2. SumFunctionOnSet(Charged, JobsOn(s)) = SumFunctionOnSet(Charged', JobsOn(s))
                BY <1>4, <2>2, <3>1, SumOfSame
            <3>. QED  BY <2>1, <2>3, <2>5, <3>2 DEF OnlyResource
        <2>. QED  BY <2>4, <2>5
    <1>7. BusyAccountExact'
        BY <1>6 DEF BusyAccountExact, JobsOn
    <1>. QED  BY <1>1, <1>7 DEF AccountsInv

\* A new job brings nothing to the account of its resource.
LEMMA NewJobUncharged ==
    ASSUME TypeOK, TypeOK', AccountsInv, UNCHANGED <<config, resource>>, NEW j, j \notin Released,
           Released' = Released \cup {j}, \A k \in Released : jobs'[k] = jobs[k],
           jobs'[j].remaining = Demand(config, j[1])
    PROVE  AccountsInv'
    <1>1. IsFiniteSet(Released) /\ IsFiniteSet(Released') /\ IsFiniteSet(Released)'
        BY FS_AddElement DEF AccountsInv
    <1>2. \A k \in Released' : Charged'[k] = Demand(config, k[1]) - jobs'[k].remaining
        BY DEF Charged
    <1>3. \A k \in Released : Charged'[k] = Charged[k] /\ Charged[k] \in Int
        BY <1>1, <1>2, AccountTypes
    <1>4. Charged'[j] = 0
        <2>1. j[1] \in TaskIds
            BY DEF TypeOK, JobIdentity
        <2>2. Demand(config, j[1]) \in Nat
            BY <1>1, <2>1, AccountTypes
        <2>. QED  BY <1>2, <2>2
    <1>5. ASSUME NEW s \in ResourceIds
          PROVE  resource'[s].busy = SumFunctionOnSet(Charged', JobsOn(s)')
        <2>1. IsFiniteSet(JobsOn(s)) /\ JobsOn(s) \subseteq Released
            BY <1>1, AccountTypes
        <2>2. resource[s].busy = SumFunctionOnSet(Charged, JobsOn(s))
            BY AccountOf DEF AccountsInv
        <2>3. SumFunctionOnSet(Charged, JobsOn(s)) = SumFunctionOnSet(Charged', JobsOn(s))
            BY <1>3, <2>1, SumOfSame
        <2>4. CASE JobsOn(s)' = JobsOn(s)
            BY <2>2, <2>3, <2>4
        <2>5. CASE JobsOn(s)' = JobsOn(s) \cup {j}
            <3>1. \A k \in JobsOn(s) \cup {j} : Charged'[k] \in Int
                BY <1>3, <1>4, <2>1
            <3>2. SumFunctionOnSet(Charged', JobsOn(s) \cup {j})
                      = SumFunctionOnSet(Charged', JobsOn(s)) + Charged'[j]
                BY <2>1, <3>1, SumGains
            <3>3. SumFunctionOnSet(Charged', JobsOn(s)) \in Int
                BY <2>1, <3>1, SumType
            <3>. QED  BY <1>4, <2>2, <2>3, <2>5, <3>2, <3>3
        <2>6. JobsOn(s)' = JobsOn(s) \/ JobsOn(s)' = JobsOn(s) \cup {j}
            <3>1. JobsOn(s)' = {k \in Released \cup {j} : jobs'[k].resource = s}
                BY DEF JobsOn
            <3>2. CASE jobs'[j].resource = s
                BY <3>1, <3>2 DEF JobsOn
            <3>3. CASE jobs'[j].resource # s
                BY <3>1, <3>3 DEF JobsOn
            <3>. QED  BY <3>2, <3>3
        <2>. QED  BY <2>4, <2>5, <2>6
    <1>6. BusyAccountExact'
        BY <1>5 DEF BusyAccountExact, JobsOn
    <1>. QED  BY <1>1, <1>6 DEF AccountsInv

\* Every step of the engine keeps the accounts.
LEMMA NextAccounts == KernelInv /\ AccountsInv /\ [Next]_vars => AccountsInv'
    <1>. SUFFICES ASSUME KernelInv, AccountsInv, [Next]_vars PROVE AccountsInv'
        OBVIOUS
    <1>1. TypeOK /\ TypeOK' /\ MembershipAgrees
        BY NextStateInv DEF KernelInv, StateInv
    <1>2. tick \in Nat /\ \A r \in ResourceIds : resource[r].since \in Int
        BY <1>1 DEF TypeOK, ResourceState
    <1>3. \A k \in Released : jobs[k].remaining \in Nat
        BY <1>1 DEF TypeOK, JobState
    <1>4. ASSUME UNCHANGED <<config, jobs, resource>> PROVE AccountsInv'
        <2>1. Released' = Released
            BY <1>4 DEF Released
        <2>. QED  BY <1>1, <1>4, <2>1, NothingCharged
    <1>5. CASE Settle
        <2>1. ASSUME NEW e \in queue.events, AcceptCompletion(e) PROVE AccountsInv'
            <3>. DEFINE j == JobOf(e)
                        r == e.entities.resource
            <3>1. /\ OnlyJob(j) /\ OnlyResource(r) /\ jobs[j].resource = r /\ UNCHANGED config
                  /\ jobs[j].remaining = tick - resource[r].since /\ jobs'[j].remaining = 0
                  /\ resource'[r].busy = resource[r].busy + (tick - resource[r].since)
                BY <2>1, CompletionEffect
            <3>. HIDE DEF j, r
            <3>2. PICK w \in Int : w = tick - resource[r].since
                BY <1>2, <3>1 DEF OnlyResource
            <3>3. jobs'[j].remaining = jobs[j].remaining - w /\ resource'[r].busy = resource[r].busy + w
                BY <3>1, <3>2
            <3>. QED  BY <1>1, <3>1, <3>3, IntervalCharged DEF OnlyJob
        <2>2. ASSUME NEW e \in queue.events, IgnoreStaleCompletion(e) \/ DeliverMessage(e)
              PROVE  AccountsInv'
            BY <1>4, <2>2 DEF IgnoreStaleCompletion, DeliverMessage
        <2>3. ASSUME NEW e \in queue.events, CheckDeadline(e) PROVE AccountsInv'
            <3>1. UNCHANGED <<config, resource>>
                  /\ (jobs' = jobs \/ \E j \in Released : jobs' = [jobs EXCEPT ![j].missed = TRUE])
                BY <2>3 DEF CheckDeadline, DeadlineMatches
            <3>2. CASE jobs' # jobs
                <4>1. PICK j \in Released : jobs' = [jobs EXCEPT ![j].missed = TRUE]
                    BY <3>1, <3>2
                <4>2. jobs[j] \in JobState
                    BY <1>1 DEF TypeOK
                <4>3. Released' = Released
                      /\ \A k \in Released : jobs'[k].resource = jobs[k].resource
                                             /\ jobs'[k].remaining = jobs[k].remaining
                    BY <1>1, <4>1, <4>2 DEF TypeOK, Released, JobState
                <4>. QED  BY <1>1, <3>1, <4>3, NothingCharged
            <3>. QED  BY <1>4, <3>1, <3>2
        <2>. QED  BY <1>5, <2>1, <2>2, <2>3 DEF Settle
    <1>6. CASE Schedule
        <2>1. ASSUME NEW r \in ResourceIds, LeaveResource(r) PROVE AccountsInv'
            BY <1>4, <2>1 DEF LeaveResource
        <2>2. ASSUME NEW r \in ResourceIds, NEW j \in ready[r], Dispatch(r, j) PROVE AccountsInv'
            <3>1. /\ UNCHANGED config
                  /\ \/ UNCHANGED <<jobs, resource>>
                     \/ /\ OnlyJob(j) /\ OnlyResource(r) /\ jobs'[j].remaining = jobs[j].remaining
                        /\ resource'[r].busy = resource[r].busy
                BY <2>2, DispatchEffect
            <3>2. CASE OnlyJob(j) /\ OnlyResource(r) /\ jobs'[j].remaining = jobs[j].remaining
                       /\ resource'[r].busy = resource[r].busy
                <4>1. /\ Released' = Released
                      /\ \A k \in Released : jobs'[k].resource = jobs[k].resource
                                             /\ jobs'[k].remaining = jobs[k].remaining
                      /\ \A s \in ResourceIds : resource'[s].busy = resource[s].busy
                    BY <3>2 DEF OnlyJob, OnlyResource
                <4>. QED  BY <1>1, <3>1, <4>1, NothingCharged
            <3>. QED  BY <1>4, <3>1, <3>2
        <2>3. ASSUME NEW r \in ResourceIds, NEW j \in ready[r], Preempt(r, j) PROVE AccountsInv'
            <3>. DEFINE p == resource[r].running
            <3>1. /\ UNCHANGED config /\ j \in Released /\ p \in Released /\ p # j
                  /\ Released' = Released /\ \A k \in Released : k \notin {j, p} => jobs'[k] = jobs[k]
                  /\ jobs[j].resource = r /\ jobs[p].resource = r
                  /\ jobs'[j].resource = r /\ jobs'[p].resource = r
                  /\ jobs'[j].remaining = jobs[j].remaining
                  /\ jobs'[p].remaining = jobs[p].remaining - (tick - resource[r].since)
                  /\ OnlyResource(r)
                  /\ resource'[r].busy = resource[r].busy + (tick - resource[r].since)
                BY <2>3, PreemptEffect
            <3>. HIDE DEF p
            <3>2. PICK w \in Int : w = tick - resource[r].since
                BY <1>2, <3>1 DEF OnlyResource
            <3>3. \A k \in Released : jobs'[k].resource = jobs[k].resource
                BY <3>1
            <3>4. \A k \in Released : k # p => jobs'[k].remaining = jobs[k].remaining
                BY <3>1
            <3>5. jobs'[p].remaining = jobs[p].remaining - w /\ resource'[r].busy = resource[r].busy + w
                BY <3>1, <3>2
            <3>. QED  BY <1>1, <3>1, <3>3, <3>4, <3>5, IntervalCharged
        <2>. QED  BY <1>6, <2>1, <2>2, <2>3 DEF Schedule
    <1>7. CASE ProcessReleases
        <2>1. ASSUME NEW e \in batch, ReleaseJob(e) PROVE AccountsInv'
            <3>. DEFINE j == JobOf(e)
            <3>1. /\ UNCHANGED <<config, resource>> /\ j \notin Released /\ j[1] = e.entities.task
                  /\ \/ UNCHANGED jobs
                     \/ /\ Released' = Released \cup {j} /\ \A k \in Released : jobs'[k] = jobs[k]
                        /\ jobs'[j].remaining = Demand(config, e.entities.task)
                BY <2>1, ReleaseEffect DEF JobOf
            <3>. HIDE DEF j
            <3>. QED  BY <1>1, <1>4, <3>1, NewJobUncharged
        <2>. QED  BY <1>4, <1>7, <2>1 DEF ProcessReleases, CollectReleases, ReleaseRefused
    <1>8. CASE \/ \E t \in TaskIds : QueueFirstRelease(t)
               \/ Initialized \/ (\E e \in queue.events : BeginTick(e)) \/ FinishEmpty
               \/ \E d \in TaskIds : PublishRoute(d)
        BY <1>4, <1>8 DEF QueueFirstRelease, Initialized, BeginTick, FinishEmpty, PublishRoute
    <1>9. CASE Act
        BY <1>4, <1>9 DEF Act, EndTick, RecordDecision, SendMessage
    <1>10. CASE StepAfterEnd \/ UNCHANGED vars
        BY <1>4, <1>10 DEF StepAfterEnd, vars
    <1>. QED  BY <1>5, <1>6, <1>7, <1>8, <1>9, <1>10 DEF Next

\* A run begins with empty accounts.
LEMMA InitAccounts == Init => AccountsInv
    <1>. SUFFICES ASSUME Init PROVE AccountsInv
        OBVIOUS
    <1>1. Released = {} /\ \A r \in ResourceIds : resource[r].busy = 0 /\ JobsOn(r) = {}
        BY DEF Init, Released, IdleResource, JobsOn
    <1>. QED  BY <1>1, AccountOf, SumOfNone, FS_EmptySet DEF AccountsInv

\* The running intervals, the busy accounts and the work charged to the jobs agree to the
\* tick, whatever was preempted, resumed or completed in between
\* (Resource in runtime_state.cpp:76-204).
THEOREM AccountsAgree == Spec => []AccountsExact
    <1>1. KernelInv /\ AccountsInv /\ [Next]_vars => AccountsInv'
        BY NextAccounts
    <1>2. HistoryInv => KernelInv /\ IntervalsExact /\ BusyWithinTime
        BY DEF HistoryInv, KernelInv
    <1>3. IntervalsExact /\ BusyWithinTime /\ AccountsInv => AccountsExact
        BY DEF AccountsInv, AccountsExact
    <1>. QED  BY <1>1, <1>2, <1>3, InitAccounts, HistoryInvariance, PTL DEF Spec

-----------------------------------------------------------------------------
(***************************************************************************)
(* The trace tells what every job did.  Starts, resumes and preemptions    *)
(* are decided in one loop and appended to the trace in a later one, so    *)
(* between the two they are looked for among the pending events.           *)
(***************************************************************************)

Begins == {"JobStart", "JobResume"}
Ends == {"JobPreempt", "JobFinish"}

\* Decisions that are not in the trace yet.
Decisions == Of(queue, "Scheduling")

\* The events of S that tell something of j.
About(S, j, types) == {e \in S : e.type \in types /\ JobOf(e) = j}

TicksIn(S) == [e \in S |-> e.tick]

\* How many events of these types j has, and the sum of their ticks.
Count(j, types) == Cardinality(TraceOf(j, types)) + Cardinality(About(Decisions, j, types))
Time(j, types) == SumFunctionOnSet(TraceTicks, TraceOf(j, types))
                      + SumFunctionOnSet(TicksIn(Decisions), About(Decisions, j, types))

\* The beginning of the interval that is still open.
OpenSince(j) == IF jobs[j].lifecycle = "Running" THEN resource[jobs[j].resource].since ELSE 0

\* The ledger of one job: beginnings and ends, and the work between them.
LedgerOf(j) ==
    /\ Count(j, Begins) = Count(j, Ends) + IF jobs[j].lifecycle = "Running" THEN 1 ELSE 0
    /\ Count(j, {"JobPreempt"}) = jobs[j].preemptions
    /\ Count(j, {"JobRelease"}) = 1
    /\ Count(j, {"JobStart"}) = IF Started(jobs[j]) THEN 1 ELSE 0
    /\ Time(j, Ends) + OpenSince(j) - Time(j, Begins) = Demand(config, j[1]) - jobs[j].remaining

\* The type of a pending event is that of its phase.
EventTyped(e) ==
    /\ e.phase = "ExecutionCompletion" => e.type = "JobFinish"
    /\ e.phase = "DeadlineCheck" => e.type = "DeadlineMiss"
    /\ e.phase = "MessageDelivery" => e.type = "MessageDelivery"
    /\ e.phase = "CausedAction" => e.type = "MessageSend"
    /\ e.phase = "Scheduling" => e.type \in {"JobStart", "JobResume", "JobPreempt"}

JobEventTypes == {"JobRelease", "JobStart", "JobResume", "JobPreempt", "JobFinish"}

\* Decisions are finitely many, numbered below the next number, of no later tick, and about
\* released jobs; so is what the trace tells of jobs.
DecisionsNumbered ==
    /\ IsFiniteSet(Decisions)
    /\ \A e \in Decisions :
           e.sequence < queue.next_sequence /\ e.tick <= tick /\ JobOf(e) \in Released
    /\ \A e \in queue.events : EventTyped(e)
    /\ \A i \in DOMAIN trace : trace[i].type \in JobEventTypes => JobOf(trace[i]) \in Released

\* The inductive invariant of the ledgers.
LedgerInv == DecisionsNumbered /\ \A j \in Released : LedgerOf(j)

-----------------------------------------------------------------------------
(* What one more event adds to the counts and times. *)

Mark(e, j, types) == IF e.type \in types /\ JobOf(e) = j THEN 1 ELSE 0

Stamp(e, j, types) == IF e.type \in types /\ JobOf(e) = j THEN e.tick ELSE 0

\* A step notes e, or nothing, about the jobs.
Noted(e) ==
    \A j, types : /\ Count(j, types)' = Count(j, types) + Mark(e, j, types)
                  /\ Time(j, types)' = Time(j, types) + Stamp(e, j, types)

NothingNoted ==
    \A j, types : Count(j, types)' = Count(j, types) /\ Time(j, types)' = Time(j, types)

\* What the trace tells of a job is finite.
LEMMA TraceFinite ==
    ASSUME TypeOK
    PROVE  \A j, types :
               /\ IsFiniteSet(TraceOf(j, types)) /\ Cardinality(TraceOf(j, types)) \in Nat
               /\ \A i \in TraceOf(j, types) : TraceTicks[i] \in Nat
               /\ SumFunctionOnSet(TraceTicks, TraceOf(j, types)) \in Nat
    <1>. TAKE j, types
    <1>1. trace \in Seq(Event) /\ DOMAIN trace = 1 .. Len(trace) /\ Len(trace) \in Nat
        BY DEF TypeOK
    <1>2. IsFiniteSet(1 .. Len(trace))
        BY <1>1, FS_Interval
    <1>3. TraceOf(j, types) \subseteq 1 .. Len(trace)
        BY <1>1 DEF TraceOf
    <1>4. IsFiniteSet(TraceOf(j, types)) /\ Cardinality(TraceOf(j, types)) \in Nat
        BY <1>2, <1>3, FS_Subset, FS_CardinalityType
    <1>5. \A i \in TraceOf(j, types) : TraceTicks[i] \in Nat
        <2>1. \A i \in DOMAIN trace : TraceTicks[i] = trace[i].tick /\ trace[i] \in Event
            BY <1>1 DEF TraceTicks
        <2>2. \A i \in DOMAIN trace : TraceTicks[i] \in Nat
            BY <2>1 DEF Event
        <2>. QED  BY <1>1, <1>3, <2>2
    <1>6. SumFunctionOnSet(TraceTicks, TraceOf(j, types)) \in Nat
        BY <1>4, <1>5, SumType
    <1>. QED  BY <1>4, <1>5, <1>6

\* So are the decisions about it.
LEMMA AboutFinite ==
    ASSUME NEW S \in SUBSET Event, IsFiniteSet(S), NEW j, NEW types
    PROVE  /\ IsFiniteSet(About(S, j, types)) /\ Cardinality(About(S, j, types)) \in Nat
           /\ \A e \in About(S, j, types) : TicksIn(S)[e] \in Nat
           /\ SumFunctionOnSet(TicksIn(S), About(S, j, types)) \in Nat
    <1>1. About(S, j, types) \subseteq S
        BY DEF About
    <1>2. IsFiniteSet(About(S, j, types)) /\ Cardinality(About(S, j, types)) \in Nat
        BY <1>1, FS_Subset, FS_CardinalityType
    <1>3. \A e \in About(S, j, types) : TicksIn(S)[e] \in Nat
        BY <1>1 DEF TicksIn, Event
    <1>4. SumFunctionOnSet(TicksIn(S), About(S, j, types)) \in Nat
        BY <1>2, <1>3, SumType
    <1>. QED  BY <1>2, <1>3, <1>4

\* An event appended to the trace is noted there.
LEMMA TraceNotes ==
    ASSUME TypeOK, NEW e \in Event, trace' = Append(trace, e), NEW j, NEW types
    PROVE  /\ Cardinality(TraceOf(j, types)') = Cardinality(TraceOf(j, types)) + Mark(e, j, types)
           /\ SumFunctionOnSet(TraceTicks', TraceOf(j, types)')
                  = SumFunctionOnSet(TraceTicks, TraceOf(j, types)) + Stamp(e, j, types)
    <1>. DEFINE n == Len(trace) + 1
    <1>1. /\ trace \in Seq(Event) /\ DOMAIN trace = 1 .. Len(trace) /\ Len(trace) \in Nat
          /\ DOMAIN trace' = 1 .. n /\ trace'[n] = e /\ n \in Nat
          /\ \A i \in DOMAIN trace : trace'[i] = trace[i]
        BY DEF TypeOK
    <1>2. PICK S : S = TraceOf(j, types)
        OBVIOUS
    <1>3. IsFiniteSet(S) /\ S \subseteq DOMAIN trace /\ n \notin S
        <2>1. IsFiniteSet(S)
            BY <1>2, TraceFinite
        <2>2. S \subseteq DOMAIN trace
            BY <1>2 DEF TraceOf
        <2>. QED  BY <1>1, <2>1, <2>2
    <1>4. TraceOf(j, types)' = {i \in DOMAIN trace' : trace'[i].type \in types /\ JobOf(trace'[i]) = j}
        BY DEF TraceOf, JobOf
    <1>5. \A i \in DOMAIN trace : i \in S <=> trace[i].type \in types /\ JobOf(trace[i]) = j
        BY <1>2 DEF TraceOf, JobOf
    <1>6. \A i \in DOMAIN trace' : TraceTicks'[i] = trace'[i].tick
        BY DEF TraceTicks
    <1>7. \A i \in S : TraceTicks'[i] = TraceTicks[i]
        BY <1>1, <1>3, <1>6 DEF TraceTicks
    <1>8. SumFunctionOnSet(TraceTicks, S) = SumFunctionOnSet(TraceTicks', S)
        BY <1>3, <1>7, SumOfSame
    <1>9. SumFunctionOnSet(TraceTicks, S) \in Nat /\ Cardinality(S) \in Nat
        BY <1>2, TraceFinite
    <1>10. \A i \in S \cup {n} : TraceTicks'[i] \in Int
        BY <1>1, <1>2, <1>6, <1>7, TraceFinite DEF Event
    <1>11. DOMAIN trace' = DOMAIN trace \cup {n}
        BY <1>1
    <1>. HIDE DEF n
    <1>12. CASE e.type \in types /\ JobOf(e) = j
        <2>1. TraceOf(j, types)' = S \cup {n}
            BY <1>1, <1>3, <1>4, <1>5, <1>11, <1>12
        <2>2. Cardinality(S \cup {n}) = Cardinality(S) + 1
            BY <1>3, FS_AddElement
        <2>3. SumFunctionOnSet(TraceTicks', S \cup {n}) = SumFunctionOnSet(TraceTicks', S) + TraceTicks'[n]
            BY <1>3, <1>10, SumGains
        <2>4. TraceTicks'[n] = e.tick
            BY <1>1, <1>6, <1>11
        <2>. QED  BY <1>2, <1>8, <1>12, <2>1, <2>2, <2>3, <2>4 DEF Mark, Stamp
    <1>13. CASE ~ (e.type \in types /\ JobOf(e) = j)
        <2>1. TraceOf(j, types)' = S
            BY <1>1, <1>3, <1>4, <1>5, <1>11, <1>13
        <2>. QED  BY <1>2, <1>8, <1>9, <1>13, <2>1 DEF Mark, Stamp
    <1>. QED  BY <1>12, <1>13

\* An event added to a set of events is noted in it.
LEMMA SetNotes ==
    ASSUME NEW S \in SUBSET Event, IsFiniteSet(S), NEW e \in Event, e \notin S, NEW j, NEW types
    PROVE  /\ Cardinality(About(S \cup {e}, j, types)) = Cardinality(About(S, j, types)) + Mark(e, j, types)
           /\ SumFunctionOnSet(TicksIn(S \cup {e}), About(S \cup {e}, j, types))
                  = SumFunctionOnSet(TicksIn(S), About(S, j, types)) + Stamp(e, j, types)
    <1>. DEFINE T == About(S, j, types)
                f == TicksIn(S)
                g == TicksIn(S \cup {e})
    <1>1. /\ IsFiniteSet(T) /\ Cardinality(T) \in Nat /\ SumFunctionOnSet(f, T) \in Nat
          /\ \A x \in T : f[x] \in Nat
        BY AboutFinite
    <1>2. T \subseteq S /\ e \notin T
        BY DEF About
    <1>3. (\A x \in T : f[x] = g[x]) /\ g[e] = e.tick /\ e.tick \in Nat
        BY <1>2 DEF TicksIn, Event
    <1>4. About(S \cup {e}, j, types) = IF e.type \in types /\ JobOf(e) = j THEN T \cup {e} ELSE T
        BY DEF About
    <1>. HIDE DEF T, f, g
    <1>5. SumFunctionOnSet(f, T) = SumFunctionOnSet(g, T)
        BY <1>1, <1>3, SumOfSame
    <1>6. CASE e.type \in types /\ JobOf(e) = j
        <2>1. Cardinality(T \cup {e}) = Cardinality(T) + 1
            BY <1>1, <1>2, FS_AddElement
        <2>2. SumFunctionOnSet(g, T \cup {e}) = SumFunctionOnSet(g, T) + g[e]
            <3>1. \A x \in T \cup {e} : g[x] \in Int
                BY <1>1, <1>3
            <3>. QED  BY <1>1, <1>2, <3>1, SumGains
        <2>. QED  BY <1>3, <1>4, <1>5, <1>6, <2>1, <2>2 DEF Mark, Stamp, T, f, g
    <1>7. CASE ~ (e.type \in types /\ JobOf(e) = j)
        BY <1>1, <1>4, <1>5, <1>7 DEF Mark, Stamp, T, f, g
    <1>. QED  BY <1>6, <1>7

\* What the ledgers are made of.
LEMMA LedgerParts ==
    ASSUME TypeOK, DecisionsNumbered
    PROVE  /\ Decisions \in SUBSET Event /\ IsFiniteSet(Decisions)
           /\ \A j, types : Count(j, types) \in Nat /\ Time(j, types) \in Nat
    <1>1. Decisions \in SUBSET Event /\ IsFiniteSet(Decisions)
        BY PendingType DEF Decisions, Of, DecisionsNumbered
    <1>2. ASSUME NEW j, NEW types PROVE Count(j, types) \in Nat /\ Time(j, types) \in Nat
        <2>1. /\ Cardinality(TraceOf(j, types)) \in Nat
              /\ SumFunctionOnSet(TraceTicks, TraceOf(j, types)) \in Nat
            BY TraceFinite
        <2>2. /\ Cardinality(About(Decisions, j, types)) \in Nat
              /\ SumFunctionOnSet(TicksIn(Decisions), About(Decisions, j, types)) \in Nat
            BY <1>1, AboutFinite
        <2>. QED  BY <2>1, <2>2 DEF Count, Time
    <1>. QED  BY <1>1, <1>2

\* An event is recorded, and no decision taken.
LEMMA RecordedIsNoted ==
    ASSUME TypeOK, DecisionsNumbered, NEW e \in Event, trace' = Append(trace, e),
           Decisions' = Decisions
    PROVE  Noted(e)
    <1>1. ASSUME NEW j, NEW types
          PROVE  /\ Count(j, types)' = Count(j, types) + Mark(e, j, types)
                 /\ Time(j, types)' = Time(j, types) + Stamp(e, j, types)
        <2>1. /\ Cardinality(TraceOf(j, types)') = Cardinality(TraceOf(j, types)) + Mark(e, j, types)
              /\ SumFunctionOnSet(TraceTicks', TraceOf(j, types)')
                     = SumFunctionOnSet(TraceTicks, TraceOf(j, types)) + Stamp(e, j, types)
            BY TraceNotes
        <2>2. /\ Cardinality(TraceOf(j, types)) \in Nat
              /\ SumFunctionOnSet(TraceTicks, TraceOf(j, types)) \in Nat
            BY TraceFinite
        <2>3. /\ Cardinality(About(Decisions, j, types)) \in Nat
              /\ SumFunctionOnSet(TicksIn(Decisions), About(Decisions, j, types)) \in Nat
            BY LedgerParts, AboutFinite
        <2>4. Mark(e, j, types) \in Nat /\ Stamp(e, j, types) \in Nat
            BY DEF Mark, Stamp, Event
        <2>. QED  BY <2>1, <2>2, <2>3, <2>4 DEF Count, Time
    <1>. QED  BY <1>1 DEF Noted

\* A decision is queued, and nothing recorded.
LEMMA QueuedIsNoted ==
    ASSUME TypeOK, DecisionsNumbered, NEW e \in Event, e \notin Decisions, UNCHANGED trace,
           Decisions' = Decisions \cup {e}
    PROVE  Noted(e)
    <1>1. ASSUME NEW j, NEW types
          PROVE  /\ Count(j, types)' = Count(j, types) + Mark(e, j, types)
                 /\ Time(j, types)' = Time(j, types) + Stamp(e, j, types)
        <2>. DEFINE D == Decisions
        <2>. HIDE DEF D
        <2>1. /\ Cardinality(About(D \cup {e}, j, types)) = Cardinality(About(D, j, types)) + Mark(e, j, types)
              /\ SumFunctionOnSet(TicksIn(D \cup {e}), About(D \cup {e}, j, types))
                     = SumFunctionOnSet(TicksIn(D), About(D, j, types)) + Stamp(e, j, types)
            <3>1. D \in SUBSET Event /\ IsFiniteSet(D) /\ e \notin D
                BY LedgerParts DEF D
            <3>. QED  BY <3>1, SetNotes
        <2>2. /\ Cardinality(TraceOf(j, types)) \in Nat
              /\ SumFunctionOnSet(TraceTicks, TraceOf(j, types)) \in Nat
            BY TraceFinite
        <2>3. /\ Cardinality(About(Decisions, j, types)) \in Nat
              /\ SumFunctionOnSet(TicksIn(Decisions), About(Decisions, j, types)) \in Nat
            BY LedgerParts, AboutFinite
        <2>4. Mark(e, j, types) \in Nat /\ Stamp(e, j, types) \in Nat
            BY DEF Mark, Stamp, Event
        <2>5. TraceOf(j, types)' = TraceOf(j, types) /\ TraceTicks' = TraceTicks
            BY DEF TraceOf, TraceTicks
        <2>. QED  BY <2>1, <2>2, <2>3, <2>4, <2>5 DEF Count, Time, D
    <1>. QED  BY <1>1 DEF Noted

\* A preemption queues two decisions.
LEMMA BothAreNoted ==
    ASSUME TypeOK, DecisionsNumbered, NEW p \in Event, NEW e \in Event, p \notin Decisions,
           e \notin Decisions \cup {p}, UNCHANGED trace,
           Decisions' = (Decisions \cup {p}) \cup {e}
    PROVE  \A j, types :
               /\ Count(j, types)' = Count(j, types) + Mark(p, j, types) + Mark(e, j, types)
               /\ Time(j, types)' = Time(j, types) + Stamp(p, j, types) + Stamp(e, j, types)
    <1>. TAKE j, types
    <1>. DEFINE D == Decisions
                F == D \cup {p}
    <1>1. /\ Cardinality(About(F, j, types)) = Cardinality(About(D, j, types)) + Mark(p, j, types)
          /\ SumFunctionOnSet(TicksIn(F), About(F, j, types))
                 = SumFunctionOnSet(TicksIn(D), About(D, j, types)) + Stamp(p, j, types)
        BY LedgerParts, SetNotes
    <1>2. F \in SUBSET Event /\ IsFiniteSet(F)
        BY LedgerParts, FS_AddElement
    <1>3. Decisions' = F \cup {e} /\ e \notin F
        OBVIOUS
    <1>. HIDE DEF F
    <1>4. /\ Cardinality(About(F \cup {e}, j, types)) = Cardinality(About(F, j, types)) + Mark(e, j, types)
          /\ SumFunctionOnSet(TicksIn(F \cup {e}), About(F \cup {e}, j, types))
                 = SumFunctionOnSet(TicksIn(F), About(F, j, types)) + Stamp(e, j, types)
        BY <1>2, <1>3, SetNotes
    <1>5. /\ Cardinality(TraceOf(j, types)) \in Nat
          /\ SumFunctionOnSet(TraceTicks, TraceOf(j, types)) \in Nat
        BY TraceFinite
    <1>6. /\ Cardinality(About(D, j, types)) \in Nat
          /\ SumFunctionOnSet(TicksIn(D), About(D, j, types)) \in Nat
        BY LedgerParts, AboutFinite
    <1>7. /\ Mark(p, j, types) \in Nat /\ Stamp(p, j, types) \in Nat
          /\ Mark(e, j, types) \in Nat /\ Stamp(e, j, types) \in Nat
        BY DEF Mark, Stamp, Event
    <1>8. TraceOf(j, types)' = TraceOf(j, types) /\ TraceTicks' = TraceTicks
        BY DEF TraceOf, TraceTicks
    <1>9. /\ Count(j, types)' = Cardinality(TraceOf(j, types)) + Cardinality(About(F \cup {e}, j, types))
          /\ Time(j, types)' = SumFunctionOnSet(TraceTicks, TraceOf(j, types))
                                   + SumFunctionOnSet(TicksIn(F \cup {e}), About(F \cup {e}, j, types))
        BY <1>3, <1>8 DEF Count, Time
    <1>10. Count(j, types)' = Count(j, types) + Mark(p, j, types) + Mark(e, j, types)
        BY <1>1, <1>4, <1>5, <1>6, <1>7, <1>9 DEF Count
    <1>11. Time(j, types)' = Time(j, types) + Stamp(p, j, types) + Stamp(e, j, types)
        BY <1>1, <1>4, <1>5, <1>6, <1>7, <1>9 DEF Time
    <1>. QED  BY <1>10, <1>11

\* A decision moves from the queue to the trace.
LEMMA MovedIsNoted ==
    ASSUME TypeOK, DecisionsNumbered, NEW e \in Decisions, trace' = Append(trace, e),
           Decisions' = Decisions \ {e}
    PROVE  NothingNoted
    <1>1. ASSUME NEW j, NEW types
          PROVE  Count(j, types)' = Count(j, types) /\ Time(j, types)' = Time(j, types)
        <2>. DEFINE R == Decisions \ {e}
        <2>1. e \in Event /\ R \in SUBSET Event /\ IsFiniteSet(R) /\ e \notin R /\ R \cup {e} = Decisions
            BY LedgerParts, FS_Subset
        <2>2. Decisions' = R
            OBVIOUS
        <2>. HIDE DEF R
        <2>3. /\ Cardinality(TraceOf(j, types)') = Cardinality(TraceOf(j, types)) + Mark(e, j, types)
              /\ SumFunctionOnSet(TraceTicks', TraceOf(j, types)')
                     = SumFunctionOnSet(TraceTicks, TraceOf(j, types)) + Stamp(e, j, types)
            BY <2>1, TraceNotes
        <2>4. /\ Cardinality(About(R \cup {e}, j, types)) = Cardinality(About(R, j, types)) + Mark(e, j, types)
              /\ SumFunctionOnSet(TicksIn(R \cup {e}), About(R \cup {e}, j, types))
                     = SumFunctionOnSet(TicksIn(R), About(R, j, types)) + Stamp(e, j, types)
            BY <2>1, SetNotes
        <2>5. /\ Cardinality(TraceOf(j, types)) \in Nat
              /\ SumFunctionOnSet(TraceTicks, TraceOf(j, types)) \in Nat
            BY TraceFinite
        <2>6. /\ Cardinality(About(R, j, types)) \in Nat
              /\ SumFunctionOnSet(TicksIn(R), About(R, j, types)) \in Nat
            BY <2>1, AboutFinite
        <2>7. Mark(e, j, types) \in Nat /\ Stamp(e, j, types) \in Nat
            BY <2>1 DEF Mark, Stamp, Event
        <2>8. /\ Count(j, types)' = Cardinality(TraceOf(j, types)') + Cardinality(About(R, j, types))
              /\ Time(j, types)' = SumFunctionOnSet(TraceTicks', TraceOf(j, types)')
                                       + SumFunctionOnSet(TicksIn(R), About(R, j, types))
            BY <2>2 DEF Count, Time
        <2>9. /\ Count(j, types) = Cardinality(TraceOf(j, types)) + Cardinality(About(R \cup {e}, j, types))
              /\ Time(j, types) = SumFunctionOnSet(TraceTicks, TraceOf(j, types))
                                       + SumFunctionOnSet(TicksIn(R \cup {e}), About(R \cup {e}, j, types))
            BY <2>1 DEF Count, Time
        <2>. QED  BY <2>3, <2>4, <2>5, <2>6, <2>7, <2>8, <2>9
    <1>. QED  BY <1>1 DEF NothingNoted

\* Neither trace nor decisions change.
LEMMA UnchangedIsNoted == ASSUME UNCHANGED trace, Decisions' = Decisions PROVE NothingNoted
    BY DEF NothingNoted, Count, Time, TraceOf, TraceTicks

\* What is noted about others, or of a type that is not counted, adds nothing.
LEMMA MarkMeans ==
    ASSUME NEW e
    PROVE  /\ \A j, types : JobOf(e) # j => Mark(e, j, types) = 0 /\ Stamp(e, j, types) = 0
           /\ \A j, types : e.type \notin types => Mark(e, j, types) = 0 /\ Stamp(e, j, types) = 0
           /\ \A types : e.type \in types => /\ Mark(e, JobOf(e), types) = 1
                                             /\ Stamp(e, JobOf(e), types) = e.tick
    BY DEF Mark, Stamp

-----------------------------------------------------------------------------
(* Which events a step queues. *)

\* Queue p comes from q by insertions of typed events and by removals.
Extends(p, q) ==
    /\ p.next_sequence \in Nat /\ q.next_sequence <= p.next_sequence
    /\ \A x \in p.events : x \in q.events \/ EventTyped(x)

\* No decision is among the events inserted or removed.
Quiet(p, q) == Extends(p, q) /\ Of(p, "Scheduling") = Of(q, "Scheduling")

\* One insertion, after others.
LEMMA InsertionExtends ==
    ASSUME NEW q, NEW base, Extends(q, base), base.next_sequence \in Nat, NEW n, NEW phase, NEW type,
           NEW entities, NEW cause, EventTyped(ScheduledEvent(q, n, phase, type, entities, cause))
    PROVE  /\ Extends(Scheduled(q, n, phase, type, entities, cause), base)
           /\ Quiet(q, base) /\ phase # "Scheduling" =>
                  Quiet(Scheduled(q, n, phase, type, entities, cause), base)
    <1>. DEFINE p == Scheduled(q, n, phase, type, entities, cause)
                e == ScheduledEvent(q, n, phase, type, entities, cause)
    <1>1. /\ p.events = q.events \cup {e} /\ p.next_sequence = q.next_sequence + 1
          /\ phase # "Scheduling" => Of(p, "Scheduling") = Of(q, "Scheduling")
        BY ScheduledOf
    <1>. HIDE DEF p, e
    <1>2. EventTyped(e)
        BY DEF e
    <1>3. Extends(p, base)
        BY <1>1, <1>2 DEF Extends
    <1>. QED  BY <1>1, <1>3 DEF Quiet, p

\* No insertion, or a removal.
LEMMA RemovalExtends ==
    ASSUME NEW q \in EventQueueState, NEW gone
    PROVE  LET p == [q EXCEPT !.events = q.events \ gone]
           IN  /\ Extends(q, q) /\ Quiet(q, q) /\ Extends(p, q)
               /\ (\A x \in gone : x.phase # "Scheduling") => Quiet(p, q)
    <1>. DEFINE p == [q EXCEPT !.events = q.events \ gone]
    <1>1. q.next_sequence \in Nat /\ p.next_sequence = q.next_sequence /\ p.events = q.events \ gone
        BY DEF EventQueueState
    <1>. HIDE DEF p
    <1>2. Extends(q, q) /\ Quiet(q, q) /\ Extends(p, q)
        BY <1>1 DEF Extends, Quiet
    <1>3. ASSUME \A x \in gone : x.phase # "Scheduling" PROVE Quiet(p, q)
        BY <1>1, <1>2, <1>3 DEF Quiet, Of
    <1>. QED  BY <1>2, <1>3 DEF p

\* Taking one event.
LEMMA TakingExtends ==
    ASSUME NEW q \in EventQueueState, NEW e
    PROVE  Extends(Popped(q, e), q) /\ (e.phase # "Scheduling" => Quiet(Popped(q, e), q))
    BY RemovalExtends DEF Popped

\* What a start queues: one decision about the job, and typed events.
LEMMA StartNoted ==
    ASSUME NEW q, NEW base, Extends(q, base), base.next_sequence \in Nat, NEW r,
           NEW j \in JobIdentity
    PROVE  LET p == QueueAfterStart(q, r, j)
               s == ScheduledEvent(q, tick, "Scheduling",
                                   IF Started(jobs[j]) THEN "JobResume" ELSE "JobStart",
                                   JobEntities(j[1], j[2], r), Absent)
           IN  /\ Extends(p, base) /\ Of(p, "Scheduling") = Of(q, "Scheduling") \cup {s}
               /\ s.sequence < p.next_sequence /\ s.sequence = q.next_sequence
               /\ s.tick = tick /\ JobOf(s) = j /\ s.phase = "Scheduling"
               /\ s.type = (IF Started(jobs[j]) THEN "JobResume" ELSE "JobStart")
    <1>. DEFINE type == IF Started(jobs[j]) THEN "JobResume" ELSE "JobStart"
                entities == JobEntities(j[1], j[2], r)
                completion == tick + jobs[j].remaining
                started == Scheduled(q, tick, "Scheduling", type, entities, Absent)
                s == ScheduledEvent(q, tick, "Scheduling", type, entities, Absent)
                c == ScheduledEvent(started, completion, "ExecutionCompletion", "JobFinish", entities, Absent)
                p == QueueAfterStart(q, r, j)
    <1>1. p = IF completion <= config.stop
              THEN Scheduled(started, completion, "ExecutionCompletion", "JobFinish", entities, Absent)
              ELSE started
        BY DEF QueueAfterStart
    <1>2. type \in {"JobStart", "JobResume"} /\ <<entities.task, entities.job>> = j
        BY EntityFields DEF JobIdentity
    <1>. HIDE DEF type, entities, completion
    <1>3. /\ s.phase = "Scheduling" /\ s.type = type /\ s.tick = tick /\ s.sequence = q.next_sequence
          /\ s.entities = entities /\ started.next_sequence = q.next_sequence + 1
          /\ Of(started, "Scheduling") = Of(q, "Scheduling") \cup {s}
        BY ScheduledOf
    <1>4. c.phase = "ExecutionCompletion" /\ c.type = "JobFinish"
        BY ScheduledOf
    <1>5. EventTyped(s) /\ EventTyped(c)
        BY <1>2, <1>3, <1>4 DEF EventTyped
    <1>6. Extends(started, base)
        BY <1>5, InsertionExtends
    <1>7. q.next_sequence \in Nat
        BY DEF Extends
    <1>8. JobOf(s) = j
        BY <1>2, <1>3 DEF JobOf
    <1>. HIDE DEF s
    <1>9. CASE completion <= config.stop
        <2>1. Extends(p, base) /\ Of(p, "Scheduling") = Of(started, "Scheduling")
              /\ p.next_sequence = started.next_sequence + 1
            BY <1>1, <1>5, <1>6, <1>9, InsertionExtends, ScheduledOf
        <2>. HIDE DEF p, started
        <2>. QED  BY <1>3, <1>7, <1>8, <2>1 DEF p, s, type, entities
    <1>10. CASE ~ (completion <= config.stop)
        <2>1. p = started
            BY <1>1, <1>10
        <2>. HIDE DEF p, started
        <2>. QED  BY <1>3, <1>6, <1>7, <1>8, <2>1 DEF p, s, type, entities
    <1>. QED  BY <1>9, <1>10

\* Whatever is not a decision about a resource queues none.
LEMMA QuietSteps ==
    ASSUME KernelInv, [Next]_vars, ~ \E r \in ResourceIds : \E j \in ready[r] : Dispatch(r, j) \/ Preempt(r, j),
           ~ \E e \in queue.events : RecordDecision(e)
    PROVE  Quiet(queue', queue)
    <1>1. queue \in EventQueueState /\ TypeOK /\ queue.next_sequence \in Nat
        BY DEF KernelInv, StateInv, TypeOK, EventQueueState
    <1>2. Quiet(queue, queue) /\ Extends(queue, queue)
        BY <1>1, RemovalExtends
    <1>3. ASSUME NEW e, e.phase # "Scheduling", queue' = Popped(queue, e) PROVE Quiet(queue', queue)
        BY <1>1, <1>3, TakingExtends
    <1>4. ASSUME NEW t \in TaskIds, QueueFirstRelease(t) PROVE Quiet(queue', queue)
        <2>1. queue' = Scheduled(queue, release[t].tick, "JobRelease", "JobRelease",
                                 JobEntities(t, release[t].job, config.assignment[t]), Absent)
            BY <1>4 DEF QueueFirstRelease, ScheduleCurrentRelease
        <2>2. EventTyped(ScheduledEvent(queue, release[t].tick, "JobRelease", "JobRelease",
                                        JobEntities(t, release[t].job, config.assignment[t]), Absent))
            BY DEF EventTyped, ScheduledEvent
        <2>. QED  BY <1>1, <1>2, <2>1, <2>2, InsertionExtends
    <1>5. ASSUME Initialized \/ (\E e \in queue.events : BeginTick(e)) \/ FinishEmpty \/ EndTick
                 \/ (\E r \in ResourceIds : LeaveResource(r)) \/ (\E e \in batch : ReleaseRefused(e))
                 \/ StepAfterEnd \/ UNCHANGED vars
          PROVE  Quiet(queue', queue)
        <2>1. queue' = queue
            BY <1>5 DEF Initialized, BeginTick, FinishEmpty, EndTick, LeaveResource, ReleaseRefused,
                        StepAfterEnd, vars
        <2>. QED  BY <1>2, <2>1
    <1>6. ASSUME Settle PROVE Quiet(queue', queue)
        <2>1. PICK e \in queue.events : \/ AcceptCompletion(e) \/ IgnoreStaleCompletion(e)
                                        \/ DeliverMessage(e) \/ CheckDeadline(e)
            BY <1>6 DEF Settle
        <2>2. e.phase # "Scheduling" /\ queue' = Popped(queue, e)
            BY <2>1 DEF AcceptCompletion, IgnoreStaleCompletion, DeliverMessage, CheckDeadline, Settling
        <2>. QED  BY <1>3, <2>2
    <1>7. ASSUME NEW d \in TaskIds, PublishRoute(d) PROVE Quiet(queue', queue)
        <2>. DEFINE completion == trace[Len(trace)]
                    entities == MessageEntities(completion.entities.task, completion.entities.job,
                                                Len(messages) + 1)
        <2>1. \/ queue' = queue
              \/ queue' = Scheduled(queue, SendTick(completion), "CausedAction", "MessageSend", entities,
                                    completion.sequence)
            BY <1>7 DEF PublishRoute, PublishTo
        <2>. HIDE DEF completion, entities
        <2>2. EventTyped(ScheduledEvent(queue, SendTick(completion), "CausedAction", "MessageSend",
                                        entities, completion.sequence))
            BY DEF EventTyped, ScheduledEvent
        <2>. QED  BY <1>1, <1>2, <2>1, <2>2, InsertionExtends
    <1>8. ASSUME CollectReleases PROVE Quiet(queue', queue)
        <2>. DEFINE due == {e \in queue.events : e.tick = tick /\ e.phase = "JobRelease"}
        <2>1. queue' = [queue EXCEPT !.events = queue.events \ due] /\ \A x \in due : x.phase # "Scheduling"
            BY <1>8 DEF CollectReleases
        <2>. HIDE DEF due
        <2>. QED  BY <1>1, <2>1, RemovalExtends
    <1>9. ASSUME NEW e \in batch, ReleaseJob(e) PROVE Quiet(queue', queue)
        <2>. DEFINE t == e.entities.task
                    queued == QueueAfterRelease(t)
                    entities == JobEntities(t, e.entities.job, e.entities.resource)
                    deadline == NewJob(t, e).deadline
        <2>1. \/ queue' = queued
              \/ queue' = Scheduled(queued, deadline, "DeadlineCheck", "DeadlineMiss", entities, Absent)
            BY <1>9 DEF ReleaseJob
        <2>. HIDE DEF entities, deadline
        <2>2. Quiet(queued, queue)
            <3>. DEFINE next == JobEntities(t, release[t].job + 1, config.assignment[t])
            <3>1. \/ queued = queue
                  \/ queued = Scheduled(queue, SuccessorTick(t), "JobRelease", "JobRelease", next, Absent)
                BY DEF QueueAfterRelease
            <3>. HIDE DEF next, queued
            <3>2. EventTyped(ScheduledEvent(queue, SuccessorTick(t), "JobRelease", "JobRelease", next, Absent))
                BY DEF EventTyped, ScheduledEvent
            <3>. QED  BY <1>1, <1>2, <3>1, <3>2, InsertionExtends
        <2>. HIDE DEF queued
        <2>3. EventTyped(ScheduledEvent(queued, deadline, "DeadlineCheck", "DeadlineMiss", entities, Absent))
            BY DEF EventTyped, ScheduledEvent
        <2>4. Extends(queued, queue)
            BY <2>2 DEF Quiet
        <2>. QED  BY <1>1, <2>1, <2>2, <2>3, <2>4, InsertionExtends
    <1>10. ASSUME NEW e \in queue.events, SendMessage(e) PROVE Quiet(queue', queue)
        <2>. DEFINE taken == Popped(queue, e)
                    m == messages[e.entities.message]
                    entities == MessageEntities(m.destination, Absent, e.entities.message)
        <2>1. /\ e.phase # "Scheduling"
              /\ \/ queue' = taken
                 \/ queue' = QueueAfterSend(taken, e)
            BY <1>10 DEF SendMessage
        <2>2. \/ queue' = taken
              \/ queue' = Scheduled(taken, m.delivery, DeliveryPhase(m), "MessageDelivery", entities, e.sequence)
            BY <2>1 DEF QueueAfterSend
        <2>3. Quiet(taken, queue) /\ Extends(taken, queue)
            BY <1>1, <2>1, TakingExtends
        <2>4. DeliveryPhase(m) \in {"CausedActionLate", "MessageDelivery"}
            BY DEF DeliveryPhase
        <2>. HIDE DEF taken, m, entities
        <2>5. EventTyped(ScheduledEvent(taken, m.delivery, DeliveryPhase(m), "MessageDelivery", entities, e.sequence))
            BY <2>4 DEF EventTyped, ScheduledEvent
        <2>. QED  BY <1>1, <2>2, <2>3, <2>4, <2>5, InsertionExtends
    <1>. QED  BY <1>4, <1>5, <1>6, <1>7, <1>8, <1>9, <1>10 DEF Next, ProcessReleases, Schedule, Act

\* The decisions stay numbered when no step before the horizon's end forgets a job.
LEMMA NumberedKept ==
    ASSUME TypeOK, DecisionsNumbered, Released \subseteq Released', tick <= tick', tick' \in Nat,
           Extends(queue', queue), IsFiniteSet(Decisions'),
           \A x \in Decisions' :
               \/ x \in Decisions
               \/ x.sequence < queue'.next_sequence /\ x.tick <= tick' /\ JobOf(x) \in Released',
           \/ UNCHANGED trace
           \/ \E e \in Event : /\ trace' = Append(trace, e)
                               /\ e.type \in JobEventTypes => JobOf(e) \in Released'
    PROVE  DecisionsNumbered'
    <1>1. ASSUME NEW x \in Decisions'
          PROVE  x.sequence < queue'.next_sequence /\ x.tick <= tick' /\ JobOf(x) \in Released'
        <2>1. CASE x \in Decisions
            <3>1. x \in queue.events /\ x.sequence < queue.next_sequence /\ x.tick <= tick /\ JobOf(x) \in Released
                BY <2>1 DEF DecisionsNumbered, Decisions, Of
            <3>2. x.sequence \in Nat /\ x.tick \in Nat /\ queue.next_sequence \in Nat /\ tick \in Nat
                BY <3>1, PendingFields DEF TypeOK, EventQueueState
            <3>. QED  BY <3>1, <3>2 DEF Extends
        <2>. QED  BY <2>1
    <1>2. \A x \in queue'.events : EventTyped(x)
        BY DEF Extends, DecisionsNumbered
    <1>3. ASSUME NEW i \in DOMAIN trace', trace'[i].type \in JobEventTypes
          PROVE  JobOf(trace'[i]) \in Released'
        <2>1. CASE UNCHANGED trace
            BY <1>3, <2>1 DEF DecisionsNumbered
        <2>2. CASE ~ UNCHANGED trace
            <3>1. PICK e \in Event : /\ trace' = Append(trace, e)
                                     /\ e.type \in JobEventTypes => JobOf(e) \in Released'
                BY <2>2
            <3>2. trace \in Seq(Event)
                BY DEF TypeOK
            <3>3. (i \in DOMAIN trace /\ trace'[i] = trace[i]) \/ trace'[i] = e
                BY <3>1, <3>2
            <3>. QED  BY <1>3, <3>1, <3>3 DEF DecisionsNumbered
        <2>. QED  BY <2>1, <2>2
    <1>. QED  BY <1>1, <1>2, <1>3 DEF DecisionsNumbered, EventTyped, JobOf

-----------------------------------------------------------------------------
(* The ledger of each job, step by step. *)

\* The types a ledger counts.
Counted == {Begins, Ends, {"JobPreempt"}, {"JobRelease"}, {"JobStart"}}

\* A step notes e, or nothing, in the ledger of j.
NotedOf(e, j) ==
    \A types \in Counted :
        /\ Count(j, types)' = Count(j, types) + Mark(e, j, types)
        /\ Time(j, types)' = Time(j, types) + Stamp(e, j, types)

NotNoted(j) ==
    \A types \in Counted : Count(j, types)' = Count(j, types) /\ Time(j, types)' = Time(j, types)

\* What the ledger of j is compared with stays.
SameEntry(j) ==
    /\ jobs'[j].lifecycle = jobs[j].lifecycle /\ jobs'[j].remaining = jobs[j].remaining
    /\ jobs'[j].preemptions = jobs[j].preemptions /\ jobs'[j].first_start = jobs[j].first_start
    /\ OpenSince(j)' = OpenSince(j)

\* Then so does the ledger.
LEMMA LedgerKept ==
    ASSUME NEW j \in Released, LedgerOf(j), UNCHANGED config, NotNoted(j), SameEntry(j)
    PROVE  LedgerOf(j)'
    <1>1. /\ Count(j, Begins)' = Count(j, Begins) /\ Time(j, Begins)' = Time(j, Begins)
          /\ Count(j, Ends)' = Count(j, Ends) /\ Time(j, Ends)' = Time(j, Ends)
          /\ Count(j, {"JobPreempt"})' = Count(j, {"JobPreempt"})
          /\ Count(j, {"JobRelease"})' = Count(j, {"JobRelease"})
          /\ Count(j, {"JobStart"})' = Count(j, {"JobStart"})
        BY DEF NotNoted, Counted
    <1>2. Demand(config, j[1])' = Demand(config, j[1])
        BY DEF Demand
    <1>. QED  BY <1>1, <1>2 DEF SameEntry, LedgerOf, Started

\* A job the step leaves alone, on whatever resource.
LEMMA EntryUntouched ==
    ASSUME MembershipAgrees, TypeOK, NEW r, OnlyResource(r), NEW j \in Released,
           resource[r].running # j, jobs'[j] = jobs[j]
    PROVE  SameEntry(j)
    <1>1. CASE jobs[j].lifecycle = "Running"
        <2>1. jobs[j].resource \in ResourceIds
            BY DEF TypeOK, JobState
        <2>2. resource[jobs[j].resource].running = j
            BY <1>1, <2>1 DEF MembershipAgrees
        <2>3. resource'[jobs[j].resource] = resource[jobs[j].resource]
            BY <2>1, <2>2 DEF OnlyResource
        <2>. QED  BY <2>3 DEF SameEntry, OpenSince
    <1>2. CASE jobs[j].lifecycle # "Running"
        BY <1>2 DEF SameEntry, OpenSince
    <1>. QED  BY <1>1, <1>2

\* Numbers of a ledger.
LEMMA LedgerTypes ==
    ASSUME TypeOK, DecisionsNumbered, NEW j \in Released
    PROVE  /\ \A types : Count(j, types) \in Nat /\ Time(j, types) \in Nat
           /\ jobs[j].remaining \in Nat /\ jobs[j].preemptions \in Nat /\ Demand(config, j[1]) \in Nat
           /\ jobs[j].resource \in ResourceIds /\ resource[jobs[j].resource].since \in Int
           /\ OpenSince(j) \in Int /\ tick \in Nat
    <1>1. jobs[j] \in JobState /\ j[1] \in TaskIds
        BY DEF TypeOK, JobIdentity
    <1>2. jobs[j].resource \in ResourceIds /\ jobs[j].remaining \in Nat /\ jobs[j].preemptions \in Nat
        BY <1>1 DEF JobState
    <1>3. resource[jobs[j].resource].since \in Int
        BY <1>2 DEF TypeOK, ResourceState
    <1>4. Demand(config, j[1]) \in Nat
        BY <1>1, ConfigType, DemandType DEF Demand
    <1>. QED  BY <1>2, <1>3, <1>4, LedgerParts DEF OpenSince, TypeOK

\* What one event about j adds to its counts, by type.
LEMMA MarksByType ==
    ASSUME NEW e
    PROVE  LET j == JobOf(e)
               Begun == IF e.type \in Begins THEN 1 ELSE 0
               Ended == IF e.type \in Ends THEN 1 ELSE 0
           IN  /\ Mark(e, j, Begins) = Begun /\ Mark(e, j, Ends) = Ended
               /\ Mark(e, j, {"JobPreempt"}) = (IF e.type = "JobPreempt" THEN 1 ELSE 0)
               /\ Mark(e, j, {"JobRelease"}) = (IF e.type = "JobRelease" THEN 1 ELSE 0)
               /\ Mark(e, j, {"JobStart"}) = (IF e.type = "JobStart" THEN 1 ELSE 0)
               /\ Stamp(e, j, Begins) = (IF e.type \in Begins THEN e.tick ELSE 0)
               /\ Stamp(e, j, Ends) = (IF e.type \in Ends THEN e.tick ELSE 0)
    BY DEF Mark, Stamp

\* An event is noted about its job only, and only if its type is counted.
LEMMA OthersNotNoted ==
    ASSUME TypeOK, DecisionsNumbered, NEW e, NEW j, NotedOf(e, j),
           JobOf(e) # j \/ e.type \notin JobEventTypes
    PROVE  NotNoted(j)
    <1>1. ASSUME NEW types \in Counted PROVE Mark(e, j, types) = 0 /\ Stamp(e, j, types) = 0
        <2>1. types \subseteq JobEventTypes
            BY DEF Counted, JobEventTypes, Begins, Ends
        <2>. QED  BY <2>1 DEF Mark, Stamp
    <1>2. \A types : Count(j, types) \in Nat /\ Time(j, types) \in Nat
        BY LedgerParts
    <1>. QED  BY <1>1, <1>2 DEF NotNoted, NotedOf

\* A finish closes the interval and charges what was left.
LEMMA FinishLedger ==
    ASSUME TypeOK, DecisionsNumbered, NEW j \in Released, LedgerOf(j), UNCHANGED config,
           NEW e, NotedOf(e, j), JobOf(e) = j, e.type = "JobFinish", e.tick = tick,
           jobs[j].lifecycle = "Running", jobs'[j].lifecycle = "Completed",
           jobs[j].remaining = tick - resource[jobs[j].resource].since, jobs'[j].remaining = 0,
           jobs'[j].first_start = jobs[j].first_start, jobs'[j].preemptions = jobs[j].preemptions
    PROVE  LedgerOf(j)'
    <1>1. /\ Mark(e, j, Begins) = 0 /\ Mark(e, j, Ends) = 1 /\ Mark(e, j, {"JobPreempt"}) = 0
          /\ Mark(e, j, {"JobRelease"}) = 0 /\ Mark(e, j, {"JobStart"}) = 0
          /\ Stamp(e, j, Begins) = 0 /\ Stamp(e, j, Ends) = tick
        BY MarksByType DEF Begins, Ends
    <1>2. /\ Count(j, Begins)' = Count(j, Begins) /\ Count(j, Ends)' = Count(j, Ends) + 1
          /\ Count(j, {"JobPreempt"})' = Count(j, {"JobPreempt"})
          /\ Count(j, {"JobRelease"})' = Count(j, {"JobRelease"})
          /\ Count(j, {"JobStart"})' = Count(j, {"JobStart"})
          /\ Time(j, Begins)' = Time(j, Begins) /\ Time(j, Ends)' = Time(j, Ends) + tick
        BY <1>1, LedgerTypes DEF NotedOf, Counted
    <1>3. Demand(config, j[1])' = Demand(config, j[1])
        BY DEF Demand
    <1>4. OpenSince(j)' = 0 /\ OpenSince(j) = resource[jobs[j].resource].since
        BY DEF OpenSince
    <1>5. (Started(jobs[j]))' <=> Started(jobs[j])
        BY DEF Started
    <1>6. /\ Count(j, Begins)' = Count(j, Ends)' + (IF jobs'[j].lifecycle = "Running" THEN 1 ELSE 0)
          /\ Time(j, Ends)' + OpenSince(j)' - Time(j, Begins)' = Demand(config, j[1])' - jobs'[j].remaining
        BY <1>2, <1>3, <1>4, LedgerTypes DEF LedgerOf
    <1>. QED  BY <1>2, <1>5, <1>6 DEF LedgerOf

\* A start or resume opens an interval; the first of them is the start.
LEMMA StartLedger ==
    ASSUME TypeOK, DecisionsNumbered, NEW j \in Released, LedgerOf(j), UNCHANGED config,
           NEW e, NotedOf(e, j), JobOf(e) = j, e.tick = tick,
           e.type = (IF Started(jobs[j]) THEN "JobResume" ELSE "JobStart"),
           jobs[j].lifecycle = "Ready", jobs'[j].lifecycle = "Running",
           jobs'[j].remaining = jobs[j].remaining, jobs'[j].preemptions = jobs[j].preemptions,
           jobs'[j].first_start = (IF Started(jobs[j]) THEN jobs[j].first_start ELSE tick),
           resource'[jobs'[j].resource].since = tick
    PROVE  LedgerOf(j)'
    <1>1. /\ Mark(e, j, Begins) = 1 /\ Mark(e, j, Ends) = 0 /\ Mark(e, j, {"JobPreempt"}) = 0
          /\ Mark(e, j, {"JobRelease"}) = 0
          /\ Mark(e, j, {"JobStart"}) = (IF Started(jobs[j]) THEN 0 ELSE 1)
          /\ Stamp(e, j, Begins) = tick /\ Stamp(e, j, Ends) = 0
        BY MarksByType DEF Begins, Ends
    <1>2. /\ Count(j, Begins)' = Count(j, Begins) + 1 /\ Count(j, Ends)' = Count(j, Ends)
          /\ Count(j, {"JobPreempt"})' = Count(j, {"JobPreempt"})
          /\ Count(j, {"JobRelease"})' = Count(j, {"JobRelease"})
          /\ Count(j, {"JobStart"})' = Count(j, {"JobStart"}) + (IF Started(jobs[j]) THEN 0 ELSE 1)
          /\ Time(j, Begins)' = Time(j, Begins) + tick /\ Time(j, Ends)' = Time(j, Ends)
        BY <1>1, LedgerTypes DEF NotedOf, Counted
    <1>3. Demand(config, j[1])' = Demand(config, j[1])
        BY DEF Demand
    <1>4. OpenSince(j)' = tick /\ OpenSince(j) = 0
        BY DEF OpenSince
    <1>5. (Started(jobs[j]))'
        BY LedgerTypes DEF Started, Absent
    <1>6. /\ Count(j, Begins)' = Count(j, Ends)' + (IF jobs'[j].lifecycle = "Running" THEN 1 ELSE 0)
          /\ Time(j, Ends)' + OpenSince(j)' - Time(j, Begins)' = Demand(config, j[1])' - jobs'[j].remaining
        BY <1>2, <1>3, <1>4, LedgerTypes DEF LedgerOf
    <1>7. Count(j, {"JobStart"})' = 1
        BY <1>2 DEF LedgerOf
    <1>. QED  BY <1>2, <1>5, <1>6, <1>7 DEF LedgerOf

\* A preemption closes the interval and charges what of it has passed.
LEMMA PreemptLedger ==
    ASSUME TypeOK, DecisionsNumbered, NEW j \in Released, LedgerOf(j), UNCHANGED config,
           NEW e, NotedOf(e, j), JobOf(e) = j, e.type = "JobPreempt", e.tick = tick,
           jobs[j].lifecycle = "Running", jobs'[j].lifecycle = "Ready",
           jobs'[j].remaining = jobs[j].remaining - (tick - resource[jobs[j].resource].since),
           jobs'[j].first_start = jobs[j].first_start,
           jobs'[j].preemptions = jobs[j].preemptions + 1
    PROVE  LedgerOf(j)'
    <1>1. /\ Mark(e, j, Begins) = 0 /\ Mark(e, j, Ends) = 1 /\ Mark(e, j, {"JobPreempt"}) = 1
          /\ Mark(e, j, {"JobRelease"}) = 0 /\ Mark(e, j, {"JobStart"}) = 0
          /\ Stamp(e, j, Begins) = 0 /\ Stamp(e, j, Ends) = tick
        BY MarksByType DEF Begins, Ends
    <1>2. /\ Count(j, Begins)' = Count(j, Begins) /\ Count(j, Ends)' = Count(j, Ends) + 1
          /\ Count(j, {"JobPreempt"})' = Count(j, {"JobPreempt"}) + 1
          /\ Count(j, {"JobRelease"})' = Count(j, {"JobRelease"})
          /\ Count(j, {"JobStart"})' = Count(j, {"JobStart"})
          /\ Time(j, Begins)' = Time(j, Begins) /\ Time(j, Ends)' = Time(j, Ends) + tick
        BY <1>1, LedgerTypes DEF NotedOf, Counted
    <1>3. Demand(config, j[1])' = Demand(config, j[1])
        BY DEF Demand
    <1>4. OpenSince(j)' = 0 /\ OpenSince(j) = resource[jobs[j].resource].since
        BY DEF OpenSince
    <1>5. (Started(jobs[j]))' <=> Started(jobs[j])
        BY DEF Started
    <1>6. /\ Count(j, Begins)' = Count(j, Ends)' + (IF jobs'[j].lifecycle = "Running" THEN 1 ELSE 0)
          /\ Time(j, Ends)' + OpenSince(j)' - Time(j, Begins)' = Demand(config, j[1])' - jobs'[j].remaining
        BY <1>2, <1>3, <1>4, LedgerTypes DEF LedgerOf
    <1>. QED  BY <1>2, <1>5, <1>6 DEF LedgerOf

\* Nothing is told of a job before its release.
LEMMA NothingTold ==
    ASSUME TypeOK, DecisionsNumbered, NEW j, j \notin Released, NEW types \in Counted
    PROVE  Count(j, types) = 0 /\ Time(j, types) = 0
    <1>1. types \subseteq JobEventTypes
        BY DEF Counted, JobEventTypes, Begins, Ends
    <1>2. TraceOf(j, types) = {}
        BY <1>1 DEF TraceOf, DecisionsNumbered, JobOf
    <1>3. About(Decisions, j, types) = {}
        BY DEF About, DecisionsNumbered
    <1>4. Cardinality({}) = 0
        BY FS_EmptySet
    <1>. QED  BY <1>2, <1>3, <1>4, SumOfNone DEF Count, Time

\* A release opens the ledger.
LEMMA ReleaseLedger ==
    ASSUME TypeOK, TypeOK', DecisionsNumbered, NEW j, j \notin Released, j \in Released',
           UNCHANGED config,
           NEW e, NotedOf(e, j), JobOf(e) = j, e.type = "JobRelease",
           jobs'[j].lifecycle = "Ready", jobs'[j].remaining = Demand(config, j[1]),
           jobs'[j].first_start = Absent, jobs'[j].preemptions = 0
    PROVE  LedgerOf(j)'
    <1>1. /\ Mark(e, j, Begins) = 0 /\ Mark(e, j, Ends) = 0 /\ Mark(e, j, {"JobPreempt"}) = 0
          /\ Mark(e, j, {"JobRelease"}) = 1 /\ Mark(e, j, {"JobStart"}) = 0
          /\ Stamp(e, j, Begins) = 0 /\ Stamp(e, j, Ends) = 0
        BY MarksByType DEF Begins, Ends
    <1>2. /\ Count(j, Begins) = 0 /\ Count(j, Ends) = 0 /\ Count(j, {"JobPreempt"}) = 0
          /\ Count(j, {"JobRelease"}) = 0 /\ Count(j, {"JobStart"}) = 0
          /\ Time(j, Begins) = 0 /\ Time(j, Ends) = 0
        BY NothingTold DEF Counted
    <1>3. /\ Count(j, Begins)' = 0 /\ Count(j, Ends)' = 0
          /\ Count(j, {"JobPreempt"})' = 0
          /\ Count(j, {"JobRelease"})' = 1
          /\ Count(j, {"JobStart"})' = 0
          /\ Time(j, Begins)' = 0 /\ Time(j, Ends)' = 0
        BY <1>1, <1>2 DEF NotedOf, Counted
    <1>4. Demand(config, j[1])' = Demand(config, j[1])
        BY DEF Demand
    <1>5. OpenSince(j)' = 0 /\ ~ (Started(jobs[j]))'
        BY DEF OpenSince, Started
    <1>6. jobs'[j].remaining \in Nat
        BY DEF TypeOK, JobState
    <1>7. Time(j, Ends)' + OpenSince(j)' - Time(j, Begins)' = Demand(config, j[1])' - jobs'[j].remaining
        BY <1>3, <1>4, <1>5, <1>6
    <1>. QED  BY <1>3, <1>5, <1>7 DEF LedgerOf

\* What is noted is noted of every job.
LEMMA NotedOfAll ==
    /\ \A e : Noted(e) => \A j : NotedOf(e, j)
    /\ NothingNoted => \A j : NotNoted(j)
    BY DEF Noted, NotedOf, NothingNoted, NotNoted

-----------------------------------------------------------------------------
(* Every step keeps the ledgers. *)

\* An accepted completion.
LEMMA AcceptCompletionLedger ==
    ASSUME HistoryInv, LedgerInv, TypeOK', NEW e \in queue.events, AcceptCompletion(e)
    PROVE  LedgerInv'
    <1>1. KernelInv /\ TypeOK /\ MembershipAgrees /\ DecisionsNumbered /\ e \in Event /\ EventTyped(e)
        BY PendingFields DEF HistoryInv, KernelInv, StateInv, LedgerInv, DecisionsNumbered
    <1>2. PICK j : j = JobOf(e)
        OBVIOUS
    <1>3. PICK r : r = e.entities.resource
        OBVIOUS
    <1>4. /\ OnlyJob(j) /\ OnlyResource(r) /\ resource[r].running = j /\ jobs[j].resource = r
          /\ jobs[j].lifecycle = "Running" /\ jobs'[j].lifecycle = "Completed"
          /\ jobs[j].remaining = tick - resource[r].since /\ jobs'[j].remaining = 0
          /\ jobs'[j].first_start = jobs[j].first_start /\ jobs'[j].preemptions = jobs[j].preemptions
          /\ trace' = Append(trace, e) /\ queue' = Popped(queue, e)
          /\ e.phase = "ExecutionCompletion" /\ e.tick = tick /\ UNCHANGED <<config, tick>>
        BY <1>1, <1>2, <1>3, CompletionEffect
    <1>5. e.type = "JobFinish"
        BY <1>1, <1>4 DEF EventTyped
    <1>6. Quiet(queue', queue)
        BY <1>1, <1>4, TakingExtends DEF TypeOK
    <1>7. Decisions' = Decisions
        BY <1>6 DEF Quiet, Decisions, Of
    <1>8. Noted(e)
        BY <1>1, <1>4, <1>7, RecordedIsNoted
    <1>9. j \in Released /\ Released' = Released
        BY <1>4 DEF OnlyJob
    <1>10. LedgerOf(j)'
        <2>1. LedgerOf(j)
            BY <1>9 DEF LedgerInv
        <2>. QED  BY <1>1, <1>2, <1>4, <1>5, <1>8, <1>9, <2>1, NotedOfAll, FinishLedger
    <1>11. ASSUME NEW k \in Released, k # j PROVE LedgerOf(k)'
        <2>1. NotNoted(k)
            BY <1>1, <1>2, <1>8, <1>11, NotedOfAll, OthersNotNoted
        <2>2. SameEntry(k)
            BY <1>1, <1>4, <1>11, EntryUntouched DEF OnlyJob
        <2>. QED  BY <1>4, <2>1, <2>2, LedgerKept DEF LedgerInv
    <1>12. DecisionsNumbered'
        <2>1. IsFiniteSet(Decisions')
            BY <1>1, <1>7 DEF DecisionsNumbered
        <2>2. tick \in Nat
            BY <1>1 DEF TypeOK
        <2>. QED  BY <1>1, <1>2, <1>4, <1>6, <1>7, <1>9, <2>1, <2>2, NumberedKept DEF Quiet
    <1>13. \A k \in Released' : LedgerOf(k)'
        BY <1>9, <1>10, <1>11
    <1>. QED  BY <1>12, <1>13 DEF LedgerInv

\* A fresh decision is none of the pending ones.
LEMMA FreshDecision ==
    ASSUME TypeOK, DecisionsNumbered, NEW s, s.sequence >= queue.next_sequence
    PROVE  s \notin Decisions
    <1>1. ASSUME s \in Decisions PROVE FALSE
        <2>1. s \in queue.events /\ s.sequence < queue.next_sequence
            BY <1>1 DEF DecisionsNumbered, Decisions, Of
        <2>2. s.sequence \in Nat /\ queue.next_sequence \in Nat
            BY <2>1, PendingFields DEF TypeOK, EventQueueState
        <2>. QED  BY <2>1, <2>2
    <1>. QED  BY <1>1

\* Starting a job on an idle resource.
LEMMA DispatchLedger ==
    ASSUME HistoryInv, LedgerInv, TypeOK', NEW r \in ResourceIds, NEW j \in ready[r], Dispatch(r, j)
    PROVE  LedgerInv'
    <1>1. /\ KernelInv /\ TypeOK /\ MembershipAgrees /\ DecisionsNumbered
          /\ queue \in EventQueueState /\ queue.next_sequence \in Nat /\ tick \in Nat
        BY DEF HistoryInv, KernelInv, StateInv, LedgerInv, TypeOK, EventQueueState
    <1>2. UNCHANGED <<config, tick, trace>> /\ Idle(r) /\ j \in Released /\ jobs[j].lifecycle = "Ready"
        BY <1>1, DispatchEffect
    <1>3. CASE UNCHANGED <<jobs, resource, queue>>
        <2>1. Decisions' = Decisions /\ Released' = Released
            BY <1>3 DEF Decisions, Of, Released
        <2>2. NothingNoted
            BY <1>2, <2>1, UnchangedIsNoted
        <2>3. \A k \in Released : SameEntry(k)
            BY <1>3 DEF SameEntry, OpenSince
        <2>4. \A k \in Released' : LedgerOf(k)'
            BY <1>2, <2>1, <2>2, <2>3, NotedOfAll, LedgerKept DEF LedgerInv
        <2>5. DecisionsNumbered'
            <3>1. Extends(queue', queue) /\ IsFiniteSet(Decisions')
                BY <1>1, <1>3, <2>1, RemovalExtends DEF DecisionsNumbered
            <3>. QED  BY <1>1, <1>2, <2>1, <3>1, NumberedKept
        <2>. QED  BY <2>4, <2>5 DEF LedgerInv
    <1>4. CASE ~ UNCHANGED <<jobs, resource, queue>>
        <2>1. /\ OnlyJob(j) /\ OnlyResource(r) /\ jobs[j].resource = r
              /\ jobs'[j].lifecycle = "Running" /\ jobs'[j].remaining = jobs[j].remaining
              /\ jobs'[j].first_start = (IF Started(jobs[j]) THEN jobs[j].first_start ELSE tick)
              /\ jobs'[j].preemptions = jobs[j].preemptions
              /\ resource'[r].since = tick /\ queue' = QueueAfterStart(queue, r, j)
            BY <1>1, <1>4, DispatchEffect
        <2>2. Released' = Released /\ jobs'[j].resource = r /\ j \in JobIdentity
            BY <1>1, <1>2, <2>1 DEF OnlyJob, TypeOK
        <2>3. PICK s : s = ScheduledEvent(queue, tick, "Scheduling",
                                          IF Started(jobs[j]) THEN "JobResume" ELSE "JobStart",
                                          JobEntities(j[1], j[2], r), Absent)
            OBVIOUS
        <2>4. PICK p : p = queue'
            OBVIOUS
        <2>5. /\ Extends(p, queue) /\ Of(p, "Scheduling") = Of(queue, "Scheduling") \cup {s}
              /\ s.sequence < p.next_sequence /\ s.sequence = queue.next_sequence
              /\ s.tick = tick /\ JobOf(s) = j
              /\ s.type = (IF Started(jobs[j]) THEN "JobResume" ELSE "JobStart")
            <3>1. Extends(queue, queue)
                BY <1>1, RemovalExtends
            <3>2. p = QueueAfterStart(queue, r, j)
                BY <2>1, <2>4
            <3>. QED  BY <1>1, <2>2, <2>3, <3>1, <3>2, StartNoted
        <2>6. Decisions' = Decisions \cup {s}
            BY <2>4, <2>5 DEF Decisions, Of
        <2>7. s \in Event /\ s \notin Decisions
            <3>1. s \in Decisions' /\ Decisions' \subseteq Event
                BY <2>6, TypeOK' DEF Decisions, Of, TypeOK, EventQueueState
            <3>. QED  BY <1>1, <2>5, <3>1, FreshDecision
        <2>8. Noted(s)
            BY <1>1, <1>2, <2>6, <2>7, QueuedIsNoted
        <2>9. LedgerOf(j)'
            <3>1. LedgerOf(j)
                BY <1>2 DEF LedgerInv
            <3>2. NotedOf(s, j)
                BY <2>8, NotedOfAll
            <3>. QED  BY <1>1, <1>2, <2>1, <2>2, <2>5, <3>1, <3>2, StartLedger
        <2>10. ASSUME NEW k \in Released, k # j PROVE LedgerOf(k)'
            <3>1. NotNoted(k)
                BY <1>1, <2>5, <2>8, <2>10, NotedOfAll, OthersNotNoted
            <3>2. resource[r].running # k
                BY <1>1, <1>2, NoJobAssumption DEF Idle, TypeOK, JobIdentity
            <3>3. SameEntry(k)
                BY <1>1, <2>1, <2>10, <3>2, EntryUntouched DEF OnlyJob
            <3>. QED  BY <1>2, <3>1, <3>3, LedgerKept DEF LedgerInv
        <2>11. DecisionsNumbered'
            <3>1. IsFiniteSet(Decisions')
                BY <1>1, <2>6, FS_AddElement DEF DecisionsNumbered
            <3>2. Extends(queue', queue)
                BY <2>4, <2>5
            <3>3. \A x \in Decisions' :
                      x \in Decisions \/ (x.sequence < queue'.next_sequence /\ x.tick <= tick' /\ JobOf(x) \in Released')
                BY <1>1, <1>2, <2>2, <2>4, <2>5, <2>6
            <3>. QED  BY <1>1, <1>2, <2>2, <3>1, <3>2, <3>3, NumberedKept
        <2>12. \A k \in Released' : LedgerOf(k)'
            BY <2>2, <2>9, <2>10
        <2>. QED  BY <2>11, <2>12 DEF LedgerInv
    <1>. QED  BY <1>3, <1>4

\* Replacing the job that runs.
LEMMA PreemptStepLedger ==
    ASSUME HistoryInv, LedgerInv, TypeOK', NEW r \in ResourceIds, NEW j \in ready[r], Preempt(r, j)
    PROVE  LedgerInv'
    <1>1. /\ KernelInv /\ TypeOK /\ MembershipAgrees /\ DecisionsNumbered
          /\ queue \in EventQueueState /\ queue.next_sequence \in Nat /\ tick \in Nat
        BY DEF HistoryInv, KernelInv, StateInv, LedgerInv, TypeOK, EventQueueState
    <1>2. PICK p : p = resource[r].running
        OBVIOUS
    <1>3. PICK held : held = Scheduled(queue, tick, "Scheduling", "JobPreempt",
                                       JobEntities(p[1], p[2], r), Absent)
        OBVIOUS
    <1>4. /\ UNCHANGED <<config, tick, trace>>
          /\ j \in Released /\ p \in Released /\ p # j /\ Released' = Released
          /\ \A k \in Released : k \notin {j, p} => jobs'[k] = jobs[k]
          /\ jobs[j].lifecycle = "Ready" /\ jobs[p].resource = r /\ jobs[p].lifecycle = "Running"
          /\ jobs'[j].resource = r /\ jobs'[j].lifecycle = "Running"
          /\ jobs'[j].remaining = jobs[j].remaining
          /\ jobs'[j].first_start = (IF Started(jobs[j]) THEN jobs[j].first_start ELSE tick)
          /\ jobs'[j].preemptions = jobs[j].preemptions
          /\ jobs'[p].lifecycle = "Ready"
          /\ jobs'[p].remaining = jobs[p].remaining - (tick - resource[r].since)
          /\ jobs'[p].first_start = jobs[p].first_start
          /\ jobs'[p].preemptions = jobs[p].preemptions + 1
          /\ OnlyResource(r) /\ resource'[r].since = tick
          /\ queue' = QueueAfterStart(held, r, j)
        BY <1>1, <1>2, <1>3, PreemptEffect
    <1>5. p \in JobIdentity /\ j \in JobIdentity
        BY <1>1, <1>4 DEF TypeOK
    <1>6. PICK h : h = ScheduledEvent(queue, tick, "Scheduling", "JobPreempt",
                                      JobEntities(p[1], p[2], r), Absent)
        OBVIOUS
    <1>7. PICK s : s = ScheduledEvent(held, tick, "Scheduling",
                                      IF Started(jobs[j]) THEN "JobResume" ELSE "JobStart",
                                      JobEntities(j[1], j[2], r), Absent)
        OBVIOUS
    <1>8. PICK q : q = queue'
        OBVIOUS
    <1>9. /\ Of(held, "Scheduling") = Of(queue, "Scheduling") \cup {h}
          /\ held.next_sequence = queue.next_sequence + 1 /\ h.sequence = queue.next_sequence
          /\ h.tick = tick /\ h.type = "JobPreempt" /\ h.phase = "Scheduling" /\ JobOf(h) = p
        <2>1. /\ Of(held, "Scheduling") = Of(queue, "Scheduling") \cup {h}
              /\ held.next_sequence = queue.next_sequence + 1 /\ h.sequence = queue.next_sequence
              /\ h.tick = tick /\ h.type = "JobPreempt" /\ h.phase = "Scheduling"
              /\ h.entities = JobEntities(p[1], p[2], r)
            BY <1>3, <1>6, ScheduledOf
        <2>2. <<h.entities.task, h.entities.job>> = p
            BY <1>5, <2>1, EntityFields DEF JobIdentity
        <2>. QED  BY <2>1, <2>2 DEF JobOf
    <1>10. Extends(held, queue)
        <2>1. EventTyped(h) /\ Extends(queue, queue)
            BY <1>1, <1>9, RemovalExtends DEF EventTyped
        <2>. QED  BY <1>1, <1>3, <1>6, <2>1, InsertionExtends
    <1>11. /\ Extends(q, queue) /\ Of(q, "Scheduling") = Of(held, "Scheduling") \cup {s}
           /\ s.sequence < q.next_sequence /\ s.sequence = held.next_sequence
           /\ s.tick = tick /\ JobOf(s) = j
           /\ s.type = (IF Started(jobs[j]) THEN "JobResume" ELSE "JobStart")
        <2>1. q = QueueAfterStart(held, r, j)
            BY <1>4, <1>8
        <2>. QED  BY <1>1, <1>5, <1>7, <1>10, <2>1, StartNoted
    <1>12. Decisions' = (Decisions \cup {h}) \cup {s}
        BY <1>8, <1>9, <1>11 DEF Decisions, Of
    <1>13. h \in Event /\ s \in Event /\ h \notin Decisions /\ s \notin Decisions \cup {h}
        <2>1. h \in Decisions' /\ s \in Decisions' /\ Decisions' \subseteq Event
            BY <1>12, TypeOK' DEF Decisions, Of, TypeOK, EventQueueState
        <2>2. h \notin Decisions /\ s \notin Decisions
            BY <1>1, <1>9, <1>11, FreshDecision
        <2>. QED  BY <1>1, <1>9, <1>11, <2>1, <2>2
    <1>14. \A k, types :
               /\ Count(k, types)' = Count(k, types) + Mark(h, k, types) + Mark(s, k, types)
               /\ Time(k, types)' = Time(k, types) + Stamp(h, k, types) + Stamp(s, k, types)
        BY <1>1, <1>4, <1>12, <1>13, BothAreNoted
    <1>15. \A k, types : Count(k, types) \in Nat /\ Time(k, types) \in Nat
        BY <1>1, LedgerParts
    <1>16. \A k, types : Mark(s, k, types) \in Nat /\ Stamp(s, k, types) \in Nat
                         /\ Mark(h, k, types) \in Nat /\ Stamp(h, k, types) \in Nat
        BY <1>13 DEF Mark, Stamp, Event
    <1>17. NotedOf(h, p)
        <2>1. \A types : Mark(s, p, types) = 0 /\ Stamp(s, p, types) = 0
            BY <1>4, <1>11, MarkMeans
        <2>. QED  BY <1>14, <1>15, <1>16, <2>1 DEF NotedOf
    <1>18. NotedOf(s, j)
        <2>1. \A types : Mark(h, j, types) = 0 /\ Stamp(h, j, types) = 0
            BY <1>4, <1>9, MarkMeans
        <2>. QED  BY <1>14, <1>15, <1>16, <2>1 DEF NotedOf
    <1>19. LedgerOf(p)'
        <2>1. LedgerOf(p)
            BY <1>4 DEF LedgerInv
        <2>. QED  BY <1>1, <1>4, <1>9, <1>17, <2>1, PreemptLedger
    <1>20. LedgerOf(j)'
        <2>1. LedgerOf(j)
            BY <1>4 DEF LedgerInv
        <2>. QED  BY <1>1, <1>4, <1>11, <1>18, <2>1, StartLedger
    <1>21. ASSUME NEW k \in Released, k \notin {j, p} PROVE LedgerOf(k)'
        <2>1. \A types : /\ Mark(h, k, types) = 0 /\ Stamp(h, k, types) = 0
                         /\ Mark(s, k, types) = 0 /\ Stamp(s, k, types) = 0
            BY <1>9, <1>11, <1>21, MarkMeans
        <2>2. NotNoted(k)
            BY <1>14, <1>15, <2>1 DEF NotNoted
        <2>3. SameEntry(k)
            BY <1>1, <1>2, <1>4, <1>21, EntryUntouched
        <2>. QED  BY <1>4, <2>2, <2>3, LedgerKept DEF LedgerInv
    <1>22. DecisionsNumbered'
        <2>1. IsFiniteSet(Decisions')
            BY <1>1, <1>12, FS_AddElement DEF DecisionsNumbered
        <2>2. Extends(queue', queue)
            BY <1>8, <1>11
        <2>3. h.sequence < queue'.next_sequence
            BY <1>1, <1>8, <1>9, <1>11 DEF Extends
        <2>4. \A x \in Decisions' :
                  x \in Decisions \/ (x.sequence < queue'.next_sequence /\ x.tick <= tick' /\ JobOf(x) \in Released')
            BY <1>1, <1>4, <1>8, <1>9, <1>11, <1>12, <2>3
        <2>. QED  BY <1>1, <1>4, <2>1, <2>2, <2>4, NumberedKept
    <1>23. \A k \in Released' : LedgerOf(k)'
        BY <1>4, <1>19, <1>20, <1>21
    <1>. QED  BY <1>22, <1>23 DEF LedgerInv

\* A decision that is recorded was noted when it was taken.
LEMMA RecordDecisionLedger ==
    ASSUME HistoryInv, LedgerInv, TypeOK', NEW e \in queue.events, RecordDecision(e)
    PROVE  LedgerInv'
    <1>1. /\ KernelInv /\ TypeOK /\ DecisionsNumbered /\ queue \in EventQueueState /\ tick \in Nat
          /\ e \in Event
        BY PendingFields DEF HistoryInv, KernelInv, StateInv, LedgerInv, TypeOK
    <1>2. /\ queue' = Popped(queue, e) /\ trace' = Append(trace, e) /\ e.phase = "Scheduling"
          /\ UNCHANGED <<config, tick, jobs, resource>>
        BY DEF RecordDecision
    <1>3. e \in Decisions
        BY <1>2 DEF Decisions, Of
    <1>4. Decisions' = Decisions \ {e}
        BY <1>1, <1>2, TakenEvent DEF Decisions, Of
    <1>5. NothingNoted
        BY <1>1, <1>2, <1>3, <1>4, MovedIsNoted
    <1>6. Released' = Released
        BY <1>2 DEF Released
    <1>7. ASSUME NEW k \in Released PROVE LedgerOf(k)'
        <2>1. SameEntry(k)
            BY <1>2 DEF SameEntry, OpenSince
        <2>. QED  BY <1>2, <1>5, <2>1, NotedOfAll, LedgerKept DEF LedgerInv
    <1>8. DecisionsNumbered'
        <2>1. IsFiniteSet(Decisions')
            BY <1>1, <1>4, FS_Subset DEF DecisionsNumbered
        <2>2. Extends(queue', queue)
            BY <1>1, <1>2, TakingExtends
        <2>3. JobOf(e) \in Released
            BY <1>1, <1>3 DEF DecisionsNumbered
        <2>. QED  BY <1>1, <1>2, <1>4, <1>6, <2>1, <2>2, <2>3, NumberedKept
    <1>9. \A k \in Released' : LedgerOf(k)'
        BY <1>6, <1>7
    <1>. QED  BY <1>8, <1>9 DEF LedgerInv

\* A release, accepted or refused.
LEMMA ReleaseJobLedger ==
    ASSUME HistoryInv, LedgerInv, TypeOK', Quiet(queue', queue), NEW e \in batch, ReleaseJob(e)
    PROVE  LedgerInv'
    <1>1. /\ KernelInv /\ TypeOK /\ MembershipAgrees /\ DecisionsNumbered /\ e \in Event /\ tick \in Nat
        BY DEF HistoryInv, KernelInv, StateInv, LedgerInv, TypeOK
    <1>2. PICK j : j = JobOf(e)
        OBVIOUS
    <1>3. /\ UNCHANGED <<config, tick, resource>> /\ e.phase = "JobRelease" /\ j \notin Released
          /\ j[1] = e.entities.task
          /\ \/ UNCHANGED <<jobs, trace>>
             \/ /\ Released' = Released \cup {j} /\ \A k \in Released : jobs'[k] = jobs[k]
                /\ jobs'[j].lifecycle = "Ready" /\ jobs'[j].remaining = Demand(config, e.entities.task)
                /\ jobs'[j].first_start = Absent /\ jobs'[j].preemptions = 0
                /\ trace' = Append(trace, e)
        BY <1>1, <1>2, ReleaseEffect DEF JobOf
    <1>4. Decisions' = Decisions /\ Extends(queue', queue) /\ IsFiniteSet(Decisions')
        BY <1>1 DEF Quiet, Decisions, Of, DecisionsNumbered
    <1>5. e.type = "JobRelease"
        BY <1>3 DEF HistoryInv, FrontierSound, ReleaseTyped
    <1>6. CASE UNCHANGED <<jobs, trace>>
        <2>1. Released' = Released
            BY <1>6 DEF Released
        <2>2. ASSUME NEW k \in Released PROVE LedgerOf(k)'
            <3>1. SameEntry(k)
                BY <1>3, <1>6 DEF SameEntry, OpenSince
            <3>2. NothingNoted
                BY <1>4, <1>6, UnchangedIsNoted
            <3>. QED  BY <1>3, <3>1, <3>2, NotedOfAll, LedgerKept DEF LedgerInv
        <2>3. DecisionsNumbered'
            BY <1>1, <1>3, <1>4, <1>6, <2>1, NumberedKept
        <2>4. \A k \in Released' : LedgerOf(k)'
            BY <2>1, <2>2
        <2>. QED  BY <2>3, <2>4 DEF LedgerInv
    <1>7. CASE ~ UNCHANGED <<jobs, trace>>
        <2>1. /\ Released' = Released \cup {j} /\ \A k \in Released : jobs'[k] = jobs[k]
              /\ jobs'[j].lifecycle = "Ready" /\ jobs'[j].remaining = Demand(config, j[1])
              /\ jobs'[j].first_start = Absent /\ jobs'[j].preemptions = 0
              /\ trace' = Append(trace, e)
            BY <1>3, <1>7
        <2>2. Noted(e)
            BY <1>1, <1>4, <2>1, RecordedIsNoted
        <2>3. LedgerOf(j)'
            BY <1>1, <1>2, <1>3, <1>5, <2>1, <2>2, NotedOfAll, ReleaseLedger
        <2>4. ASSUME NEW k \in Released PROVE LedgerOf(k)'
            <3>1. k # j
                BY <1>3
            <3>2. NotNoted(k)
                BY <1>1, <1>2, <2>2, <3>1, NotedOfAll, OthersNotNoted
            <3>3. SameEntry(k)
                BY <1>3, <2>1 DEF SameEntry, OpenSince
            <3>. QED  BY <1>3, <3>2, <3>3, LedgerKept DEF LedgerInv
        <2>5. DecisionsNumbered'
            BY <1>1, <1>2, <1>3, <1>4, <2>1, NumberedKept
        <2>6. \A k \in Released' : LedgerOf(k)'
            BY <2>1, <2>3, <2>4
        <2>. QED  BY <2>5, <2>6 DEF LedgerInv
    <1>. QED  BY <1>6, <1>7

\* A step that notes nothing: it records nothing, or something about no job.
LEMMA UntoldLedger ==
    ASSUME HistoryInv, LedgerInv, TypeOK', Quiet(queue', queue), UNCHANGED <<config, resource>>,
           tick <= tick', Released' = Released,
           \A k \in Released : /\ jobs'[k].lifecycle = jobs[k].lifecycle
                               /\ jobs'[k].resource = jobs[k].resource
                               /\ jobs'[k].remaining = jobs[k].remaining
                               /\ jobs'[k].preemptions = jobs[k].preemptions
                               /\ jobs'[k].first_start = jobs[k].first_start,
           \/ UNCHANGED trace
           \/ \E e \in Event : trace' = Append(trace, e) /\ e.type \notin JobEventTypes
    PROVE  LedgerInv'
    <1>1. TypeOK /\ DecisionsNumbered /\ tick' \in Nat
        BY DEF HistoryInv, KernelInv, StateInv, LedgerInv, TypeOK
    <1>2. Decisions' = Decisions /\ Extends(queue', queue) /\ IsFiniteSet(Decisions')
        BY <1>1 DEF Quiet, Decisions, Of, DecisionsNumbered
    <1>3. \A k : NotNoted(k)
        <2>1. CASE UNCHANGED trace
            BY <1>2, <2>1, UnchangedIsNoted, NotedOfAll
        <2>2. CASE ~ UNCHANGED trace
            <3>1. PICK e \in Event : trace' = Append(trace, e) /\ e.type \notin JobEventTypes
                BY <2>2
            <3>2. Noted(e)
                BY <1>1, <1>2, <3>1, RecordedIsNoted
            <3>. QED  BY <1>1, <3>1, <3>2, NotedOfAll, OthersNotNoted
        <2>. QED  BY <2>1, <2>2
    <1>4. ASSUME NEW k \in Released PROVE LedgerOf(k)'
        <2>1. SameEntry(k)
            BY DEF SameEntry, OpenSince
        <2>. QED  BY <1>3, <2>1, LedgerKept DEF LedgerInv
    <1>5. DecisionsNumbered'
        BY <1>1, <1>2, NumberedKept
    <1>6. \A k \in Released' : LedgerOf(k)'
        BY <1>4
    <1>. QED  BY <1>5, <1>6 DEF LedgerInv

\* Every step of the engine keeps the ledgers.
LEMMA NextLedgers == HistoryInv /\ LedgerInv /\ [Next]_vars => LedgerInv'
    <1>. SUFFICES ASSUME HistoryInv, LedgerInv, [Next]_vars PROVE LedgerInv'
        OBVIOUS
    <1>1. /\ KernelInv /\ TypeOK /\ TypeOK' /\ DecisionsNumbered /\ tick \in Nat
          /\ \A x \in queue.events : EventTyped(x)
        BY NextStateInv DEF HistoryInv, KernelInv, StateInv, LedgerInv, TypeOK, DecisionsNumbered
    <1>2. CASE \E r \in ResourceIds : \E j \in ready[r] : Dispatch(r, j) \/ Preempt(r, j)
        BY <1>1, <1>2, DispatchLedger, PreemptStepLedger
    <1>3. CASE \E e \in queue.events : RecordDecision(e)
        BY <1>1, <1>3, RecordDecisionLedger
    <1>4. CASE /\ ~ \E r \in ResourceIds : \E j \in ready[r] : Dispatch(r, j) \/ Preempt(r, j)
               /\ ~ \E e \in queue.events : RecordDecision(e)
        <2>1. Quiet(queue', queue)
            BY <1>1, <1>4, QuietSteps
        <2>2. ASSUME UNCHANGED <<config, resource, jobs>>, tick <= tick',
                     \/ UNCHANGED trace
                     \/ \E e \in Event : trace' = Append(trace, e) /\ e.type \notin JobEventTypes
              PROVE  LedgerInv'
            <3>1. Released' = Released
                BY <2>2 DEF Released
            <3>. QED  BY <1>1, <2>1, <2>2, <3>1, UntoldLedger
        <2>3. CASE Settle
            <3>1. PICK e \in queue.events : \/ AcceptCompletion(e) \/ IgnoreStaleCompletion(e)
                                            \/ DeliverMessage(e) \/ CheckDeadline(e)
                BY <2>3 DEF Settle
            <3>2. e \in Event /\ EventTyped(e)
                BY <1>1, PendingFields
            <3>3. CASE AcceptCompletion(e)
                BY <1>1, <3>3, AcceptCompletionLedger
            <3>4. CASE IgnoreStaleCompletion(e)
                BY <1>1, <2>2, <3>4 DEF IgnoreStaleCompletion
            <3>5. CASE DeliverMessage(e)
                <4>1. e.type \notin JobEventTypes
                    BY <3>2, <3>5 DEF DeliverMessage, Settling, EventTyped, JobEventTypes
                <4>. QED  BY <1>1, <2>2, <3>2, <3>5, <4>1 DEF DeliverMessage
            <3>6. CASE CheckDeadline(e)
                <4>1. e.type \notin JobEventTypes
                    BY <3>2, <3>6 DEF CheckDeadline, Settling, EventTyped, JobEventTypes
                <4>2. /\ UNCHANGED <<config, resource, tick>>
                      /\ (jobs' = jobs \/ \E j \in Released : jobs' = [jobs EXCEPT ![j].missed = TRUE])
                      /\ trace' = trace \/ trace' = Append(trace, e)
                    BY <3>6 DEF CheckDeadline, DeadlineMatches
                <4>3. CASE jobs' # jobs
                    <5>1. PICK j \in Released : jobs' = [jobs EXCEPT ![j].missed = TRUE]
                        BY <4>2, <4>3
                    <5>2. jobs[j] \in JobState
                        BY <1>1 DEF TypeOK
                    <5>3. /\ Released' = Released
                          /\ \A k \in Released : /\ jobs'[k].lifecycle = jobs[k].lifecycle
                                                 /\ jobs'[k].resource = jobs[k].resource
                                                 /\ jobs'[k].remaining = jobs[k].remaining
                                                 /\ jobs'[k].preemptions = jobs[k].preemptions
                                                 /\ jobs'[k].first_start = jobs[k].first_start
                        BY <1>1, <5>1, <5>2 DEF TypeOK, Released, JobState
                    <5>4. UNCHANGED trace \/ \E x \in Event : trace' = Append(trace, x) /\ x.type \notin JobEventTypes
                        BY <3>2, <4>1, <4>2
                    <5>. QED  BY <1>1, <2>1, <4>2, <5>3, <5>4, UntoldLedger
                <4>. QED  BY <1>1, <2>2, <3>2, <4>1, <4>2, <4>3
            <3>. QED  BY <3>1, <3>3, <3>4, <3>5, <3>6
        <2>4. CASE ProcessReleases
            <3>1. ASSUME NEW e \in batch, ReleaseJob(e) PROVE LedgerInv'
                BY <1>1, <2>1, <3>1, ReleaseJobLedger
            <3>. QED  BY <1>1, <2>2, <2>4, <3>1 DEF ProcessReleases, CollectReleases, ReleaseRefused
        <2>5. CASE Schedule
            <3>1. \E r \in ResourceIds : LeaveResource(r)
                BY <1>4, <2>5 DEF Schedule
            <3>. QED  BY <1>1, <2>2, <3>1 DEF LeaveResource
        <2>6. CASE Act
            <3>1. ASSUME NEW e \in queue.events, SendMessage(e) PROVE LedgerInv'
                <4>1. UNCHANGED <<config, resource, jobs, tick>>
                      /\ (trace' = trace \/ (trace' = Append(trace, e) /\ e.phase = "CausedAction"))
                    BY <3>1 DEF SendMessage
                <4>2. e \in Event /\ EventTyped(e)
                    BY <1>1, PendingFields
                <4>3. e.phase = "CausedAction" => e.type \notin JobEventTypes
                    BY <4>2 DEF EventTyped, JobEventTypes
                <4>. QED  BY <1>1, <2>2, <4>1, <4>2, <4>3
            <3>2. ASSUME EndTick PROVE LedgerInv'
                BY <1>1, <2>2, <3>2 DEF EndTick
            <3>. QED  BY <1>4, <2>6, <3>1, <3>2 DEF Act
        <2>7. CASE \E e \in queue.events : BeginTick(e)
            <3>1. PICK e \in queue.events : BeginTick(e)
                BY <2>7
            <3>2. tick <= tick' /\ UNCHANGED <<config, resource, jobs, trace>>
                <4>1. e.tick \in Nat
                    BY <1>1, PendingFields
                <4>. QED  BY <1>1, <3>1, <4>1 DEF BeginTick
            <3>. QED  BY <2>2, <3>2
        <2>8. CASE (\E t \in TaskIds : QueueFirstRelease(t)) \/ Initialized \/ FinishEmpty
            BY <1>1, <2>2, <2>8 DEF QueueFirstRelease, Initialized, FinishEmpty
        <2>9. CASE \E d \in TaskIds : PublishRoute(d)
            BY <1>1, <2>2, <2>9 DEF PublishRoute
        <2>10. CASE StepAfterEnd \/ UNCHANGED vars
            BY <1>1, <2>2, <2>10 DEF StepAfterEnd, vars
        <2>. QED  BY <2>3, <2>4, <2>5, <2>6, <2>7, <2>8, <2>9, <2>10 DEF Next
    <1>. QED  BY <1>2, <1>3, <1>4

\* No ledger is open when a run begins.
LEMMA InitLedgers == Init => LedgerInv
    <1>. SUFFICES ASSUME Init PROVE LedgerInv
        OBVIOUS
    <1>1. Released = {} /\ Decisions = {} /\ queue.events = {} /\ DOMAIN trace = {}
        BY DEF Init, Released, Decisions, Of, EmptyQueue
    <1>. QED  BY <1>1, FS_EmptySet DEF LedgerInv, DecisionsNumbered

\* After a tick every decision is in the trace.
LEMMA AllDecisionsRecorded == HistoryInv /\ LedgerInv /\ Inspectable => Decisions = {}
    <1>. SUFFICES ASSUME HistoryInv, LedgerInv, Inspectable, NEW e \in Decisions PROVE FALSE
        OBVIOUS
    <1>1. TypeOK /\ e \in queue.events /\ e.tick <= tick /\ tick <= config.stop
        BY DEF HistoryInv, KernelInv, StateInv, PositionSound, LedgerInv, DecisionsNumbered, Decisions, Of
    <1>2. e.tick \in Nat /\ tick \in Nat /\ config.stop \in Nat
        BY <1>1, PendingFields, ConfigType DEF TypeOK
    <1>3. e.tick > tick
        <2>1. CASE stage = "between"
            BY <1>1, <2>1 DEF HistoryInv, KernelInv, NothingInThePast, Inspectable
        <2>2. CASE stage = "finished"
            <3>1. e.tick > config.stop
                BY <1>1, <2>2 DEF HistoryInv, KernelInv, PositionSound
            <3>. QED  BY <1>1, <1>2, <3>1
        <2>. QED  BY <2>1, <2>2 DEF Inspectable
    <1>. QED  BY <1>1, <1>2, <1>3

\* Then the trace alone gives counts and times.
LEMMA TraceAloneTells ==
    ASSUME TypeOK, Decisions = {}, NEW j, NEW types
    PROVE  /\ Count(j, types) = Cardinality(TraceOf(j, types))
           /\ Time(j, types) = SumFunctionOnSet(TraceTicks, TraceOf(j, types))
    <1>1. About(Decisions, j, types) = {}
        BY DEF About
    <1>2. Cardinality({}) = 0
        BY FS_EmptySet
    <1>. QED  BY <1>1, <1>2, SumOfNone, TraceFinite DEF Count, Time

\* The ledgers, read from the trace.
LEMMA LedgersAreRecorded == HistoryInv /\ LedgerInv => TraceAccountsForJobs
    <1>. SUFFICES ASSUME HistoryInv, LedgerInv, Inspectable, NEW j \in Released
                  PROVE  /\ Cardinality(TraceOf(j, Begins)) =
                                Cardinality(TraceOf(j, Ends))
                                    + IF jobs[j].lifecycle = "Running" THEN 1 ELSE 0
                         /\ Cardinality(TraceOf(j, {"JobPreempt"})) = jobs[j].preemptions
                         /\ Cardinality(TraceOf(j, {"JobRelease"})) = 1
                         /\ Cardinality(TraceOf(j, {"JobStart"})) = IF Started(jobs[j]) THEN 1 ELSE 0
                         /\ SumFunctionOnSet(TraceTicks, TraceOf(j, Ends)) + OpenSince(j)
                                - SumFunctionOnSet(TraceTicks, TraceOf(j, Begins))
                                = Demand(config, j[1]) - jobs[j].remaining
        BY DEF TraceAccountsForJobs, Begins, Ends, OpenSince
    <1>1. TypeOK /\ Decisions = {}
        BY AllDecisionsRecorded DEF HistoryInv, KernelInv, StateInv
    <1>2. \A types : /\ Count(j, types) = Cardinality(TraceOf(j, types))
                     /\ Time(j, types) = SumFunctionOnSet(TraceTicks, TraceOf(j, types))
        BY <1>1, TraceAloneTells
    <1>. QED  BY <1>2 DEF LedgerInv, LedgerOf

\* The canonical trace is ordered and causal, and tells alone what every job did: its starts,
\* preemptions and finish, and the work it was charged (process_post_scheduling_events and
\* schedule, simulation_engine.cpp:212-226).
THEOREM TraceTellsJobs == Spec => []TraceSound
    <1>1. HistoryInv /\ LedgerInv /\ [Next]_vars => LedgerInv'
        BY NextLedgers
    <1>2. HistoryInv /\ LedgerInv => TraceSound
        BY LedgersAreRecorded DEF HistoryInv, TraceSound
    <1>. QED  BY <1>1, <1>2, InitLedgers, HistoryInvariance, PTL DEF Spec

=============================================================================
