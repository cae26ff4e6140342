---------------------------- MODULE EngineProofs ----------------------------
(***************************************************************************)
(* Proofs about the simulation engine for every set of tasks, resources    *)
(* and valid configurations: its types and where its jobs are; then, from  *)
(* a stronger inductive invariant, that the pending events, the schedule   *)
(* and the deadline verdicts are right.                                    *)
(*                                                                         *)
(* TypeOK alone is not inductive: that a completion charges a known job,   *)
(* that a preemption finds one, and that a route is published for a known  *)
(* completion rest on where jobs are (MembershipAgrees) and on what queued *)
(* candidates name.  StateInv is their conjunction.                        *)
(***************************************************************************)
EXTENDS EngineInvariants, WellFoundedInduction, TLAPS

-----------------------------------------------------------------------------
(* The queue as a value. *)

\* The phases and types the handlers schedule exist.
LEMMA Vocabulary ==
    /\ Absent \in Int
    /\ "ExecutionCompletion" \in EventPhase /\ "MessageDelivery" \in EventPhase
    /\ "DeadlineCheck" \in EventPhase /\ "JobRelease" \in EventPhase
    /\ "Scheduling" \in EventPhase /\ "CausedAction" \in EventPhase
    /\ "CausedActionLate" \in EventPhase
    /\ "JobRelease" \in EventType /\ "JobStart" \in EventType /\ "JobPreempt" \in EventType
    /\ "JobResume" \in EventType /\ "JobFinish" \in EventType /\ "DeadlineMiss" \in EventType
    /\ "MessageSend" \in EventType /\ "MessageDelivery" \in EventType
    BY DEF Absent, EventPhase, EventType

\* Scheduling a well-typed event yields a well-typed queue.
LEMMA ScheduledType ==
    ASSUME NEW q \in EventQueueState, NEW n \in Nat, NEW phase \in EventPhase,
           NEW type \in EventType, NEW entities \in Entities, NEW cause \in Int
    PROVE  /\ Scheduled(q, n, phase, type, entities, cause) \in EventQueueState
           /\ ScheduledEvent(q, n, phase, type, entities, cause) \in Event
    BY DEF Scheduled, ScheduledEvent, EventQueueState, Event

\* Removing an event keeps the queue well-typed.
LEMMA PoppedType ==
    ASSUME NEW q \in EventQueueState, NEW e
    PROVE  Popped(q, e) \in EventQueueState
    BY DEF Popped, EventQueueState

\* A queued Communication route has an integer delay.
LEMMA RouteDelayType ==
    ASSUME NEW c \in Config, NEW t, NEW d \in Destinations(c, t)
    PROVE  RouteDelay(c, t, d) \in Int /\ d \in TaskIds
    <1>1. PICK route \in CommunicationRoutes(c) : route.source = t /\ route.destination = d
        BY DEF Destinations
    <1>2. \A x \in CommunicationRoutes(c) : x.delay \in Int /\ x.destination \in TaskIds
        BY DEF CommunicationRoutes, Config, MessageRouteSpec
    <1>3. (CHOOSE x \in CommunicationRoutes(c) : x.source = t /\ x.destination = d)
              \in CommunicationRoutes(c)
        BY <1>1
    <1>. QED  BY <1>1, <1>2, <1>3 DEF RouteDelay

-----------------------------------------------------------------------------
\* The initial state satisfies the invariant.
LEMMA InitStateInv == Init => StateInv
    <1>. SUFFICES ASSUME Init PROVE StateInv
        OBVIOUS
    <1>. USE ConfigAssumption DEF Init
    <1>1. ValidConfig(config)
        OBVIOUS
    <1>2. release \in [TaskIds -> ReleaseState]
        BY <1>1 DEF InitialRelease, ReleaseState, ValidConfig, Config, TaskSpec, Tick
    <1>3. TypeOK
        BY <1>1, <1>2 DEF TypeOK, Stage, Fault, EmptyQueue, EventQueueState, Released,
           IdleResource, ResourceState, Absent, ReleasingTasks
    <1>4. CandidatesNamed /\ PublicationNamed
        BY DEF CandidatesNamed, NamedIn, PublicationNamed, EmptyQueue
    <1>5. MembershipAgrees
        BY DEF MembershipAgrees, Released, Idle, IdleResource
    <1>. QED  BY <1>3, <1>4, <1>5 DEF StateInv

-----------------------------------------------------------------------------
(* Facts every action lemma uses. *)

\* The parts of a valid configuration that the handlers compute with.
LEMMA ConfigType ==
    ASSUME TypeOK
    PROVE  /\ TaskIds \subseteq Nat /\ ResourceIds \subseteq Nat /\ MaxTick \in Nat
           /\ config.stop \in Nat
           /\ config.assignment \in [TaskIds -> ResourceIds]
           /\ \A t \in TaskIds : /\ config.task[t].period \in Nat
                                 /\ config.task[t].deadline \in Nat
                                 /\ config.task[t].offset \in Nat
                                 /\ config.task[t].priority \in Nat
    <1>1. config \in Config /\ MaxTick \in Nat /\ Tick \subseteq Nat
        BY ConfigAssumption DEF TypeOK, ValidConfig, Tick
    <1>2. config.task \in [TaskIds -> TaskSpec]
        BY <1>1 DEF Config
    <1>3. \A t \in TaskIds : config.task[t] \in TaskSpec
        BY <1>2
    <1>. QED  BY <1>1, <1>3, ConfigAssumption DEF Config, TaskSpec

\* An execution profile is a number of ticks.
LEMMA DemandType ==
    ASSUME TypeOK, NEW t \in TaskIds, NEW r \in ResourceIds
    PROVE  config.demand[t, r] \in Nat
    <1>1. config \in Config /\ Tick \subseteq Nat
        BY ConfigAssumption DEF TypeOK, ValidConfig, Tick
    <1>2. config.demand \in [TaskIds \X ResourceIds -> Tick]
        BY <1>1 DEF Config
    <1>. QED  BY <1>1, <1>2

\* A scheduled event keeps the candidates named if it is no completion or names its job and resource.
LEMMA ScheduledNamed ==
    ASSUME NEW q \in EventQueueState, NamedIn(q), NEW n, NEW phase, NEW type, NEW entities,
           NEW cause,
           phase = "ExecutionCompletion" =>
               /\ <<entities.task, entities.job>> \in JobIdentity
               /\ entities.resource \in ResourceIds
    PROVE  NamedIn(Scheduled(q, n, phase, type, entities, cause))
    BY DEF NamedIn, Scheduled, ScheduledEvent

\* Fewer events.
LEMMA FewerEvents ==
    ASSUME NEW q \in EventQueueState, NamedIn(q), NEW p, p.events \subseteq q.events
    PROVE  NamedIn(p)
    BY DEF NamedIn

\* A pending event is an event.
LEMMA PendingType == TypeOK => queue.events \subseteq Event
    BY DEF TypeOK, EventQueueState

\* The entities a job event names.
LEMMA JobEntitiesType ==
    ASSUME NEW t \in Int, NEW k \in Int, NEW r \in Int
    PROVE  JobEntities(t, k, r) \in Entities
    BY DEF JobEntities, Entities, Absent

\* An action that leaves jobs, resources and Ready sets alone.
LEMMA MembershipUnchanged ==
    ASSUME MembershipAgrees, UNCHANGED <<jobs, resource, ready>>
    PROVE  MembershipAgrees'
    BY DEF MembershipAgrees, Released, Idle

\* An action that only takes an event from the queue and changes the position.
LEMMA PositionStep ==
    ASSUME StateInv, stage' \in Stage, fault' \in Fault, tick' \in Nat, stage' # "publish",
           queue' \in EventQueueState, NamedIn(queue'), trace' \in Seq(Event),
           todo' \in SUBSET (TaskIds \cup ResourceIds), batch' \in SUBSET Event,
           release' \in [TaskIds -> ReleaseState], messages' \in Seq(Message),
           UNCHANGED <<config, jobs, resource, ready>>
    PROVE  StateInv'
    <1>1. TypeOK'
        BY DEF StateInv, TypeOK, Released
    <1>2. CandidatesNamed' /\ PublicationNamed'
        BY DEF CandidatesNamed, PublicationNamed
    <1>3. MembershipAgrees'
        BY MembershipUnchanged DEF StateInv
    <1>. QED  BY <1>1, <1>2, <1>3 DEF StateInv

\* Throwing is a change of position.
LEMMA ThrowType ==
    ASSUME NEW reason \in Fault, Throw(reason)
    PROVE  stage' \in Stage /\ fault' \in Fault /\ stage' = "failed"
    BY DEF Throw, Stage

-----------------------------------------------------------------------------
(* One lemma per action. *)

\* initialize() queues a first release for a configured task.
LEMMA QueueFirstReleaseStep ==
    ASSUME StateInv, NEW t \in TaskIds, QueueFirstRelease(t)
    PROVE  StateInv'
    <1>1. TypeOK /\ CandidatesNamed
        BY DEF StateInv
    <1>2. config.assignment[t] \in ResourceIds /\ config.assignment[t] \in Int /\ t \in Int
        BY <1>1, ConfigType
    <1>3. /\ release[t] \in ReleaseState
          /\ release[t].tick \in Nat /\ release[t].job \in Nat /\ release[t].job \in Int
        BY <1>1 DEF TypeOK, ReleaseState
    <1>4. JobEntities(t, release[t].job, config.assignment[t]) \in Entities
        BY <1>2, <1>3, JobEntitiesType
    <1>5. queue' = Scheduled(queue, release[t].tick, "JobRelease", "JobRelease",
                             JobEntities(t, release[t].job, config.assignment[t]), Absent)
        BY DEF QueueFirstRelease, ScheduleCurrentRelease
    <1>6. queue' \in EventQueueState
        BY <1>1, <1>3, <1>4, <1>5, ScheduledType, Vocabulary DEF TypeOK
    <1>8. NamedIn(queue')
        BY <1>1, <1>5, ScheduledNamed DEF TypeOK, CandidatesNamed
    <1>7. release' \in [TaskIds -> ReleaseState]
        BY <1>1, <1>2, <1>3 DEF TypeOK, ReleaseState, QueueFirstRelease, ScheduleCurrentRelease
    <1>. QED  BY <1>1, <1>6, <1>7, <1>8, PositionStep DEF TypeOK, QueueFirstRelease

\* Initialized, BeginTick, FinishEmpty and EndTick move between the loops.
LEMMA MoveStep ==
    ASSUME StateInv,
           \/ Initialized
           \/ \E e \in queue.events : BeginTick(e)
           \/ FinishEmpty
           \/ EndTick
    PROVE  StateInv'
    <1>1. TypeOK /\ CandidatesNamed /\ queue.events \subseteq Event
        BY PendingType DEF StateInv
    <1>2. stage' \in Stage /\ fault' \in Fault /\ stage' # "publish" /\ tick' \in Nat
        <2>1. CASE \E e \in queue.events : BeginTick(e)
            BY <1>1, <2>1 DEF BeginTick, Throw, Stage, Fault, Event, TypeOK
        <2>2. CASE Initialized \/ FinishEmpty \/ EndTick
            BY <1>1, <2>2 DEF Initialized, FinishEmpty, EndTick, Stage, TypeOK
        <2>. QED  BY <2>1, <2>2
    <1>3. UNCHANGED <<config, queue, trace, release, jobs, resource, ready, messages, todo, batch>>
        BY DEF Initialized, BeginTick, FinishEmpty, EndTick
    <1>. QED  BY <1>1, <1>2, <1>3, PositionStep DEF TypeOK, CandidatesNamed

\* A stale completion candidate disappears and nothing else happens.
LEMMA IgnoreStaleCompletionStep ==
    ASSUME StateInv, NEW e \in queue.events, IgnoreStaleCompletion(e)
    PROVE  StateInv'
    <1>1. TypeOK /\ CandidatesNamed
        BY DEF StateInv
    <1>2. queue' \in EventQueueState /\ NamedIn(queue')
        BY <1>1, PoppedType, FewerEvents DEF IgnoreStaleCompletion, Popped, TypeOK, CandidatesNamed,
           EventQueueState
    <1>. QED  BY <1>1, <1>2, PositionStep DEF TypeOK, IgnoreStaleCompletion, Settling

\* Taking an event keeps the queue in order; the event extends the trace.
LEMMA TakeEvent ==
    ASSUME TypeOK, CandidatesNamed, NEW e \in queue.events
    PROVE  /\ Popped(queue, e) \in EventQueueState
           /\ NamedIn(Popped(queue, e))
           /\ e \in Event
           /\ Append(trace, e) \in Seq(Event)
    <1>1. Popped(queue, e) \in EventQueueState /\ Popped(queue, e).events \subseteq queue.events
        BY PoppedType DEF TypeOK, Popped, EventQueueState
    <1>2. NamedIn(Popped(queue, e))
        BY <1>1, FewerEvents DEF TypeOK, CandidatesNamed
    <1>3. e \in Event
        BY PendingType
    <1>. QED  BY <1>1, <1>2, <1>3 DEF TypeOK

\* Replacing one message by another.
LEMMA ReplaceMessage ==
    ASSUME NEW s \in Seq(Message), NEW i \in DOMAIN s, NEW m \in Message
    PROVE  [s EXCEPT ![i] = m] \in Seq(Message)
    OBVIOUS

\* A delivery marks a known message.
LEMMA DeliverMessageStep ==
    ASSUME StateInv, NEW e \in queue.events, DeliverMessage(e)
    PROVE  StateInv'
    <1>1. TypeOK /\ CandidatesNamed
        BY DEF StateInv
    <1>2. queue' \in EventQueueState /\ NamedIn(queue') /\ trace' \in Seq(Event)
        BY <1>1, TakeEvent DEF DeliverMessage, TypeOK
    <1>3. messages' \in Seq(Message)
        <2>1. CASE DeliveryMatches(e)
            <3>1. e.entities.message \in DOMAIN messages
                BY <2>1 DEF DeliveryMatches
            <3>2. messages[e.entities.message] \in Message
                BY <1>1, <3>1 DEF TypeOK
            <3>3. [messages[e.entities.message] EXCEPT !.lifecycle = "Delivered"] \in Message
                BY <3>2 DEF Message, MessageLifecycle
            <3>4. messages' = [messages EXCEPT ![e.entities.message] =
                                   [messages[e.entities.message] EXCEPT !.lifecycle = "Delivered"]]
                BY <2>1 DEF DeliverMessage
            <3>. QED  BY <1>1, <3>1, <3>3, <3>4, ReplaceMessage DEF TypeOK
        <2>2. CASE ~ DeliveryMatches(e)
            BY <1>1, <2>2 DEF DeliverMessage, TypeOK
        <2>. QED  BY <2>1, <2>2
    <1>4. stage' \in Stage /\ fault' \in Fault /\ stage' # "publish"
        BY <1>1 DEF DeliverMessage, Settling, Throw, TypeOK, Stage, Fault
    <1>. QED  BY <1>1, <1>2, <1>3, <1>4, PositionStep DEF TypeOK, DeliverMessage

\* A job whose placement and lifecycle do not change stays where it is.
LEMMA MembershipSameLifecycle ==
    ASSUME MembershipAgrees, UNCHANGED <<resource, ready>>, Released' = Released,
           \A j \in Released : /\ jobs'[j].resource = jobs[j].resource
                               /\ jobs'[j].lifecycle = jobs[j].lifecycle
    PROVE  MembershipAgrees'
    BY DEF MembershipAgrees, Idle

\* A deadline check marks a known job.
LEMMA CheckDeadlineStep ==
    ASSUME StateInv, NEW e \in queue.events, CheckDeadline(e)
    PROVE  StateInv'
    <1>. DEFINE j == DeadlineOf(e)
    <1>1. TypeOK /\ CandidatesNamed /\ MembershipAgrees
        BY DEF StateInv
    <1>2. queue' \in EventQueueState /\ NamedIn(queue')
        BY <1>1, TakeEvent DEF CheckDeadline
    <1>3. trace' \in Seq(Event)
        BY <1>1, TakeEvent DEF CheckDeadline, TypeOK
    <1>4. stage' \in Stage /\ fault' \in Fault /\ stage' # "publish"
        BY <1>1 DEF CheckDeadline, Settling, Throw, TypeOK, Stage, Fault
    <1>5. /\ Released' = Released /\ jobs' \in [Released -> JobState]
          /\ \A k \in Released : /\ jobs'[k].resource = jobs[k].resource
                                 /\ jobs'[k].lifecycle = jobs[k].lifecycle
        <2>1. CASE DeadlineMatches(e) /\ Active(j)
            <3>1. j \in Released /\ jobs[j] \in JobState
                BY <1>1, <2>1 DEF DeadlineMatches, TypeOK
            <3>2. jobs' = [jobs EXCEPT ![j] = [jobs[j] EXCEPT !.missed = TRUE]]
                BY <2>1 DEF CheckDeadline
            <3>3. /\ [jobs[j] EXCEPT !.missed = TRUE] \in JobState
                  /\ [jobs[j] EXCEPT !.missed = TRUE].resource = jobs[j].resource
                  /\ [jobs[j] EXCEPT !.missed = TRUE].lifecycle = jobs[j].lifecycle
                BY <3>1 DEF JobState
            <3>. QED  BY <1>1, <3>1, <3>2, <3>3 DEF TypeOK, Released
        <2>2. CASE ~ (DeadlineMatches(e) /\ Active(j))
            <3>1. jobs' = jobs
                BY <2>2 DEF CheckDeadline
            <3>. QED  BY <1>1, <3>1 DEF TypeOK, Released
        <2>. QED  BY <2>1, <2>2
    <1>6. UNCHANGED <<config, tick, release, resource, ready, messages, todo, batch>>
        BY DEF CheckDeadline
    <1>7. TypeOK'
        BY <1>1, <1>2, <1>3, <1>4, <1>5, <1>6 DEF TypeOK
    <1>8. MembershipAgrees'
        BY <1>1, <1>5, <1>6, MembershipSameLifecycle
    <1>. QED  BY <1>2, <1>4, <1>7, <1>8 DEF StateInv, CandidatesNamed, PublicationNamed

\* Charging interval-exact work keeps the typing of a job.
LEMMA CompletedJobType ==
    ASSUME TypeOK, NEW j \in Released
    PROVE  /\ CompletedJob(jobs[j]) \in JobState
           /\ CompletedJob(jobs[j]).lifecycle = "Completed"
           /\ CompletedJob(jobs[j]).resource = jobs[j].resource
    <1>1. jobs[j] \in JobState /\ tick \in Int
        BY DEF TypeOK
    <1>. QED  BY <1>1 DEF CompletedJob, JobState, JobLifecycle

\* Idling a resource after a nonnegative interval keeps its typing.
LEMMA IdledResourceType ==
    ASSUME TypeOK, NEW r \in ResourceIds, tick - resource[r].since >= 0
    PROVE  IdledResource(resource[r]) \in ResourceState /\ IdledResource(resource[r]).running = NoJob
    <1>1. resource[r] \in ResourceState /\ tick \in Nat
        BY DEF TypeOK
    <1>2. resource[r].busy \in Nat /\ resource[r].since \in Int
        BY <1>1 DEF ResourceState
    <1>3. resource[r].busy + tick - resource[r].since \in Nat
        BY <1>1, <1>2
    <1>. QED  BY <1>3 DEF IdledResource, ResourceState, Absent

\* An accepted completion takes the job off the resource that ran it.
LEMMA AcceptCompletionStep ==
    ASSUME StateInv, NEW e \in queue.events, AcceptCompletion(e)
    PROVE  StateInv'
    <1>. DEFINE j == <<e.entities.task, e.entities.job>>
                r == e.entities.resource
    <1>1. TypeOK /\ CandidatesNamed /\ MembershipAgrees
        BY DEF StateInv
    <1>2. e.phase = "ExecutionCompletion" /\ resource[r].running = j
        BY DEF AcceptCompletion, Settling, CompletionIsCurrent
    <1>3. j \in JobIdentity /\ r \in ResourceIds
        BY <1>1, <1>2 DEF CandidatesNamed, NamedIn
    <1>4. j \in Released /\ jobs[j].resource = r /\ jobs[j].lifecycle = "Running"
        BY <1>1, <1>2, <1>3, NoJobAssumption DEF MembershipAgrees, Idle, JobIdentity
    <1>5. queue' \in EventQueueState /\ NamedIn(queue')
        BY <1>1, TakeEvent DEF AcceptCompletion
    <1>6. e \in Event /\ Append(trace, e) \in Seq(Event)
        BY <1>1, TakeEvent
    <1>7. UNCHANGED <<config, tick, release, ready, messages, batch>>
        BY DEF AcceptCompletion
    <1>8. CASE ~ ChargeCompletes(r, j)
        <2>1. stage' = "failed" /\ fault' = "inconsistent" /\ UNCHANGED <<jobs, resource, trace, todo>>
            BY <1>8 DEF AcceptCompletion, Throw
        <2>. QED  BY <1>1, <1>5, <1>7, <2>1, PositionStep DEF TypeOK, Stage, Fault
    <1>9. CASE ChargeCompletes(r, j)
        <2>1. /\ jobs' = [jobs EXCEPT ![j] = CompletedJob(jobs[j])]
              /\ resource' = [resource EXCEPT ![r] = IdledResource(resource[r])]
              /\ trace' = Append(trace, e)
              /\ todo' = Destinations(config, e.entities.task)
              /\ stage' \in {"settle", "publish"}
              /\ fault' = fault
            BY <1>9 DEF AcceptCompletion
        <2>2. Released' = Released /\ jobs' \in [Released -> JobState]
            BY <1>1, <1>4, <2>1, CompletedJobType DEF TypeOK, Released
        <2>3. resource[r].since \in Int /\ tick \in Int /\ tick - resource[r].since >= 0
            <3>1. resource[r].since \in Int /\ tick \in Int
                BY <1>1, <1>3 DEF TypeOK, ResourceState
            <3>. QED  BY <1>9, <3>1 DEF ChargeCompletes
        <2>4. resource' \in [ResourceIds -> ResourceState] /\ resource'[r].running = NoJob
            BY <1>1, <1>3, <2>1, <2>3, IdledResourceType DEF TypeOK
        <2>5. todo' \in SUBSET (TaskIds \cup ResourceIds)
            BY <1>1, <2>1, RouteDelayType DEF TypeOK, ValidConfig
        <2>6. TypeOK'
            BY <1>1, <1>5, <1>6, <1>7, <2>1, <2>2, <2>4, <2>5 DEF TypeOK, Stage
        <2>7. PublicationNamed'
            <3>1. trace' # <<>> /\ trace'[Len(trace')] = e
                BY <1>1, <1>6, <2>1 DEF TypeOK
            <3>. QED  BY <1>3, <1>7, <2>1, <3>1 DEF PublicationNamed
        <2>8. MembershipAgrees'
            <3>1. \A k \in Released : /\ jobs'[k].resource = jobs[k].resource
                                      /\ k # j => jobs'[k] = jobs[k]
                                      /\ k = j => jobs'[k].lifecycle = "Completed"
                BY <1>1, <1>4, <2>1, CompletedJobType DEF TypeOK
            <3>2. \A s \in ResourceIds : s # r => resource'[s] = resource[s]
                BY <1>1, <2>1 DEF TypeOK
            <3>3. NoJob \notin Released
                BY <1>1, NoJobAssumption DEF TypeOK, JobIdentity
            <3>. QED  BY <1>1, <1>2, <1>3, <1>4, <1>7, <2>2, <2>4, <3>1, <3>2, <3>3
                      DEF MembershipAgrees, Idle
        <2>. QED  BY <1>5, <2>6, <2>7, <2>8 DEF StateInv, CandidatesNamed
    <1>. QED  BY <1>8, <1>9

\* Publishing a route appends a well-typed message and queues its send.
LEMMA PublishToType ==
    ASSUME TypeOK, CandidatesNamed, NEW c \in Event, NEW d \in TaskIds, NEW delay \in Int,
           <<c.entities.task, c.entities.job>> \in JobIdentity,
           ~ DelayRefused(delay), PublishTo(c, d, delay)
    PROVE  /\ messages' \in Seq(Message)
           /\ queue' \in EventQueueState /\ NamedIn(queue')
    <1>1. /\ c.tick \in Nat /\ c.sequence \in Nat /\ c.entities \in Entities
          /\ c.entities.task \in Int /\ c.entities.job \in Int
        BY DEF Event, Entities
    <1>2. SendTick(c) \in Nat /\ SendTick(c) + delay \in Nat
        BY <1>1 DEF SendTick, SendOffset, DelayRefused
    <1>3. queue \in EventQueueState /\ queue.next_sequence \in Int /\ Absent \in Int
        BY DEF TypeOK, EventQueueState, Absent
    <1>4. NewMessage(c, d, delay) \in Message
        BY <1>1, <1>2, <1>3 DEF NewMessage, Message, MessageLifecycle
    <1>5. messages' \in Seq(Message)
        BY <1>4 DEF TypeOK, PublishTo
    <1>. DEFINE entities == MessageEntities(c.entities.task, c.entities.job, Len(messages) + 1)
    <1>6. entities \in Entities
        <2>1. Len(messages) + 1 \in Int
            BY DEF TypeOK
        <2>. QED  BY <1>1, <1>3, <2>1 DEF MessageEntities, Entities
    <1>. DEFINE sent == Scheduled(queue, SendTick(c), "CausedAction", "MessageSend", entities,
                                  c.sequence)
    <1>. HIDE DEF entities
    <1>7. sent \in EventQueueState
        <2>1. c.sequence \in Int
            BY <1>1
        <2>. QED  BY ONLY <1>2, <1>3, <1>6, <2>1, ScheduledType, Vocabulary, Zenon
    <1>8. NamedIn(sent)
        BY <1>3, ScheduledNamed DEF CandidatesNamed
    <1>9. queue' = sent \/ queue' = queue
        BY DEF PublishTo, entities
    <1>. QED  BY <1>3, <1>5, <1>7, <1>8, <1>9 DEF CandidatesNamed

\* Publication visits the destinations of the completion it was entered for.
LEMMA PublishRouteStep ==
    ASSUME StateInv, NEW d \in TaskIds, PublishRoute(d)
    PROVE  StateInv'
    <1>. DEFINE c == trace[Len(trace)]
                delay == RouteDelay(config, c.entities.task, d)
    <1>1. TypeOK /\ CandidatesNamed /\ PublicationNamed /\ MembershipAgrees
        BY DEF StateInv
    <1>2. stage = "publish" /\ d \in todo
        BY DEF PublishRoute, Least
    <1>3. /\ c \in Event /\ <<c.entities.task, c.entities.job>> \in JobIdentity
          /\ d \in Destinations(config, c.entities.task)
        BY <1>1, <1>2 DEF PublicationNamed, TypeOK
    <1>4. delay \in Int
        BY <1>1, <1>3, RouteDelayType DEF TypeOK, ValidConfig
    <1>5. UNCHANGED <<config, tick, trace, release, jobs, resource, ready, batch>> /\ todo' = todo \ {d}
        BY DEF PublishRoute
    <1>6. /\ messages' \in Seq(Message)
          /\ queue' \in EventQueueState /\ NamedIn(queue')
          /\ stage' \in Stage /\ fault' \in Fault
        <2>1. CASE DelayRefused(delay) \/ PublishOverflows(c, delay)
            <3>1. /\ stage' = "failed" /\ fault' \in {"zero_delay", "tick_overflow"}
                  /\ UNCHANGED <<messages, queue>>
                BY <2>1 DEF PublishRoute, Throw
            <3>. QED  BY <1>1, <3>1 DEF TypeOK, CandidatesNamed, Stage, Fault
        <2>2. CASE ~ DelayRefused(delay) /\ ~ PublishOverflows(c, delay)
            <3>1. PublishTo(c, d, delay) /\ stage' \in {"settle", "publish"} /\ fault' = fault
                BY <2>2 DEF PublishRoute
            <3>. QED  BY <1>1, <1>3, <1>4, <2>2, <3>1, PublishToType DEF TypeOK, Stage
        <2>. QED  BY <2>1, <2>2
    <1>7. TypeOK'
        BY <1>1, <1>5, <1>6 DEF TypeOK, Released
    <1>8. PublicationNamed'
        BY <1>1, <1>2, <1>5 DEF PublicationNamed
    <1>9. MembershipAgrees'
        BY <1>1, <1>5, MembershipUnchanged
    <1>. QED  BY <1>6, <1>7, <1>8, <1>9 DEF StateInv, CandidatesNamed

\* The releases of the tick move from the queue to the batch.
LEMMA CollectReleasesStep ==
    ASSUME StateInv, CollectReleases
    PROVE  StateInv'
    <1>. DEFINE due == {e \in queue.events : e.tick = tick /\ e.phase = "JobRelease"}
    <1>1. TypeOK /\ CandidatesNamed /\ queue.events \subseteq Event
        BY PendingType DEF StateInv
    <1>2. queue' = [queue EXCEPT !.events = queue.events \ due] /\ batch' = due
        BY DEF CollectReleases
    <1>3. queue' \in EventQueueState /\ queue'.events \subseteq queue.events
        BY <1>1, <1>2 DEF TypeOK, EventQueueState
    <1>4. NamedIn(queue')
        BY <1>1, <1>3, FewerEvents DEF TypeOK, CandidatesNamed
    <1>5. batch' \in SUBSET Event /\ stage' \in Stage /\ stage' # "publish"
        BY <1>1, <1>2 DEF CollectReleases, Stage
    <1>6. todo' \in SUBSET (TaskIds \cup ResourceIds)
        BY DEF CollectReleases
    <1>7. UNCHANGED <<config, fault, tick, trace, release, jobs, resource, ready, messages>>
        BY DEF CollectReleases
    <1>. QED  BY <1>1, <1>3, <1>4, <1>5, <1>6, <1>7, PositionStep DEF TypeOK

\* The successor release of a task is well-typed.
LEMMA ReleaseAfterType ==
    ASSUME TypeOK, CandidatesNamed, NEW t \in TaskIds, release[t].pending # Absent
    PROVE  /\ ReleaseAfter(t) \in ReleaseState
           /\ QueueAfterRelease(t) \in EventQueueState
           /\ NamedIn(QueueAfterRelease(t))
    <1>1. release[t] \in ReleaseState /\ release[t].tick \in Nat /\ release[t].job \in Nat
        BY DEF TypeOK, ReleaseState
    <1>2. /\ config.task[t].period \in Nat /\ config.assignment[t] \in ResourceIds
          /\ config.assignment[t] \in Int /\ t \in Int
        BY ConfigType
    <1>3. SuccessorTick(t) \in Nat /\ release[t].job + 1 \in Nat /\ release[t].job + 1 \in Int
        BY <1>1, <1>2 DEF SuccessorTick
    <1>4. ReleaseAfter(t) \in ReleaseState
        BY <1>1, <1>2, <1>3 DEF ReleaseAfter, ReleaseState
    <1>. DEFINE entities == JobEntities(t, release[t].job + 1, config.assignment[t])
                next == Scheduled(queue, SuccessorTick(t), "JobRelease", "JobRelease", entities, Absent)
    <1>5. entities \in Entities
        BY <1>2, <1>3, JobEntitiesType
    <1>6. queue \in EventQueueState
        BY DEF TypeOK
    <1>. HIDE DEF entities
    <1>7. next \in EventQueueState
        BY ONLY <1>3, <1>5, <1>6, ScheduledType, Vocabulary, Zenon
    <1>8. NamedIn(next)
        BY <1>6, ScheduledNamed DEF CandidatesNamed
    <1>9. QueueAfterRelease(t) \in {next, queue}
        BY DEF QueueAfterRelease, entities
    <1>. QED  BY <1>4, <1>6, <1>7, <1>8, <1>9 DEF CandidatesNamed

\* The job that a pending release creates.
LEMMA NewJobType ==
    ASSUME TypeOK, NEW e \in Event, NEW t \in TaskIds, e.entities.resource \in ResourceIds
    PROVE  /\ NewJob(t, e) \in JobState
           /\ NewJob(t, e).resource = e.entities.resource
           /\ NewJob(t, e).lifecycle = "Ready"
           /\ NewJob(t, e).deadline \in Nat
    <1>1. e.tick \in Nat /\ config.task[t].deadline \in Nat /\ config.task[t].priority \in Nat
        BY ConfigType DEF Event
    <1>. DEFINE work == config.demand[t, e.entities.resource]
                rank == config.task[t].priority
                due == e.tick + config.task[t].deadline
    <1>2. rank \in Nat /\ due \in Nat /\ Absent \in Int /\ "Ready" \in JobLifecycle
        BY <1>1, Vocabulary DEF JobLifecycle
    <1>3. work \in Nat
        BY DemandType
    <1>4. NewJob(t, e) = [resource |-> e.entities.resource, priority |-> rank,
                          release |-> e.tick, deadline |-> due,
                          remaining |-> work, lifecycle |-> "Ready",
                          first_start |-> Absent, finish |-> Absent, preemptions |-> 0,
                          missed |-> FALSE]
        BY DEF NewJob
    <1>. HIDE DEF work, rank, due
    <1>5. NewJob(t, e) \in JobState
        BY <1>1, <1>2, <1>3, <1>4 DEF JobState
    <1>. QED  BY <1>2, <1>4, <1>5

\* Storing a Ready job under a fresh identity, in the Ready set of its resource.
LEMMA MembershipAddReady ==
    ASSUME TypeOK, MembershipAgrees, NEW j, j \notin Released, j # NoJob, NEW r \in ResourceIds,
           NEW job, job.resource = r, job.lifecycle = "Ready",
           jobs' = [k \in Released \cup {j} |-> IF k = j THEN job ELSE jobs[k]],
           ready' = [ready EXCEPT ![r] = ready[r] \cup {j}],
           UNCHANGED resource
    PROVE  MembershipAgrees'
    <1>1. /\ Released' = Released \cup {j} /\ jobs'[j] = job
          /\ \A k \in Released : jobs'[k] = jobs[k]
        BY DEF Released
    <1>2. /\ ready'[r] = ready[r] \cup {j}
          /\ \A s \in ResourceIds : s # r => ready'[s] = ready[s]
        BY DEF TypeOK
    <1>3. \A s \in ResourceIds : resource[s].running # j
        BY DEF MembershipAgrees, Idle
    <1>. QED  BY <1>1, <1>2, <1>3 DEF MembershipAgrees, Idle

\* A release creates a fresh job of a configured task, or stops the run.
LEMMA ReleaseJobStep ==
    ASSUME StateInv, NEW e \in batch, ReleaseJob(e)
    PROVE  StateInv'
    <1>. DEFINE t == e.entities.task
                j == <<t, e.entities.job>>
                r == e.entities.resource
                job == NewJob(t, e)
                queued == QueueAfterRelease(t)
    <1>1. TypeOK /\ CandidatesNamed /\ MembershipAgrees /\ e \in Event
        BY DEF StateInv, TypeOK
    <1>2. ReleaseMatches(e)
        BY DEF ReleaseJob
    <1>3. /\ t \in TaskIds /\ release[t].pending # Absent /\ release[t] \in ReleaseState
          /\ e.entities.job = release[t].job /\ r = release[t].pending
        BY <1>1, <1>2 DEF ReleaseMatches, TypeOK
    <1>4. r \in ResourceIds /\ r \in Int /\ t \in Int /\ e.entities.job \in Nat /\ j \in JobIdentity
        BY <1>1, <1>3, ConfigType DEF ReleaseState, JobIdentity
    <1>5. ReleaseAfter(t) \in ReleaseState /\ queued \in EventQueueState /\ NamedIn(queued)
        BY <1>1, <1>3, ReleaseAfterType
    <1>6. release' \in [TaskIds -> ReleaseState]
        BY <1>1, <1>3, <1>5 DEF ReleaseJob, TypeOK
    <1>7. batch' \in SUBSET Event /\ UNCHANGED <<config, tick, resource, messages, todo>>
        BY <1>1 DEF ReleaseJob, TypeOK
    <1>8. CASE HasActiveJob(t) \/ j \in Released
        <2>1. /\ stage' = "failed" /\ fault' \in {"self_overlap", "inconsistent"}
              /\ queue' = queued /\ UNCHANGED <<jobs, ready, trace>>
            BY <1>8 DEF ReleaseJob, Throw
        <2>. QED  BY <1>1, <1>5, <1>6, <1>7, <2>1, PositionStep DEF TypeOK, Stage, Fault
    <1>9. CASE ~ (HasActiveJob(t) \/ j \in Released)
        <2>. DEFINE entities == JobEntities(t, e.entities.job, r)
                    checked == Scheduled(queued, job.deadline, "DeadlineCheck", "DeadlineMiss",
                                         entities, Absent)
        <2>1. /\ jobs' = [k \in Released \cup {j} |-> IF k = j THEN job ELSE jobs[k]]
              /\ ready' = [ready EXCEPT ![r] = ready[r] \cup {j}]
              /\ queue' \in {checked, queued}
              /\ trace' = Append(trace, e)
              /\ stage' \in {"settle", "release"} /\ fault' = fault
            BY <1>9 DEF ReleaseJob
        <2>2. /\ job \in JobState /\ job.resource = r /\ job.lifecycle = "Ready"
              /\ job.deadline \in Nat
            BY <1>1, <1>3, <1>4, NewJobType
        <2>3. j \notin Released /\ j # NoJob
            BY <1>4, <1>9, NoJobAssumption DEF JobIdentity
        <2>4. queue' \in EventQueueState /\ NamedIn(queue')
            <3>1. entities \in Entities
                BY <1>4, JobEntitiesType
            <3>. HIDE DEF entities, queued, job
            <3>2. checked \in EventQueueState
                BY ONLY <1>5, <2>2, <3>1, ScheduledType, Vocabulary, Zenon
            <3>3. NamedIn(checked)
                BY <1>5, ScheduledNamed
            <3>. QED  BY <1>5, <2>1, <3>2, <3>3
        <2>5. Released' \subseteq JobIdentity /\ jobs' \in [Released' -> JobState]
            <3>. HIDE DEF job
            <3>1. Released' = Released \cup {j}
                BY <2>1 DEF Released
            <3>. QED  BY <1>1, <1>4, <2>1, <2>2, <3>1 DEF TypeOK
        <2>6. ready' \in [ResourceIds -> SUBSET JobIdentity] /\ trace' \in Seq(Event)
            BY <1>1, <1>4, <2>1 DEF TypeOK
        <2>7. TypeOK'
            BY <1>1, <1>6, <1>7, <2>1, <2>4, <2>5, <2>6 DEF TypeOK, Stage
        <2>8. MembershipAgrees'
            <3>. HIDE DEF job
            <3>. QED  BY <1>1, <1>4, <1>7, <2>1, <2>2, <2>3, MembershipAddReady
        <2>. QED  BY <2>1, <2>4, <2>7, <2>8 DEF StateInv, CandidatesNamed, PublicationNamed
    <1>. QED  BY <1>8, <1>9

\* A refused release only stops the run.
LEMMA ReleaseRefusedStep ==
    ASSUME StateInv, NEW e \in batch, ReleaseRefused(e)
    PROVE  StateInv'
    <1>1. TypeOK /\ CandidatesNamed
        BY DEF StateInv
    <1>2. stage' = "failed" /\ fault' \in {"tick_overflow", "inconsistent"} /\ batch' = batch \ {e}
        BY DEF ReleaseRefused, Throw
    <1>3. UNCHANGED <<config, tick, queue, trace, release, jobs, resource, ready, messages, todo>>
        BY DEF ReleaseRefused
    <1>. QED  BY <1>1, <1>2, <1>3, PositionStep DEF TypeOK, CandidatesNamed, Stage, Fault

\* A resource the decision does not change.
LEMMA LeaveResourceStep ==
    ASSUME StateInv, NEW r \in ResourceIds, LeaveResource(r)
    PROVE  StateInv'
    <1>1. TypeOK /\ CandidatesNamed
        BY DEF StateInv
    <1>2. stage' \in Stage /\ stage' # "publish" /\ fault' = fault /\ todo' = todo \ {r}
        BY DEF LeaveResource, Visited, Stage
    <1>3. UNCHANGED <<config, tick, queue, trace, release, jobs, resource, ready, messages, batch>>
        BY DEF LeaveResource
    <1>. QED  BY <1>1, <1>2, <1>3, PositionStep DEF TypeOK, CandidatesNamed

\* A selected job is a Ready job of the resource.
LEMMA SelectedReady ==
    ASSUME TypeOK, MembershipAgrees, NEW r \in ResourceIds, NEW j \in ready[r]
    PROVE  /\ j \in Released /\ j \in JobIdentity /\ j # NoJob
           /\ jobs[j] \in JobState /\ jobs[j].remaining \in Nat
           /\ jobs[j].resource = r /\ jobs[j].lifecycle = "Ready"
    <1>1. j \in Released /\ jobs[j].resource = r /\ jobs[j].lifecycle = "Ready"
        BY DEF MembershipAgrees
    <1>2. j \in JobIdentity /\ jobs[j] \in JobState
        BY <1>1 DEF TypeOK
    <1>. QED  BY <1>1, <1>2, NoJobAssumption DEF JobState, JobIdentity

\* The events a start queues: the observation and, in horizon, the completion candidate.
LEMMA QueueAfterStartType ==
    ASSUME TypeOK, NEW q \in EventQueueState, NamedIn(q), NEW r \in ResourceIds,
           NEW j \in JobIdentity, jobs[j].remaining \in Nat
    PROVE  QueueAfterStart(q, r, j) \in EventQueueState /\ NamedIn(QueueAfterStart(q, r, j))
    <1>. DEFINE type == IF Started(jobs[j]) THEN "JobResume" ELSE "JobStart"
                entities == JobEntities(j[1], j[2], r)
                started == Scheduled(q, tick, "Scheduling", type, entities, Absent)
                completion == tick + jobs[j].remaining
                ended == Scheduled(started, completion, "ExecutionCompletion", "JobFinish",
                                   entities, Absent)
    <1>1. /\ j[1] \in Int /\ j[2] \in Int /\ r \in Int
          /\ <<j[1], j[2]>> \in JobIdentity
        BY ConfigType DEF JobIdentity
    <1>2. entities \in Entities
        BY <1>1, JobEntitiesType
    <1>3. <<entities.task, entities.job>> \in JobIdentity /\ entities.resource \in ResourceIds
        BY <1>1 DEF JobEntities
    <1>4. type \in EventType
        BY Vocabulary
    <1>5. tick \in Nat /\ completion \in Nat
        BY DEF TypeOK
    <1>6. QueueAfterStart(q, r, j) \in {started, ended}
        BY DEF QueueAfterStart
    <1>. HIDE DEF entities, type, completion
    <1>7. started \in EventQueueState
        BY ONLY q \in EventQueueState, <1>2, <1>4, <1>5, ScheduledType, Vocabulary, Zenon
    <1>8. NamedIn(started)
        BY ScheduledNamed
    <1>. HIDE DEF started
    <1>9. ended \in EventQueueState
        BY ONLY <1>2, <1>5, <1>7, ScheduledType, Vocabulary, Zenon
    <1>10. NamedIn(ended)
        BY <1>3, <1>7, <1>8, ScheduledNamed
    <1>. QED  BY <1>6, <1>7, <1>8, <1>9, <1>10

\* A started job and its resource are well-typed and name each other.
LEMMA StartedType ==
    ASSUME TypeOK, NEW job \in JobState, NEW res \in ResourceState, NEW j \in JobIdentity
    PROVE  /\ StartedJob(job) \in JobState
           /\ StartedJob(job).lifecycle = "Running" /\ StartedJob(job).resource = job.resource
           /\ StartedResource(res, j, job.remaining) \in ResourceState
           /\ StartedResource(res, j, job.remaining).running = j
    <1>1. tick \in Nat /\ job.remaining \in Nat /\ job.first_start \in Int
        BY DEF TypeOK, JobState
    <1>2. (IF Started(job) THEN job.first_start ELSE tick) \in Int
        BY <1>1
    <1>3. /\ StartedJob(job) \in JobState
          /\ StartedJob(job).lifecycle = "Running" /\ StartedJob(job).resource = job.resource
        BY <1>2 DEF StartedJob, JobState, JobLifecycle
    <1>4. tick \in Int /\ tick + job.remaining \in Int
        BY <1>1
    <1>. QED  BY <1>3, <1>4 DEF StartedResource, ResourceState

\* r hands over to j, and whatever it executed becomes Ready again.
LEMMA MembershipHandOver ==
    ASSUME TypeOK, MembershipAgrees, NEW r \in ResourceIds, NEW j \in Released,
           jobs[j].resource = r, j # NoJob, Released' = Released,
           \A k \in Released :
               /\ jobs'[k].resource = jobs[k].resource
               /\ (k # j /\ k # resource[r].running) => jobs'[k].lifecycle = jobs[k].lifecycle
               /\ (k # j /\ k = resource[r].running) => jobs'[k].lifecycle = "Ready"
               /\ k = j => jobs'[k].lifecycle = "Running",
           \A s \in ResourceIds :
               /\ s # r => ready'[s] = ready[s] /\ resource'[s] = resource[s]
               /\ s = r => /\ ready'[s] = (ready[s] \cup ({resource[s].running} \cap Released)) \ {j}
                           /\ resource'[s].running = j
    PROVE  MembershipAgrees'
    <1>1. ASSUME NEW s \in ResourceIds
          PROVE  ready'[s] = {k \in Released : jobs'[k].resource = s /\ jobs'[k].lifecycle = "Ready"}
        BY DEF MembershipAgrees, Idle
    <1>2. ASSUME NEW s \in ResourceIds, NEW k \in Released
          PROVE  resource'[s].running = k
                     <=> jobs'[k].resource = s /\ jobs'[k].lifecycle = "Running"
        BY DEF MembershipAgrees, Idle
    <1>3. ASSUME NEW s \in ResourceIds
          PROVE  resource'[s].running = NoJob \/ resource'[s].running \in Released
        BY DEF MembershipAgrees, Idle
    <1>. QED  BY <1>1, <1>2, <1>3 DEF MembershipAgrees, Idle

\* What a scheduling decision leaves alone, and where it goes next.
LEMMA DecisionStep ==
    ASSUME StateInv, NEW r \in ResourceIds, Visited(r),
           UNCHANGED <<config, tick, trace, release, messages, batch>>,
           queue' \in EventQueueState, NamedIn(queue'),
           Released' = Released, jobs' \in [Released -> JobState],
           resource' \in [ResourceIds -> ResourceState],
           ready' \in [ResourceIds -> SUBSET JobIdentity],
           MembershipAgrees'
    PROVE  StateInv'
    <1>1. TypeOK
        BY DEF StateInv
    <1>2. stage' \in Stage /\ stage' # "publish" /\ fault' = fault /\ todo' = todo \ {r}
        BY DEF Visited, Stage
    <1>3. TypeOK'
        BY <1>1, <1>2 DEF TypeOK
    <1>. QED  BY <1>2, <1>3 DEF StateInv, CandidatesNamed, PublicationNamed

\* A refused decision only stops the run.
LEMMA RefusedDecisionStep ==
    ASSUME StateInv, NEW reason \in Fault, Throw(reason),
           UNCHANGED <<config, tick, queue, trace, release, jobs, resource, ready, messages, todo,
                       batch>>
    PROVE  StateInv'
    <1>1. TypeOK /\ CandidatesNamed
        BY DEF StateInv
    <1>. QED  BY <1>1, ThrowType, PositionStep DEF TypeOK, CandidatesNamed

\* An idle resource starts the selected job.
LEMMA DispatchStep ==
    ASSUME StateInv, NEW r \in ResourceIds, NEW j \in ready[r], Dispatch(r, j)
    PROVE  StateInv'
    <1>1. TypeOK /\ CandidatesNamed /\ MembershipAgrees
        BY DEF StateInv
    <1>2. CASE StartOverflows(j)
        <2>1. Throw("tick_overflow") /\ "tick_overflow" \in Fault
            BY <1>2 DEF Dispatch, Fault
        <2>2. UNCHANGED <<config, tick, queue, trace, release, jobs, resource, ready, messages, todo,
                          batch>>
            BY <1>2 DEF Dispatch
        <2>. QED  BY <2>1, <2>2, RefusedDecisionStep
    <1>3. CASE ~ StartOverflows(j)
        <2>1. StartSelected(r, j) /\ Visited(r) /\ resource[r].running = NoJob
            BY <1>3 DEF Dispatch, Idle
        <2>2. UNCHANGED <<config, tick, trace, release, messages, batch>>
            BY DEF Dispatch
        <2>3. /\ j \in Released /\ j \in JobIdentity /\ j # NoJob
              /\ jobs[j] \in JobState /\ jobs[j].remaining \in Nat
              /\ jobs[j].resource = r
            BY <1>1, SelectedReady
        <2>4. /\ jobs' = [jobs EXCEPT ![j] = StartedJob(jobs[j])]
              /\ resource' = [resource EXCEPT ![r] =
                                  StartedResource(resource[r], j, jobs[j].remaining)]
              /\ ready' = [ready EXCEPT ![r] = ready[r] \ {j}]
              /\ queue' = QueueAfterStart(queue, r, j)
            BY <2>1 DEF StartSelected
        <2>5. resource[r] \in ResourceState
            BY <1>1 DEF TypeOK
        <2>6. /\ StartedJob(jobs[j]) \in JobState
              /\ StartedJob(jobs[j]).lifecycle = "Running" /\ StartedJob(jobs[j]).resource = r
              /\ StartedResource(resource[r], j, jobs[j].remaining) \in ResourceState
              /\ StartedResource(resource[r], j, jobs[j].remaining).running = j
            BY <1>1, <2>3, <2>5, StartedType
        <2>7. queue' \in EventQueueState /\ NamedIn(queue')
            BY <1>1, <2>3, <2>4, QueueAfterStartType DEF TypeOK, CandidatesNamed
        <2>8. Released' = Released /\ jobs' \in [Released -> JobState]
            BY <1>1, <2>3, <2>4, <2>6 DEF TypeOK, Released
        <2>9. resource' \in [ResourceIds -> ResourceState]
            BY <1>1, <2>4, <2>6 DEF TypeOK
        <2>10. ready' \in [ResourceIds -> SUBSET JobIdentity]
            BY <1>1, <2>4 DEF TypeOK
        <2>11. \A k \in Released : /\ k # j => jobs'[k] = jobs[k]
                                   /\ k = j => jobs'[k] = StartedJob(jobs[j])
            BY <1>1, <2>3, <2>4 DEF TypeOK
        <2>12. NoJob \notin Released
            BY <1>1, NoJobAssumption DEF TypeOK, JobIdentity
        <2>13. \A s \in ResourceIds :
                   /\ s # r => ready'[s] = ready[s] /\ resource'[s] = resource[s]
                   /\ s = r => /\ ready'[s] = (ready[s] \cup ({resource[s].running} \cap Released)) \ {j}
                               /\ resource'[s].running = j
            BY <1>1, <2>1, <2>4, <2>6, <2>12 DEF TypeOK
        <2>14. MembershipAgrees'
            BY <1>1, <2>1, <2>3, <2>6, <2>8, <2>11, <2>12, <2>13, MembershipHandOver
        <2>. QED  BY <2>1, <2>2, <2>7, <2>8, <2>9, <2>10, <2>14, DecisionStep
    <1>. QED  BY <1>2, <1>3

\* Charging a preempted job less than it still needs leaves it well-typed and Ready.
LEMMA PreemptedType ==
    ASSUME TypeOK, NEW r \in ResourceIds, resource[r].running \in Released, MayPreempt(r)
    PROVE  LET p == resource[r].running
           IN  /\ PreemptedJob(jobs[p], resource[r]) \in JobState
               /\ PreemptedJob(jobs[p], resource[r]).lifecycle = "Ready"
               /\ PreemptedJob(jobs[p], resource[r]).resource = jobs[p].resource
               /\ IdledResource(resource[r]) \in ResourceState
    <1>. DEFINE p == resource[r].running
    <1>1. jobs[p] \in JobState /\ resource[r] \in ResourceState /\ tick \in Nat
        BY DEF TypeOK
    <1>2. jobs[p].remaining \in Nat /\ jobs[p].preemptions \in Nat /\ resource[r].since \in Int
        BY <1>1 DEF JobState, ResourceState
    <1>3. /\ tick - resource[r].since >= 0
          /\ jobs[p].remaining - (tick - resource[r].since) \in Nat
          /\ jobs[p].preemptions + 1 \in Nat
        BY <1>1, <1>2 DEF MayPreempt
    <1>4. IdledResource(resource[r]) \in ResourceState
        BY <1>3, IdledResourceType
    <1>. QED  BY <1>1, <1>3, <1>4 DEF PreemptedJob, JobState, JobLifecycle

\* A higher-priority newcomer replaces the running job.
LEMMA PreemptStep ==
    ASSUME StateInv, NEW r \in ResourceIds, NEW j \in ready[r], Preempt(r, j)
    PROVE  StateInv'
    <1>. DEFINE p == resource[r].running
    <1>1. TypeOK /\ CandidatesNamed /\ MembershipAgrees
        BY DEF StateInv
    <1>2. CASE ~ (MayPreempt(r) /\ ~ StartOverflows(j))
        <2>1. Throw("inconsistent") /\ "inconsistent" \in Fault
            BY <1>2 DEF Preempt, Fault
        <2>2. UNCHANGED <<config, tick, queue, trace, release, jobs, resource, ready, messages, todo,
                          batch>>
            BY <1>2 DEF Preempt
        <2>. QED  BY <2>1, <2>2, RefusedDecisionStep
    <1>3. CASE MayPreempt(r) /\ ~ StartOverflows(j)
        <2>1. ReplaceRunning(r, p, j) /\ Visited(r) /\ p # NoJob
            BY <1>3 DEF Preempt, Idle
        <2>2. UNCHANGED <<config, tick, trace, release, messages, batch>>
            BY DEF Preempt
        <2>3. /\ j \in Released /\ j \in JobIdentity /\ j # NoJob
              /\ jobs[j] \in JobState /\ jobs[j].remaining \in Nat
              /\ jobs[j].resource = r /\ jobs[j].lifecycle = "Ready"
            BY <1>1, SelectedReady
        <2>4. /\ p \in Released /\ p \in JobIdentity /\ p # j
              /\ jobs[p].resource = r /\ jobs[p].lifecycle = "Running"
            BY <1>1, <2>1, <2>3 DEF MembershipAgrees, Idle, TypeOK
        <2>. DEFINE held == PreemptedJob(jobs[p], resource[r])
                    freed == IdledResource(resource[r])
                    preempted == Scheduled(queue, tick, "Scheduling", "JobPreempt",
                                           JobEntities(p[1], p[2], r), Absent)
        <2>5. /\ held \in JobState /\ held.lifecycle = "Ready" /\ held.resource = r
              /\ freed \in ResourceState
            BY <1>1, <1>3, <2>4, PreemptedType
        <2>6. /\ jobs' = [jobs EXCEPT ![p] = held, ![j] = StartedJob(jobs[j])]
              /\ resource' = [resource EXCEPT ![r] = StartedResource(freed, j, jobs[j].remaining)]
              /\ ready' = [ready EXCEPT ![r] = (ready[r] \cup {p}) \ {j}]
              /\ queue' = QueueAfterStart(preempted, r, j)
            BY <2>1, <2>4 DEF ReplaceRunning
        <2>7. /\ StartedJob(jobs[j]) \in JobState
              /\ StartedJob(jobs[j]).lifecycle = "Running" /\ StartedJob(jobs[j]).resource = r
              /\ StartedResource(freed, j, jobs[j].remaining) \in ResourceState
              /\ StartedResource(freed, j, jobs[j].remaining).running = j
            <3>. HIDE DEF freed
            <3>. QED  BY <1>1, <2>3, <2>5, StartedType
        <2>8. preempted \in EventQueueState /\ NamedIn(preempted)
            <3>1. p[1] \in Int /\ p[2] \in Int /\ r \in Int /\ tick \in Nat /\ queue \in EventQueueState
                BY <1>1, <2>4, ConfigType DEF JobIdentity, TypeOK
            <3>. DEFINE entities == JobEntities(p[1], p[2], r)
            <3>2. entities \in Entities
                BY <3>1, JobEntitiesType
            <3>. HIDE DEF entities, p
            <3>3. preempted \in EventQueueState
                BY ONLY <3>1, <3>2, ScheduledType, Vocabulary, Zenon DEF entities
            <3>4. NamedIn(preempted)
                BY <1>1, <3>1, ScheduledNamed DEF CandidatesNamed
            <3>. QED  BY <3>3, <3>4
        <2>9. queue' \in EventQueueState /\ NamedIn(queue')
            <3>. HIDE DEF preempted
            <3>. QED  BY <1>1, <2>3, <2>6, <2>8, QueueAfterStartType
        <2>. HIDE DEF held, freed, p
        <2>10. Released' = Released /\ jobs' \in [Released -> JobState]
            BY <1>1, <2>3, <2>4, <2>5, <2>6, <2>7 DEF TypeOK, Released
        <2>11. resource' \in [ResourceIds -> ResourceState]
            BY <1>1, <2>6, <2>7 DEF TypeOK
        <2>12. ready' \in [ResourceIds -> SUBSET JobIdentity]
            BY <1>1, <2>4, <2>6 DEF TypeOK
        <2>13. \A k \in Released : /\ (k # j /\ k # p) => jobs'[k] = jobs[k]
                                   /\ k = p => jobs'[k] = held
                                   /\ k = j => jobs'[k] = StartedJob(jobs[j])
            BY <1>1, <2>3, <2>4, <2>6 DEF TypeOK
        <2>14. \A s \in ResourceIds :
                   /\ s # r => ready'[s] = ready[s] /\ resource'[s] = resource[s]
                   /\ s = r => /\ ready'[s] = (ready[s] \cup ({resource[s].running} \cap Released)) \ {j}
                               /\ resource'[s].running = j
            BY <1>1, <2>4, <2>6, <2>7 DEF TypeOK, p
        <2>15. MembershipAgrees'
            BY <1>1, <2>3, <2>4, <2>5, <2>7, <2>10, <2>13, <2>14, MembershipHandOver DEF p
        <2>. QED  BY <2>1, <2>2, <2>9, <2>10, <2>11, <2>12, <2>15, DecisionStep
    <1>. QED  BY <1>2, <1>3

\* An observation moves from the queue to the trace.
LEMMA RecordDecisionStep ==
    ASSUME StateInv, NEW e \in queue.events, RecordDecision(e)
    PROVE  StateInv'
    <1>1. TypeOK /\ CandidatesNamed
        BY DEF StateInv
    <1>2. queue' \in EventQueueState /\ NamedIn(queue') /\ trace' \in Seq(Event)
        BY <1>1, TakeEvent DEF RecordDecision
    <1>. QED  BY <1>1, <1>2, PositionStep DEF TypeOK, RecordDecision

\* A send queues the delivery of the message it sends.
LEMMA QueueAfterSendType ==
    ASSUME TypeOK, NEW q \in EventQueueState, NamedIn(q), NEW e \in Event,
           e.entities.message \in DOMAIN messages
    PROVE  QueueAfterSend(q, e) \in EventQueueState /\ NamedIn(QueueAfterSend(q, e))
    <1>. DEFINE m == messages[e.entities.message]
                phase == DeliveryPhase(m)
                entities == MessageEntities(m.destination, Absent, e.entities.message)
                delivered == Scheduled(q, m.delivery, phase, "MessageDelivery", entities, e.sequence)
    <1>1. m \in Message /\ m.delivery \in Nat /\ m.destination \in Int
        <2>1. m \in Message
            BY DEF TypeOK
        <2>. QED  BY <2>1, ConfigType DEF Message
    <1>2. e.sequence \in Int /\ e.entities.message \in Int
        BY DEF Event, Entities
    <1>3. entities \in Entities
        BY <1>1, <1>2, Vocabulary DEF MessageEntities, Entities
    <1>4. phase \in EventPhase /\ phase # "ExecutionCompletion"
        BY Vocabulary DEF DeliveryPhase
    <1>5. QueueAfterSend(q, e) \in {delivered, q}
        BY DEF QueueAfterSend
    <1>6. m.delivery \in Nat
        BY <1>1
    <1>. HIDE DEF m, phase, entities
    <1>7. delivered \in EventQueueState
        BY ONLY q \in EventQueueState, <1>2, <1>3, <1>4, <1>6, ScheduledType, Vocabulary, Zenon
    <1>8. NamedIn(delivered)
        BY <1>4, ScheduledNamed
    <1>. QED  BY <1>5, <1>7, <1>8

\* A send marks a known message.
LEMMA SendMessageStep ==
    ASSUME StateInv, NEW e \in queue.events, SendMessage(e)
    PROVE  StateInv'
    <1>1. TypeOK /\ CandidatesNamed /\ stage = "act"
        BY DEF StateInv, SendMessage
    <1>2. /\ Popped(queue, e) \in EventQueueState /\ NamedIn(Popped(queue, e))
          /\ e \in Event /\ Append(trace, e) \in Seq(Event)
        BY <1>1, TakeEvent
    <1>3. UNCHANGED <<config, tick, release, jobs, resource, ready, todo, batch>>
        BY DEF SendMessage
    <1>4. /\ messages' \in Seq(Message) /\ trace' \in Seq(Event)
          /\ queue' \in EventQueueState /\ NamedIn(queue')
          /\ stage' \in Stage /\ fault' \in Fault /\ stage' # "publish"
        <2>1. CASE e.phase = "CausedAction" /\ SendMatches(e)
            <3>. DEFINE i == e.entities.message
            <3>1. /\ messages' = [messages EXCEPT ![i] = SentMessage(messages[i])]
                  /\ queue' = QueueAfterSend(Popped(queue, e), e)
                  /\ trace' = Append(trace, e)
                  /\ stage' = stage /\ fault' = fault
                BY <2>1 DEF SendMessage
            <3>2. i \in DOMAIN messages
                BY <2>1 DEF SendMatches
            <3>3. messages[i] \in Message /\ queue.next_sequence \in Int
                BY <1>1, <3>2 DEF TypeOK, EventQueueState
            <3>4. SentMessage(messages[i]) \in Message
                BY <3>3, Vocabulary DEF SentMessage, Message, MessageLifecycle
            <3>5. messages' \in Seq(Message)
                BY <1>1, <3>1, <3>2, <3>4, ReplaceMessage DEF TypeOK
            <3>. QED  BY <1>1, <1>2, <3>1, <3>2, <3>5, QueueAfterSendType DEF TypeOK
        <2>2. CASE ~ (e.phase = "CausedAction" /\ SendMatches(e))
            <3>1. /\ Throw("inconsistent") /\ queue' = Popped(queue, e)
                  /\ UNCHANGED <<messages, trace>>
                BY <2>2 DEF SendMessage
            <3>. QED  BY <1>1, <1>2, <3>1 DEF TypeOK, Throw, Stage, Fault
        <2>. QED  BY <2>1, <2>2
    <1>. QED  BY <1>1, <1>3, <1>4, PositionStep DEF TypeOK

-----------------------------------------------------------------------------
\* Every step of the engine preserves the invariant.
LEMMA NextStateInv == StateInv /\ [Next]_vars => StateInv'
    <1>. SUFFICES ASSUME StateInv, [Next]_vars PROVE StateInv'
        OBVIOUS
    <1>1. CASE \E t \in TaskIds : QueueFirstRelease(t)
        BY <1>1, QueueFirstReleaseStep
    <1>2. CASE Initialized \/ (\E e \in queue.events : BeginTick(e)) \/ FinishEmpty
        BY <1>2, MoveStep
    <1>3. CASE Settle
        BY <1>3, AcceptCompletionStep, IgnoreStaleCompletionStep, DeliverMessageStep,
           CheckDeadlineStep DEF Settle
    <1>4. CASE \E d \in TaskIds : PublishRoute(d)
        BY <1>4, PublishRouteStep
    <1>5. CASE ProcessReleases
        BY <1>5, CollectReleasesStep, ReleaseJobStep, ReleaseRefusedStep DEF ProcessReleases
    <1>6. CASE Schedule
        BY <1>6, LeaveResourceStep, DispatchStep, PreemptStep DEF Schedule
    <1>7. CASE Act
        BY <1>7, MoveStep, RecordDecisionStep, SendMessageStep DEF Act
    <1>8. CASE StepAfterEnd \/ UNCHANGED vars
        <2>1. UNCHANGED vars
            BY <1>8 DEF StepAfterEnd
        <2>2. TypeOK'
            BY <2>1 DEF vars, StateInv, TypeOK, Released
        <2>3. CandidatesNamed' /\ PublicationNamed'
            BY <2>1 DEF vars, StateInv, CandidatesNamed, PublicationNamed
        <2>4. MembershipAgrees'
            BY <2>1, MembershipUnchanged DEF vars, StateInv
        <2>. QED  BY <2>2, <2>3, <2>4 DEF StateInv
    <1>. QED  BY <1>1, <1>2, <1>3, <1>4, <1>5, <1>6, <1>7, <1>8 DEF Next

\* The invariant holds in every reachable state.
LEMMA StateInvariant == Spec => []StateInv
    BY InitStateInv, NextStateInv, PTL DEF Spec

\* Every variable has its type in every reachable state, whatever the tasks, resources
\* and valid configurations (the values the classes of the kernel keep).
THEOREM TypeCorrect == Spec => []TypeOK
    <1>1. StateInv => TypeOK
        BY DEF StateInv
    <1>. QED  BY <1>1, StateInvariant, PTL

\* Jobs are where their state says, always: a resource executes at most the one job it
\* names, and Ready vectors, job states and resources never disagree, also between the
\* steps of one scheduling decision and after an exception (scheduler.cpp:133-262).
THEOREM ExclusiveMembership == Spec => []MembershipAgrees
    <1>1. StateInv => MembershipAgrees
        BY DEF StateInv
    <1>. QED  BY <1>1, StateInvariant, PTL

-----------------------------------------------------------------------------
(***************************************************************************)
(* The inductive invariant of the kernel: the strengthening of             *)
(* CandidatesSound, IntervalsExact and DecisionsSound.  Those properties   *)
(* speak of what a caller can rely on; what makes them hold from one loop  *)
(* iteration to the next is what each kind of pending event still means to *)
(* the object it names.                                                    *)
(***************************************************************************)

\* Pending events of one phase.
Of(q, phase) == {e \in q.events : e.phase = phase}

JobOf(e) == <<e.entities.task, e.entities.job>>

\* The tick has not yet decided about r.
Undecided(r) ==
    \/ stage \in {"settle", "publish", "release"}
    \/ stage = "schedule" /\ r \in todo

\* The decision of the last tick about r stands.
Decided(r) ==
    \/ stage \in {"act", "between", "finished"}
    \/ stage = "schedule" /\ r \notin todo

\* The phases the kernel schedules: no policy update, no delivery in the tick of its send.
ScheduledPhases == {"ExecutionCompletion", "MessageDelivery", "DeadlineCheck", "JobRelease",
                    "Scheduling", "CausedAction"}

\* What the loop the engine is in says about clock, trace, batch and queue.
PositionSound ==
    /\ tick <= config.stop
    /\ stage = "initialize" => tick = 0 /\ trace = <<>>
    /\ Released # {} => trace # <<>>
    /\ stage \notin {"release", "failed"} => batch = {}
    /\ \A e \in batch : e.phase = "JobRelease" /\ e.tick = tick
    /\ \A e \in queue.events : e.phase \in ScheduledPhases
    /\ stage = "publish" => trace[Len(trace)].tick = tick
    /\ stage = "finished" => \A e \in queue.events : e.tick > config.stop

\* The release candidates a task still has, in the queue or in the batch.
HeldReleases == Of(queue, "JobRelease") \cup batch

\* Every held release is the one its task waits for, and the next job is a new one.
ReleasesSound ==
    stage # "failed" =>
        /\ \A e \in HeldReleases : ReleaseMatches(e)
        /\ \A e, f \in HeldReleases : e.entities.task = f.entities.task => e = f
        /\ \A t \in TaskIds :
               release[t].pending # Absent =>
                   /\ \E e \in HeldReleases : e.entities.task = t
                   /\ release[t].pending = config.assignment[t]
                   /\ \A j \in Released : j[1] = t => j[2] < release[t].job
        /\ stage = "initialize" => \A t \in TaskIds : t \in todo => release[t].pending = Absent

\* A job was released in the past, needs work as long as it is active, and never more
\* than lies between its release and its deadline.
JobsSound ==
    \A j \in Released :
        /\ jobs[j].release <= tick /\ jobs[j].release < jobs[j].deadline
        /\ jobs[j].deadline <= MaxTick
        /\ jobs[j].remaining <= jobs[j].deadline - jobs[j].release
        /\ Active(j) => jobs[j].remaining > 0

\* Completion candidates: of released jobs, one per job and tick, never later than the
\* job could now end; a running job has the one that is right.
CompletionsSound ==
    /\ \A e \in Of(queue, "ExecutionCompletion") :
           LET j == JobOf(e)
               r == e.entities.resource
           IN  /\ j \in Released /\ jobs[j].resource = r
               /\ jobs[j].lifecycle = "Ready" =>
                      /\ e.tick <= tick + jobs[j].remaining
                      /\ Undecided(r) => e.tick < tick + jobs[j].remaining
               /\ jobs[j].lifecycle = "Running" => e.tick <= resource[r].expected
    /\ \A e, f \in Of(queue, "ExecutionCompletion") :
           JobOf(e) = JobOf(f) /\ e.tick = f.tick => e = f
    /\ \A r \in ResourceIds :
           ~ Idle(r) /\ resource[r].expected <= config.stop =>
               \E e \in Of(queue, "ExecutionCompletion") :
                   CompletionOf(e, r) /\ e.tick = resource[r].expected

\* A decided resource with work is not idle, and a job that outranks the running one was
\* released in this tick and waits for the decision.
ScheduleSound ==
    \A r \in ResourceIds :
        /\ Decided(r) /\ Idle(r) => ready[r] = {}
        /\ config.mode = "Preemptive" /\ ~ Idle(r) =>
               \A j \in ready[r] :
                   jobs[j].priority < jobs[resource[r].running].priority =>
                       jobs[j].release = tick /\ ~ Decided(r)

\* The verdict about j is open, and the check that gives it is pending within the horizon.
Open(j) ==
    /\ ~ jobs[j].missed /\ tick <= jobs[j].deadline
    /\ Active(j) \/ jobs[j].finish <= jobs[j].deadline
    /\ jobs[j].deadline <= config.stop =>
           \E e \in Of(queue, "DeadlineCheck") : JobOf(e) = j

\* The verdict about j is final and right.
Judged(j) ==
    /\ jobs[j].deadline <= tick
    /\ jobs[j].missed <=> Active(j) \/ jobs[j].finish > jobs[j].deadline

\* Every verdict is open or right, every check is the only one of a job without a miss, and
\* no completion of the deadline tick is left when a miss is recorded.
DeadlinesSound ==
    /\ \A j \in Released : Open(j) \/ Judged(j)
    /\ \A e \in Of(queue, "DeadlineCheck") :
           LET j == JobOf(e)
           IN  /\ j \in Released /\ ~ jobs[j].missed
               /\ jobs[j].resource = e.entities.resource /\ jobs[j].deadline = e.tick
    /\ \A e, f \in Of(queue, "DeadlineCheck") : JobOf(e) = JobOf(f) => e = f
    /\ \A j \in Released :
           jobs[j].missed /\ jobs[j].deadline = tick =>
               \A e \in Of(queue, "ExecutionCompletion") : e.tick > tick

\* Every pending send or delivery is the one its message waits for.
NetworkSound ==
    /\ \A i \in DOMAIN messages : messages[i].delivery > messages[i].send
    /\ \A e \in Of(queue, "CausedAction") : SendMatches(e)
    /\ \A e, f \in Of(queue, "CausedAction") : e.entities.message = f.entities.message => e = f
    /\ \A e \in Of(queue, "MessageDelivery") : DeliveryMatches(e)
    /\ \A e, f \in Of(queue, "MessageDelivery") : e.entities.message = f.entities.message => e = f

\* The inductive invariant of the kernel.
KernelInv ==
    /\ StateInv
    /\ PositionSound
    /\ NothingInThePast
    /\ ReleasesSound
    /\ JobsSound
    /\ IntervalsExact
    /\ CompletionsSound
    /\ ScheduleSound
    /\ DeadlinesSound
    /\ NetworkSound
    /\ KernelConsistent

-----------------------------------------------------------------------------
(* The earliest event. *)

\* A nonempty set of natural numbers has a least element.
LEMMA LeastNumber ==
    ASSUME NEW S \in SUBSET Nat, S # {}
    PROVE  \E n \in S : \A k \in S : n <= k
    <1>1. \E n \in S : \A k \in S : ~ (<<k, n>> \in OpToRel(<, Nat))
        BY NatLessThanWellFounded, WFMin
    <1>2. PICK n \in S : \A k \in S : ~ (<<k, n>> \in OpToRel(<, Nat))
        BY <1>1
    <1>3. ASSUME NEW k \in S PROVE n <= k
        <2>1. k \in Nat /\ n \in Nat
            OBVIOUS
        <2>2. ~ (k < n)
            BY <1>2, <2>1 DEF OpToRel
        <2>. QED  BY <2>1, <2>2
    <1>. QED  BY <1>3

\* Every event has a place among the phases.
LEMMA PrecedenceType == \A phase \in EventPhase : PhasePrecedence(phase) \in Nat
    BY DEF EventPhase, PhasePrecedence

\* A queue that holds an event has a next one: the earliest tick, in it the first phase, in
\* it the first insertion.
LEMMA NextEventExists ==
    ASSUME NEW q \in EventQueueState, q.events # {}
    PROVE  \E e \in q.events : IsNextEvent(q, e)
    <1>. DEFINE rank(e) == PhasePrecedence(e.phase)
    <1>1. \A e \in q.events : e.tick \in Nat /\ rank(e) \in Nat /\ e.sequence \in Nat
        BY PrecedenceType DEF EventQueueState, Event
    <1>. HIDE DEF rank
    <1>. DEFINE ticks == {e.tick : e \in q.events}
    <1>2. PICK n \in ticks : \A k \in ticks : n <= k
        <2>1. ticks \in SUBSET Nat /\ ticks # {}
            BY <1>1
        <2>. HIDE DEF ticks
        <2>. QED  BY <2>1, LeastNumber
    <1>. DEFINE first == {e \in q.events : e.tick = n}
                ranks == {rank(e) : e \in first}
    <1>3. PICK p \in ranks : \A k \in ranks : p <= k
        <2>1. ranks \in SUBSET Nat /\ ranks # {}
            BY <1>1
        <2>. HIDE DEF ranks
        <2>. QED  BY <2>1, LeastNumber
    <1>. DEFINE second == {e \in first : rank(e) = p}
                sequences == {e.sequence : e \in second}
    <1>4. PICK s \in sequences : \A k \in sequences : s <= k
        <2>1. sequences \in SUBSET Nat /\ sequences # {}
            BY <1>1
        <2>. HIDE DEF sequences
        <2>. QED  BY <2>1, LeastNumber
    <1>5. PICK e \in second : e.sequence = s
        OBVIOUS
    <1>6. ASSUME NEW x \in q.events PROVE ~ LaterEvent(e, x)
        <2>1. e \in q.events /\ e.tick = n /\ rank(e) = p /\ e.sequence = s
            BY <1>5
        <2>2. n <= x.tick
            BY <1>2
        <2>3. x.tick = n => p <= rank(x)
            BY <1>3
        <2>4. x.tick = n /\ rank(x) = p => s <= x.sequence
            BY <1>4
        <2>5. /\ ~ (e.tick > x.tick)
              /\ ~ (e.tick = x.tick /\ rank(e) > rank(x))
              /\ ~ (e.tick = x.tick /\ rank(e) = rank(x) /\ e.sequence > x.sequence)
            BY <1>1, <2>1, <2>2, <2>3, <2>4
        <2>. QED  BY <2>5 DEF LaterEvent, rank
    <1>. QED  BY <1>6 DEF IsNextEvent

\* Whatever is pending, the next event is not after it.
LEMMA NextEventFirst ==
    ASSUME NEW q \in EventQueueState, NEW x \in q.events
    PROVE  \E e \in q.events :
               /\ IsNextEvent(q, e) /\ e.tick <= x.tick
               /\ e.tick = x.tick => PhasePrecedence(e.phase) <= PhasePrecedence(x.phase)
    <1>1. PICK e \in q.events : IsNextEvent(q, e)
        BY NextEventExists
    <1>2. /\ e.tick \in Nat /\ x.tick \in Nat
          /\ PhasePrecedence(e.phase) \in Nat /\ PhasePrecedence(x.phase) \in Nat
        BY PrecedenceType DEF EventQueueState, Event
    <1>3. ~ LaterEvent(e, x)
        BY <1>1 DEF IsNextEvent
    <1>. QED  BY <1>1, <1>2, <1>3 DEF LaterEvent

-----------------------------------------------------------------------------
(* What one insertion and one removal do to the pending events of a phase. *)

\* The queue holds events.
LEMMA PendingFields ==
    ASSUME TypeOK
    PROVE  \A e \in queue.events :
               /\ e \in Event /\ e.tick \in Nat /\ e.sequence \in Nat /\ e.phase \in EventPhase
               /\ e.entities.task \in Int /\ e.entities.job \in Int
               /\ e.entities.resource \in Int /\ e.entities.message \in Int
    BY PendingType DEF Event, Entities

\* One insertion adds one event, to its own phase.
LEMMA ScheduledOf ==
    ASSUME NEW q, NEW n, NEW phase, NEW type, NEW entities, NEW cause
    PROVE  LET p == Scheduled(q, n, phase, type, entities, cause)
               e == ScheduledEvent(q, n, phase, type, entities, cause)
           IN  /\ Of(p, phase) = Of(q, phase) \cup {e}
               /\ \A other : other # phase => Of(p, other) = Of(q, other)
               /\ p.events = q.events \cup {e}
               /\ p.next_sequence = q.next_sequence + 1
               /\ e.tick = n /\ e.phase = phase /\ e.sequence = q.next_sequence
               /\ e.type = type /\ e.entities = entities /\ e.cause = cause
    BY DEF Of, Scheduled, ScheduledEvent

\* One removal takes one event, from its own phase.
LEMMA PoppedOf ==
    ASSUME NEW q \in EventQueueState, NEW e
    PROVE  LET p == Popped(q, e)
           IN  /\ \A phase : Of(p, phase) = Of(q, phase) \ {e}
               /\ \A phase : phase # e.phase => Of(p, phase) = Of(q, phase)
               /\ p.events = q.events \ {e}
               /\ p.next_sequence = q.next_sequence
    BY DEF Of, Popped, EventQueueState

\* The entities of the events the kernel schedules.
LEMMA EntityFields ==
    ASSUME NEW a, NEW b, NEW c
    PROVE  /\ JobEntities(a, b, c).task = a /\ JobEntities(a, b, c).job = b
           /\ JobEntities(a, b, c).resource = c
           /\ MessageEntities(a, b, c).task = a /\ MessageEntities(a, b, c).job = b
           /\ MessageEntities(a, b, c).message = c
    BY DEF JobEntities, MessageEntities

\* The precedences the handlers compare.
LEMMA Precedences ==
    /\ PhasePrecedence("ExecutionCompletion") = 0 /\ PhasePrecedence("MessageDelivery") = 1
    /\ PhasePrecedence("DeadlineCheck") = 2 /\ PhasePrecedence("JobRelease") = 3
    /\ PhasePrecedence("Scheduling") = 5 /\ PhasePrecedence("CausedAction") = 6
    BY DEF PhasePrecedence

\* An event of the tick that precedes no other is due only if nothing earlier is pending.
LEMMA DueIsFirst ==
    ASSUME TypeOK, NothingInThePast, NEW e \in queue.events, IsDue(e), NEW x \in queue.events,
           x.tick = tick
    PROVE  PhasePrecedence(e.phase) <= PhasePrecedence(x.phase)
    <1>1. /\ PhasePrecedence(e.phase) \in Nat /\ PhasePrecedence(x.phase) \in Nat
        BY PendingFields, PrecedenceType
    <1>. QED  BY <1>1 DEF IsDue, IsNextEvent, LaterEvent

\* Whatever is pending in the tick, the next event is due.
LEMMA DueExists ==
    ASSUME TypeOK, NothingInThePast, NEW x \in queue.events, x.tick = tick
    PROVE  \E e \in queue.events :
               IsDue(e) /\ PhasePrecedence(e.phase) <= PhasePrecedence(x.phase)
    <1>1. PICK e \in queue.events :
               /\ IsNextEvent(queue, e) /\ e.tick <= x.tick
               /\ e.tick = x.tick => PhasePrecedence(e.phase) <= PhasePrecedence(x.phase)
        BY NextEventFirst DEF TypeOK
    <1>2. e.tick = tick
        BY <1>1, PendingFields DEF NothingInThePast, TypeOK
    <1>. QED  BY <1>1, <1>2 DEF IsDue

\* Nothing lies in the horizon only if everything pending lies beyond it.
LEMMA BeyondHorizon ==
    ASSUME TypeOK, NothingInHorizon, NEW x \in queue.events
    PROVE  x.tick > config.stop
    <1>1. PICK e \in queue.events : IsNextEvent(queue, e) /\ e.tick <= x.tick
        BY NextEventFirst DEF TypeOK
    <1>2. ~ (e.tick <= config.stop)
        BY <1>1 DEF NothingInHorizon, InHorizon
    <1>. QED  BY <1>1, <1>2, PendingFields, ConfigType

\* A completion or a running interval has a completion candidate at its end.
LEMMA EndIsPending ==
    ASSUME TypeOK, CompletionsSound, NEW r \in ResourceIds, ~ Idle(r),
           resource[r].expected <= config.stop
    PROVE  \E e \in queue.events :
               /\ e.phase = "ExecutionCompletion" /\ e.tick = resource[r].expected
               /\ e.entities.resource = r /\ JobOf(e) = resource[r].running
    BY DEF CompletionsSound, Of, CompletionOf, JobOf

\* After the completions of a tick no running interval ends in it.
LEMMA NoIntervalEndsNow ==
    ASSUME TypeOK, PositionSound, NothingInThePast, IntervalsExact, CompletionsSound,
           stage \in {"release", "schedule", "act"}, NEW r \in ResourceIds, ~ Idle(r)
    PROVE  resource[r].expected > tick
    <1>1. resource[r].expected >= tick /\ resource[r].expected \in Int /\ tick \in Int
        BY DEF IntervalsExact, TypeOK, ResourceState
    <1>2. ASSUME resource[r].expected = tick PROVE FALSE
        <2>1. PICK e \in queue.events : e.phase = "ExecutionCompletion" /\ e.tick = tick
            BY <1>2, EndIsPending DEF PositionSound
        <2>. QED  BY <2>1, Precedences DEF NothingInThePast
    <1>. QED  BY <1>1, <1>2

\* A pending event of a phase is pending.
LEMMA OfPending ==
    ASSUME NEW q, NEW phase
    PROVE  \A e : e \in Of(q, phase) <=> e \in q.events /\ e.phase = phase
    BY DEF Of

-----------------------------------------------------------------------------
(* The initial state. *)

LEMMA InitKernelInv == Init => KernelInv
    <1>. SUFFICES ASSUME Init PROVE KernelInv
        OBVIOUS
    <1>1. StateInv
        BY InitStateInv
    <1>2. queue.events = {} /\ Released = {} /\ batch = {} /\ DOMAIN messages = {}
        BY DEF Init, EmptyQueue, Released
    <1>3. \A phase : Of(queue, phase) = {}
        BY <1>2 DEF Of
    <1>4. \A r \in ResourceIds : Idle(r) /\ ready[r] = {} /\ resource[r] = IdleResource
        BY DEF Init, Idle, IdleResource
    <1>5. PositionSound /\ NothingInThePast /\ KernelConsistent
        BY <1>1, <1>2, ConfigType DEF PositionSound, NothingInThePast, KernelConsistent, Init, StateInv
    <1>6. ReleasesSound
        BY <1>2, <1>3 DEF ReleasesSound, HeldReleases, Init, InitialRelease
    <1>7. JobsSound /\ CompletionsSound /\ ScheduleSound /\ DeadlinesSound /\ NetworkSound
        BY <1>2, <1>3, <1>4 DEF JobsSound, CompletionsSound, ScheduleSound, DeadlinesSound, NetworkSound
    <1>8. IntervalsExact
        BY <1>4 DEF IntervalsExact, IdleResource
    <1>. QED  BY <1>1, <1>5, <1>6, <1>7, <1>8 DEF KernelInv

-----------------------------------------------------------------------------
(* What each part of the invariant does not depend on. *)

\* Releases: the release state, the held candidates and the identities of the jobs.
LEMMA ReleasesFrame ==
    ASSUME ReleasesSound, stage # "failed",
           UNCHANGED <<config, release>>, HeldReleases' = HeldReleases, Released' = Released,
           stage' # "initialize"
    PROVE  ReleasesSound'
    BY DEF ReleasesSound, ReleaseMatches

\* After an exception nothing more is released.
LEMMA ReleasesStop == ASSUME stage' = "failed" PROVE ReleasesSound'
    BY DEF ReleasesSound

\* Jobs: only their own state and the clock.
LEMMA JobsFrame ==
    ASSUME TypeOK, JobsSound, UNCHANGED jobs, tick' >= tick, tick' \in Nat
    PROVE  JobsSound'
    <1>1. Released' = Released /\ \A j \in Released : jobs[j].release \in Nat
        BY DEF Released, TypeOK, JobState
    <1>2. \A j \in Released : jobs[j].release <= tick /\ tick \in Nat => jobs[j].release <= tick'
        BY <1>1
    <1>. QED  BY <1>1, <1>2 DEF JobsSound, Active, TypeOK

\* Running intervals: the resources and the demand of the job each one runs.
LEMMA IntervalsFrame ==
    ASSUME MembershipAgrees, IntervalsExact, UNCHANGED <<resource, tick>>, Released' = Released,
           \A j \in Released : jobs'[j].remaining = jobs[j].remaining
    PROVE  IntervalsExact'
    BY DEF IntervalsExact, Idle, MembershipAgrees

\* Completion candidates: jobs and resources, the clock, and whether a decision is open.
LEMMA CompletionsFrame ==
    ASSUME CompletionsSound, UNCHANGED <<config, tick, jobs, resource>>,
           Of(queue, "ExecutionCompletion")' = Of(queue, "ExecutionCompletion"),
           \A r : Undecided(r)' => Undecided(r)
    PROVE  CompletionsSound'
    BY DEF CompletionsSound, CompletionOf, Idle, Released

\* The schedule: jobs, resources and Ready sets, the clock, and whether a decision stands.
LEMMA ScheduleFrame ==
    ASSUME ScheduleSound, UNCHANGED <<config, tick, jobs, resource, ready>>,
           \A r \in ResourceIds : Decided(r)' => Decided(r)
    PROVE  ScheduleSound'
    BY DEF ScheduleSound, Idle

\* Deadlines: the jobs, the clock, the pending checks, and no completion that is new.
LEMMA DeadlinesFrame ==
    ASSUME DeadlinesSound, UNCHANGED <<config, tick, jobs>>,
           Of(queue, "DeadlineCheck")' = Of(queue, "DeadlineCheck"),
           Of(queue, "ExecutionCompletion")' \subseteq Of(queue, "ExecutionCompletion")
    PROVE  DeadlinesSound'
    <1>1. Released' = Released /\ \A j \in Released : (Open(j)' <=> Open(j)) /\ (Judged(j)' <=> Judged(j))
        BY DEF Released, Open, Judged, Active
    <1>. QED  BY <1>1 DEF DeadlinesSound

\* The network: the messages and their pending events.
LEMMA NetworkFrame ==
    ASSUME NetworkSound, UNCHANGED messages,
           Of(queue, "CausedAction")' \subseteq Of(queue, "CausedAction"),
           Of(queue, "MessageDelivery")' \subseteq Of(queue, "MessageDelivery")
    PROVE  NetworkSound'
    BY DEF NetworkSound, SendMatches, DeliveryMatches

\* Everything about the runtime objects, when only the position, the trace or events of the
\* network change.
LEMMA RuntimeFrame ==
    ASSUME KernelInv, UNCHANGED <<config, tick, jobs, resource, ready>>,
           Of(queue, "ExecutionCompletion")' = Of(queue, "ExecutionCompletion"),
           Of(queue, "DeadlineCheck")' = Of(queue, "DeadlineCheck"),
           \A r : Undecided(r)' => Undecided(r),
           \A r \in ResourceIds : Decided(r)' => Decided(r)
    PROVE  /\ JobsSound' /\ IntervalsExact' /\ CompletionsSound' /\ ScheduleSound' /\ DeadlinesSound'
    <1>1. TypeOK /\ MembershipAgrees /\ tick \in Nat
        BY DEF KernelInv, StateInv, TypeOK
    <1>2. JobsSound'
        BY <1>1, JobsFrame DEF KernelInv
    <1>3. IntervalsExact'
        BY <1>1, IntervalsFrame DEF KernelInv, Released
    <1>4. CompletionsSound' /\ ScheduleSound' /\ DeadlinesSound'
        BY CompletionsFrame, ScheduleFrame, DeadlinesFrame DEF KernelInv
    <1>. QED  BY <1>2, <1>3, <1>4

-----------------------------------------------------------------------------
(* initialize(), and the moves between the loops. *)

\* Before the first tick nothing has been released.
LEMMA NothingReleasedYet ==
    ASSUME KernelInv, stage = "initialize"
    PROVE  Released = {} /\ tick = 0 /\ trace = <<>> /\ batch = {}
    BY DEF KernelInv, PositionSound

\* A first release is the one its task now waits for.
LEMMA QueueFirstReleaseKernel ==
    ASSUME KernelInv, NEW t \in TaskIds, QueueFirstRelease(t)
    PROVE  KernelInv'
    <1>. DEFINE r == config.assignment[t]
                entities == JobEntities(t, release[t].job, r)
                e == ScheduledEvent(queue, release[t].tick, "JobRelease", "JobRelease", entities, Absent)
    <1>1. StateInv /\ TypeOK /\ StateInv'
        BY QueueFirstReleaseStep DEF KernelInv, StateInv
    <1>2. /\ stage = "initialize" /\ t \in todo /\ todo' = todo \ {t}
          /\ queue' = Scheduled(queue, release[t].tick, "JobRelease", "JobRelease", entities, Absent)
          /\ release' = [release EXCEPT ![t].pending = r]
          /\ UNCHANGED <<config, stage, fault, tick, trace, jobs, resource, ready, messages, batch>>
        BY DEF QueueFirstRelease, ScheduleCurrentRelease
    <1>3. Released = {} /\ tick = 0 /\ trace = <<>> /\ batch = {}
        BY <1>2, NothingReleasedYet
    <1>4. /\ queue'.events = queue.events \cup {e}
          /\ Of(queue, "JobRelease")' = Of(queue, "JobRelease") \cup {e}
          /\ \A phase : phase # "JobRelease" => Of(queue, phase)' = Of(queue, phase)
          /\ e.tick = release[t].tick /\ e.phase = "JobRelease"
          /\ e.entities.task = t /\ e.entities.job = release[t].job /\ e.entities.resource = r
        <2>1. \A phase : Of(queue, phase)' = Of(queue', phase)
            BY DEF Of
        <2>. QED  BY <1>2, <2>1, ScheduledOf, EntityFields
    <1>. HIDE DEF e, entities
    <1>5. release[t].tick \in Nat /\ r \in Nat /\ r # Absent
        BY <1>1, ConfigType DEF TypeOK, ReleaseState, Absent
    <1>6. PositionSound'
        <2>1. Released' = Released
            BY <1>2 DEF Released
        <2>. QED  BY <1>2, <1>3, <1>4, <2>1 DEF KernelInv, PositionSound, ScheduledPhases
    <1>7. NothingInThePast'
        BY <1>2, <1>3, <1>4, <1>5 DEF KernelInv, NothingInThePast
    <1>8. ReleasesSound'
        <2>1. HeldReleases' = HeldReleases \cup {e}
            BY <1>2, <1>4 DEF HeldReleases
        <2>2. /\ \A s \in TaskIds : s # t => release'[s] = release[s]
              /\ release'[t].pending = r /\ release'[t].tick = release[t].tick
              /\ release'[t].job = release[t].job
            BY <1>1, <1>2 DEF TypeOK, ReleaseState
        <2>3. release[t].pending = Absent
            BY <1>2 DEF KernelInv, ReleasesSound
        <2>4. \A f \in HeldReleases : f.entities.task \in TaskIds /\ f.entities.task # t
            BY <1>2, <2>3 DEF KernelInv, ReleasesSound, ReleaseMatches
        <2>5. Released' = {}
            BY <1>2, <1>3 DEF Released
        <2>6. \A f \in HeldReleases' : ReleaseMatches(f)'
            BY <1>2, <1>4, <1>5, <2>1, <2>2, <2>4 DEF KernelInv, ReleasesSound, ReleaseMatches
        <2>7. \A f, g \in HeldReleases' : f.entities.task = g.entities.task => f = g
            BY <1>2, <1>4, <2>1, <2>4 DEF KernelInv, ReleasesSound
        <2>8. \A s \in TaskIds : release'[s].pending # Absent =>
                  /\ \E f \in HeldReleases' : f.entities.task = s
                  /\ release'[s].pending = config'.assignment[s]
            BY <1>2, <1>4, <2>1, <2>2 DEF KernelInv, ReleasesSound
        <2>9. \A s \in TaskIds : s \in todo' => release'[s].pending = Absent
            BY <1>2, <2>2 DEF KernelInv, ReleasesSound
        <2>. QED  BY <2>5, <2>6, <2>7, <2>8, <2>9 DEF ReleasesSound
    <1>9. JobsSound' /\ IntervalsExact' /\ CompletionsSound' /\ ScheduleSound' /\ DeadlinesSound'
        <2>1. \A s : (Undecided(s)' => Undecided(s)) /\ (Decided(s)' => Decided(s))
            BY <1>2 DEF Undecided, Decided
        <2>. QED  BY <1>2, <1>4, <2>1, RuntimeFrame
    <1>10. NetworkSound'
        BY <1>2, <1>4, NetworkFrame DEF KernelInv
    <1>. QED  BY <1>1, <1>2, <1>6, <1>7, <1>8, <1>9, <1>10 DEF KernelInv, KernelConsistent

\* With the first releases queued the engine can be inspected.
LEMMA InitializedKernel ==
    ASSUME KernelInv, Initialized
    PROVE  KernelInv'
    <1>1. StateInv'
        BY MoveStep DEF KernelInv
    <1>2. /\ stage = "initialize" /\ stage' = "between"
          /\ UNCHANGED <<config, fault, tick, queue, trace, release, jobs, resource, ready, messages, todo, batch>>
        BY DEF Initialized
    <1>3. Released = {} /\ Released' = {} /\ trace = <<>> /\ batch = {}
        BY <1>2, NothingReleasedYet DEF Released
    <1>4. \A phase : Of(queue, phase)' = Of(queue, phase)
        BY <1>2 DEF Of
    <1>5. PositionSound' /\ NothingInThePast' /\ KernelConsistent'
        BY <1>2, <1>3 DEF KernelInv, PositionSound, NothingInThePast, KernelConsistent
    <1>6. ReleasesSound'
        <2>1. HeldReleases' = HeldReleases
            BY <1>2, <1>4 DEF HeldReleases
        <2>. QED  BY <1>2, <1>3, <2>1, ReleasesFrame DEF KernelInv
    <1>7. JobsSound' /\ DeadlinesSound' /\ NetworkSound'
        BY <1>2, <1>3, <1>4, DeadlinesFrame, NetworkFrame DEF KernelInv, JobsSound
    <1>8. IntervalsExact'
        BY <1>2, <1>3, IntervalsFrame DEF KernelInv, StateInv
    <1>9. CompletionsSound'
        <2>1. \A s : Undecided(s)' => Undecided(s)
            BY <1>2 DEF Undecided
        <2>. QED  BY <1>2, <1>4, <2>1, CompletionsFrame DEF KernelInv
    <1>10. ScheduleSound'
        BY <1>2, <1>3 DEF KernelInv, ScheduleSound, StateInv, MembershipAgrees, Idle
    <1>. QED  BY <1>1, <1>5, <1>6, <1>7, <1>8, <1>9, <1>10 DEF KernelInv

\* A released job has run through a tick, so the next one is later.
LEMMA TickAdvances ==
    ASSUME KernelInv, stage = "between", Released # {}
    PROVE  \A e \in queue.events : e.tick > tick
    BY DEF KernelInv, PositionSound, NothingInThePast

\* The clock moves to the next event, and past nothing that was still to happen.
LEMMA BeginTickKernel ==
    ASSUME KernelInv, NEW e \in queue.events, BeginTick(e)
    PROVE  KernelInv'
    <1>1. StateInv' /\ StateInv /\ TypeOK /\ MembershipAgrees
        BY MoveStep DEF KernelInv, StateInv
    <1>2. /\ stage = "between" /\ IsNextEvent(queue, e) /\ e.tick <= config.stop
          /\ UNCHANGED <<config, queue, trace, release, jobs, resource, ready, messages, todo, batch>>
        BY DEF BeginTick, InHorizon
    <1>3. e.tick \in Nat /\ tick \in Nat /\ e.tick >= tick
        BY <1>1, PendingFields DEF KernelInv, NothingInThePast, TypeOK
    <1>4. stage' = "settle" /\ tick' = e.tick /\ fault' = fault
        BY <1>3 DEF BeginTick
    <1>5. \A x \in queue.events : x.tick >= tick' /\ x.tick \in Nat
        BY <1>1, <1>2, <1>3, <1>4, PendingFields DEF IsNextEvent, LaterEvent
    <1>6. Released' = Released /\ (Released # {} => tick' > tick)
          /\ \A phase : Of(queue, phase)' = Of(queue, phase)
        BY <1>2, <1>4, TickAdvances DEF Released, Of
    <1>7. config.stop \in Nat /\ tick' \in Nat /\ tick' <= config.stop
        BY <1>1, <1>2, <1>3, <1>4, ConfigType
    <1>8. PositionSound' /\ NothingInThePast' /\ KernelConsistent'
        BY <1>2, <1>4, <1>5, <1>6, <1>7
           DEF KernelInv, PositionSound, NothingInThePast, KernelConsistent
    <1>9. ReleasesSound'
        <2>1. HeldReleases' = HeldReleases
            BY <1>2, <1>6 DEF HeldReleases
        <2>. QED  BY <1>2, <1>4, <1>6, <2>1, ReleasesFrame DEF KernelInv
    <1>10. JobsSound'
        BY <1>1, <1>2, <1>3, <1>4, JobsFrame DEF KernelInv
    <1>11. IntervalsExact'
        <2>1. ASSUME NEW r \in ResourceIds, ~ Idle(r)
              PROVE  resource[r].since <= tick' /\ resource[r].expected >= tick'
            <3>1. resource[r].since \in Int /\ resource[r].expected \in Int /\ resource[r].since <= tick
                BY <1>1, <2>1 DEF TypeOK, ResourceState, KernelInv, IntervalsExact
            <3>2. CASE resource[r].expected <= config.stop
                BY <1>1, <1>3, <1>4, <1>5, <2>1, <3>1, <3>2, EndIsPending DEF KernelInv
            <3>3. CASE ~ (resource[r].expected <= config.stop)
                BY <1>3, <1>4, <1>7, <3>1, <3>3
            <3>. QED  BY <3>2, <3>3
        <2>. QED  BY <1>2, <2>1 DEF KernelInv, IntervalsExact, Idle
    <1>12. CompletionsSound'
        <2>1. ASSUME NEW x \in Of(queue, "ExecutionCompletion"), jobs[JobOf(x)].lifecycle = "Ready"
              PROVE  x.tick < tick' + jobs[JobOf(x)].remaining
            <3>1. JobOf(x) \in Released /\ x.tick <= tick + jobs[JobOf(x)].remaining
                BY <2>1 DEF KernelInv, CompletionsSound
            <3>2. jobs[JobOf(x)].remaining \in Nat /\ x.tick \in Nat
                BY <1>1, <1>5, <3>1 DEF TypeOK, JobState, Of
            <3>. QED  BY <1>3, <1>6, <1>7, <3>1, <3>2
        <2>2. ASSUME NEW x \in Of(queue, "ExecutionCompletion"), jobs[JobOf(x)].lifecycle = "Ready"
              PROVE  x.tick <= tick' + jobs[JobOf(x)].remaining
            <3>1. JobOf(x) \in Released
                BY DEF KernelInv, CompletionsSound
            <3>2. jobs[JobOf(x)].remaining \in Nat /\ x.tick \in Nat
                BY <1>1, <1>5, <3>1 DEF TypeOK, JobState, Of
            <3>. QED  BY <1>7, <2>1, <2>2, <3>2
        <2>. QED  BY <1>2, <1>6, <2>1, <2>2 DEF KernelInv, CompletionsSound, Idle, CompletionOf
    <1>13. ScheduleSound'
        <2>1. \A r : Decided(r) /\ ~ Decided(r)'
            BY <1>2, <1>4 DEF Decided
        <2>. QED  BY <1>2, <2>1 DEF KernelInv, ScheduleSound, Idle
    <1>14. DeadlinesSound'
        <2>1. ASSUME NEW j \in Released PROVE (Open(j) => Open(j)') /\ (Judged(j) => Judged(j)')
            <3>1. jobs[j].deadline \in Nat
                BY <1>1 DEF TypeOK, JobState
            <3>2. ASSUME Open(j) PROVE tick' <= jobs[j].deadline
                <4>1. CASE jobs[j].deadline <= config.stop
                    <5>1. PICK x \in Of(queue, "DeadlineCheck") : JobOf(x) = j
                        BY <3>2, <4>1 DEF Open
                    <5>2. x.tick = jobs[j].deadline /\ x \in queue.events
                        BY <5>1 DEF KernelInv, DeadlinesSound, Of
                    <5>. QED  BY <1>5, <1>7, <5>2
                <4>2. CASE ~ (jobs[j].deadline <= config.stop)
                    BY <1>7, <3>1, <4>2
                <4>. QED  BY <4>1, <4>2
            <3>3. Open(j) => Open(j)'
                BY <1>2, <1>6, <3>2 DEF Open, Active
            <3>4. Judged(j) => Judged(j)'
                BY <1>2, <1>3, <1>4, <3>1 DEF Judged, Active
            <3>. QED  BY <3>3, <3>4
        <2>2. ASSUME NEW j \in Released, jobs[j].missed PROVE jobs[j].deadline # tick'
            <3>1. Judged(j)
                BY <2>2 DEF KernelInv, DeadlinesSound, Open
            <3>2. jobs[j].deadline \in Nat
                BY <1>1 DEF TypeOK, JobState
            <3>. QED  BY <1>3, <1>6, <1>7, <3>1, <3>2 DEF Judged
        <2>. QED  BY <1>2, <1>6, <2>1, <2>2 DEF KernelInv, DeadlinesSound
    <1>15. NetworkSound'
        BY <1>2, <1>6, NetworkFrame DEF KernelInv
    <1>. QED  BY <1>1, <1>8, <1>9, <1>10, <1>11, <1>12, <1>13, <1>14, <1>15 DEF KernelInv

\* A step that moves the engine to another inspectable position.
LEMMA SettledMove ==
    ASSUME KernelInv, StateInv', stage \in {"between", "act"}, stage' \in {"between", "finished"},
           UNCHANGED <<config, fault, tick, queue, trace, release, jobs, resource, ready, messages,
                       todo, batch>>,
           stage' = "finished" => \A x \in queue.events : x.tick > config.stop,
           stage' = "between" => \A x \in queue.events : x.tick > tick
    PROVE  KernelInv'
    <1>1. Released' = Released /\ \A phase : Of(queue, phase)' = Of(queue, phase)
        BY DEF Released, Of
    <1>2. PositionSound' /\ NothingInThePast' /\ KernelConsistent'
        BY <1>1 DEF KernelInv, PositionSound, NothingInThePast, KernelConsistent
    <1>3. HeldReleases' = HeldReleases
        BY <1>1 DEF HeldReleases
    <1>4. ReleasesSound' /\ NetworkSound'
        BY <1>1, <1>3, ReleasesFrame, NetworkFrame DEF KernelInv
    <1>5. \A r : (Undecided(r)' => Undecided(r)) /\ (Decided(r)' => Decided(r))
        BY DEF Undecided, Decided
    <1>6. JobsSound' /\ IntervalsExact' /\ CompletionsSound' /\ ScheduleSound' /\ DeadlinesSound'
        BY <1>1, <1>5, RuntimeFrame
    <1>. QED  BY <1>2, <1>4, <1>6 DEF KernelInv

\* The run ends when nothing is left in the horizon.
LEMMA FinishEmptyKernel ==
    ASSUME KernelInv, FinishEmpty
    PROVE  KernelInv'
    <1>1. StateInv' /\ TypeOK
        BY MoveStep DEF KernelInv, StateInv
    <1>. QED  BY <1>1, SettledMove, BeyondHorizon DEF FinishEmpty

\* A tick ends when none of its events is left.
LEMMA EndTickKernel ==
    ASSUME KernelInv, EndTick
    PROVE  KernelInv'
    <1>1. StateInv' /\ TypeOK
        BY MoveStep DEF KernelInv, StateInv
    <1>2. ASSUME NEW x \in queue.events PROVE x.tick > tick
        <2>1. x.tick >= tick /\ x.tick \in Nat /\ tick \in Nat
            BY <1>1, PendingFields DEF KernelInv, NothingInThePast, TypeOK
        <2>2. x.tick # tick
            BY <1>1, DueExists DEF KernelInv, EndTick
        <2>. QED  BY <2>1, <2>2
    <1>3. stage' = "finished" => \A x \in queue.events : x.tick > config.stop
        BY <1>1, BeyondHorizon DEF EndTick
    <1>. QED  BY <1>1, <1>2, <1>3, SettledMove DEF EndTick

-----------------------------------------------------------------------------
(* Before scheduling: completions, deliveries, deadline checks. *)

\* Taking an event leaves the others where they are.
LEMMA TakenEvent ==
    ASSUME TypeOK, NEW e \in queue.events, queue' = Popped(queue, e)
    PROVE  /\ queue'.events = queue.events \ {e}
           /\ Of(queue, e.phase)' = Of(queue, e.phase) \ {e}
           /\ \A phase : phase # e.phase => Of(queue, phase)' = Of(queue, phase)
    <1>1. \A phase : Of(queue, phase)' = Of(queue', phase)
        BY DEF Of
    <1>. QED  BY <1>1, PoppedOf DEF TypeOK

\* A step within the loops of a tick that takes events and adds none.
LEMMA TakingKeepsPosition ==
    ASSUME KernelInv, UNCHANGED <<config, tick>>, Released' = Released,
           stage \in {"settle", "act"}, stage' = stage \/ (stage = "settle" /\ stage' = "publish"),
           queue'.events \subseteq queue.events, UNCHANGED <<batch, fault>>,
           trace' # <<>> \/ trace' = trace,
           stage' = "publish" => trace'[Len(trace')].tick = tick
    PROVE  PositionSound' /\ NothingInThePast' /\ KernelConsistent'
    <1>1. PositionSound'
        BY DEF KernelInv, PositionSound
    <1>2. NothingInThePast' /\ KernelConsistent'
        BY DEF KernelInv, NothingInThePast, KernelConsistent
    <1>. QED  BY <1>1, <1>2

\* The release candidates are untouched when neither queue nor batch loses one.
LEMMA ReleasesKept ==
    ASSUME KernelInv, stage \notin {"failed", "initialize"}, stage' # "initialize",
           UNCHANGED <<config, release, batch>>, Released' = Released,
           Of(queue, "JobRelease")' = Of(queue, "JobRelease")
    PROVE  ReleasesSound'
    <1>1. HeldReleases' = HeldReleases
        BY DEF HeldReleases
    <1>. QED  BY <1>1, ReleasesFrame DEF KernelInv

\* The completion that is taken finds its job running, and exactly the work it still needs.
LEMMA CurrentCompletes ==
    ASSUME KernelInv, NEW e \in queue.events, Settling(e, "ExecutionCompletion"),
           CompletionIsCurrent(e)
    PROVE  LET j == JobOf(e)
               r == e.entities.resource
           IN  /\ r \in ResourceIds /\ j \in Released /\ resource[r].running = j /\ ~ Idle(r)
               /\ jobs[j].lifecycle = "Running" /\ jobs[j].resource = r
               /\ e.tick = tick /\ e.phase = "ExecutionCompletion"
               /\ ChargeCompletes(r, j)
    <1>. DEFINE j == JobOf(e)
                r == e.entities.resource
    <1>1. TypeOK /\ MembershipAgrees /\ IntervalsExact
        BY DEF KernelInv, StateInv
    <1>2. e \in Of(queue, "ExecutionCompletion") /\ e.tick = tick /\ e.phase = "ExecutionCompletion"
        BY DEF Settling, IsDue, Of
    <1>3. j \in Released /\ jobs[j].resource = r /\ r \in ResourceIds
        BY <1>1, <1>2 DEF KernelInv, CompletionsSound, TypeOK, JobState
    <1>4. resource[r].running = j /\ resource[r].expected = tick /\ j # NoJob
        BY <1>1, <1>2, <1>3, NoJobAssumption DEF CompletionIsCurrent, JobOf, TypeOK, JobIdentity
    <1>5. ~ Idle(r) /\ jobs[j].lifecycle = "Running"
        BY <1>1, <1>3, <1>4 DEF Idle, MembershipAgrees
    <1>6. /\ resource[r].since \in Int /\ jobs[j].remaining \in Nat /\ tick \in Nat
        BY <1>1, <1>3 DEF TypeOK, ResourceState, JobState
    <1>7. jobs[j].remaining > 0 /\ tick = resource[r].since + jobs[j].remaining
        BY <1>1, <1>3, <1>4, <1>5 DEF IntervalsExact
    <1>8. ChargeCompletes(r, j)
        BY <1>5, <1>6, <1>7 DEF ChargeCompletes
    <1>. QED  BY <1>2, <1>3, <1>4, <1>5, <1>8

\* An accepted completion ends the job in time or not, and takes its resource's interval.
LEMMA AcceptCompletionKernel ==
    ASSUME KernelInv, NEW e \in queue.events, AcceptCompletion(e)
    PROVE  KernelInv'
    <1>. DEFINE j == JobOf(e)
                r == e.entities.resource
    <1>1. StateInv' /\ TypeOK /\ TypeOK' /\ MembershipAgrees
        BY AcceptCompletionStep DEF KernelInv, StateInv
    <1>2. stage = "settle" /\ IsDue(e) /\ Settling(e, "ExecutionCompletion") /\ CompletionIsCurrent(e)
        BY DEF AcceptCompletion, Settling
    <1>3. /\ r \in ResourceIds /\ j \in Released /\ resource[r].running = j /\ ~ Idle(r)
          /\ jobs[j].lifecycle = "Running" /\ jobs[j].resource = r
          /\ e.tick = tick /\ e.phase = "ExecutionCompletion" /\ ChargeCompletes(r, j)
        BY <1>2, CurrentCompletes
    <1>4. /\ queue' = Popped(queue, e)
          /\ jobs' = [jobs EXCEPT ![j] = CompletedJob(jobs[j])]
          /\ resource' = [resource EXCEPT ![r] = IdledResource(resource[r])]
          /\ trace' = Append(trace, e) /\ stage' \in {"settle", "publish"} /\ fault' = fault
          /\ UNCHANGED <<config, tick, release, ready, messages, batch>>
        BY <1>3 DEF AcceptCompletion, JobOf
    <1>5. /\ Released' = Released
          /\ \A k \in Released : k # j => jobs'[k] = jobs[k]
          /\ jobs'[j] = CompletedJob(jobs[j])
          /\ \A s \in ResourceIds : s # r => resource'[s] = resource[s]
          /\ resource'[r] = IdledResource(resource[r])
        BY <1>1, <1>3, <1>4 DEF TypeOK, Released
    <1>6. /\ jobs'[j].resource = jobs[j].resource /\ jobs'[j].priority = jobs[j].priority
          /\ jobs'[j].release = jobs[j].release /\ jobs'[j].deadline = jobs[j].deadline
          /\ jobs'[j].missed = jobs[j].missed /\ jobs'[j].finish = tick
          /\ jobs'[j].lifecycle = "Completed" /\ jobs'[j].remaining = 0
        <2>1. jobs[j] \in JobState
            BY <1>1, <1>3 DEF TypeOK
        <2>. QED  BY <1>5, <2>1 DEF CompletedJob, JobState
    <1>7. /\ queue'.events = queue.events \ {e}
          /\ Of(queue, "ExecutionCompletion")' = Of(queue, "ExecutionCompletion") \ {e}
          /\ \A phase : phase # "ExecutionCompletion" => Of(queue, phase)' = Of(queue, phase)
        BY <1>1, <1>3, <1>4, TakenEvent
    <1>8. /\ resource'[r].running = NoJob /\ resource'[r].since = Absent /\ resource'[r].expected = Absent
          /\ Idle(r)' /\ \A s \in ResourceIds : s # r => (Idle(s)' <=> Idle(s))
        BY <1>5 DEF IdledResource, Idle
    <1>9. \A s \in ResourceIds : s # r => resource[s].running # j
        BY <1>1, <1>3 DEF MembershipAgrees
    <1>10. PositionSound' /\ NothingInThePast' /\ KernelConsistent'
        <2>1. trace' # <<>> /\ trace'[Len(trace')].tick = tick
            BY <1>1, <1>3, <1>4 DEF TypeOK
        <2>. QED  BY <1>2, <1>4, <1>5, <1>7, <2>1, TakingKeepsPosition
    <1>11. ReleasesSound' /\ NetworkSound'
        BY <1>2, <1>4, <1>5, <1>7, ReleasesKept, NetworkFrame DEF KernelInv
    <1>12. JobsSound'
        <2>1. jobs[j].deadline \in Nat /\ jobs[j].release \in Nat
            BY <1>1, <1>3 DEF TypeOK, JobState
        <2>. QED  BY <1>3, <1>4, <1>5, <1>6, <2>1 DEF KernelInv, JobsSound, Active
    <1>13. IntervalsExact'
        BY <1>1, <1>3, <1>4, <1>5, <1>8, <1>9 DEF KernelInv, IntervalsExact, MembershipAgrees, Idle
    <1>14. CompletionsSound'
        <2>1. \A s : Undecided(s)' => Undecided(s)
            BY <1>2, <1>4 DEF Undecided
        <2>2. ASSUME NEW x \in Of(queue, "ExecutionCompletion")'
              PROVE  LET k == JobOf(x)
                         s == x.entities.resource
                     IN  /\ k \in Released' /\ jobs'[k].resource = s
                         /\ jobs'[k].lifecycle = "Ready" =>
                                /\ x.tick <= tick' + jobs'[k].remaining
                                /\ Undecided(s)' => x.tick < tick' + jobs'[k].remaining
                         /\ jobs'[k].lifecycle = "Running" => x.tick <= resource'[s].expected
            <3>1. x \in Of(queue, "ExecutionCompletion")
                BY <1>7
            <3>2. CASE JobOf(x) = j
                BY <1>3, <1>5, <1>6, <3>1, <3>2 DEF KernelInv, CompletionsSound
            <3>3. CASE JobOf(x) # j
                <4>1. jobs[JobOf(x)].lifecycle = "Running" => x.entities.resource # r
                    BY <1>1, <1>3, <3>1, <3>3 DEF KernelInv, CompletionsSound, MembershipAgrees
                <4>2. x.entities.resource \in ResourceIds
                    BY <1>1, <3>1 DEF KernelInv, CompletionsSound, TypeOK, JobState
                <4>. QED  BY <1>4, <1>5, <2>1, <3>1, <3>3, <4>1, <4>2 DEF KernelInv, CompletionsSound
            <3>. QED  BY <3>2, <3>3
        <2>3. \A s \in ResourceIds :
                  ~ Idle(s)' /\ resource'[s].expected <= config'.stop =>
                      \E x \in Of(queue, "ExecutionCompletion")' :
                          CompletionOf(x, s)' /\ x.tick = resource'[s].expected
            <3>1. SUFFICES ASSUME NEW s \in ResourceIds, ~ Idle(s)', resource'[s].expected <= config'.stop
                           PROVE  \E x \in Of(queue, "ExecutionCompletion")' :
                                      CompletionOf(x, s)' /\ x.tick = resource'[s].expected
                OBVIOUS
            <3>2. s # r
                BY <1>8, <3>1
            <3>3. PICK x \in Of(queue, "ExecutionCompletion") :
                           CompletionOf(x, s) /\ x.tick = resource[s].expected
                BY <1>4, <1>5, <1>8, <3>1, <3>2 DEF KernelInv, CompletionsSound
            <3>4. x # e
                BY <3>2, <3>3 DEF CompletionOf
            <3>. QED  BY <1>5, <1>7, <3>2, <3>3, <3>4 DEF CompletionOf
        <2>4. \A x, y \in Of(queue, "ExecutionCompletion")' : JobOf(x) = JobOf(y) /\ x.tick = y.tick => x = y
            BY <1>7 DEF KernelInv, CompletionsSound
        <2>. QED  BY <2>2, <2>3, <2>4 DEF CompletionsSound
    <1>15. ScheduleSound'
        <2>1. \A s : ~ Decided(s)'
            BY <1>4 DEF Decided
        <2>2. ASSUME NEW s \in ResourceIds, ~ Idle(s)'
              PROVE  s # r /\ resource'[s].running \in Released /\ resource'[s].running # j
            BY <1>1, <1>3, <1>5, <1>8, <1>9, <2>2 DEF MembershipAgrees
        <2>3. \A s \in ResourceIds : \A k \in ready[s] : k \in Released /\ k # j
            BY <1>1, <1>3 DEF MembershipAgrees
        <2>. QED  BY <1>4, <1>5, <1>8, <2>1, <2>2, <2>3 DEF KernelInv, ScheduleSound
    <1>16. DeadlinesSound'
        <2>1. ASSUME NEW k \in Released PROVE Open(k)' \/ Judged(k)'
            <3>1. Open(k) \/ Judged(k)
                BY DEF KernelInv, DeadlinesSound
            <3>2. CASE k # j
                BY <1>4, <1>5, <1>7, <3>1, <3>2 DEF Open, Judged, Active
            <3>3. CASE k = j /\ Open(k)
                <4>. HIDE DEF j
                <4>1. ~ jobs'[j].missed /\ tick' <= jobs'[j].deadline /\ jobs'[j].finish <= jobs'[j].deadline
                    BY <1>4, <1>6, <3>3 DEF Open
                <4>2. config'.stop = config.stop /\ Of(queue, "DeadlineCheck")' = Of(queue, "DeadlineCheck")
                    BY <1>4, <1>7
                <4>3. jobs'[j].deadline <= config'.stop =>
                          \E x \in Of(queue, "DeadlineCheck")' : JobOf(x) = j
                    BY <1>6, <3>3, <4>2 DEF Open
                <4>. QED  BY <3>3, <4>1, <4>3 DEF Open
            <3>4. CASE k = j /\ Judged(k)
                <4>1. jobs[j].missed /\ jobs[j].deadline <= tick
                    BY <1>3, <3>4 DEF Judged, Active
                <4>2. jobs[j].deadline # tick
                    <5>1. e \in Of(queue, "ExecutionCompletion") /\ tick \in Nat
                        BY <1>1, <1>3 DEF Of, TypeOK
                    <5>. QED  BY <1>3, <4>1, <5>1 DEF KernelInv, DeadlinesSound
                <4>3. jobs[j].deadline \in Nat /\ tick \in Nat
                    BY <1>1, <1>3 DEF TypeOK, JobState
                <4>4. /\ jobs'[j].deadline <= tick' /\ jobs'[j].missed
                      /\ jobs'[j].finish > jobs'[j].deadline
                    <5>1. jobs[j].deadline < tick /\ tick' = tick
                        BY <1>4, <4>1, <4>2, <4>3
                    <5>. HIDE DEF j
                    <5>. QED  BY <1>6, <4>1, <4>3, <5>1
                <4>5. Judged(k)'
                    <5>. HIDE DEF j
                    <5>. QED  BY <3>4, <4>4 DEF Judged
                <4>. QED  BY <4>5
            <3>. QED  BY <3>1, <3>2, <3>3, <3>4
        <2>2. \A k \in Released : jobs'[k].missed = jobs[k].missed /\ jobs'[k].deadline = jobs[k].deadline
                                  /\ jobs'[k].resource = jobs[k].resource
            BY <1>5, <1>6
        <2>. QED  BY <1>4, <1>5, <1>7, <2>1, <2>2 DEF KernelInv, DeadlinesSound
    <1>. QED  BY <1>1, <1>10, <1>11, <1>12, <1>13, <1>14, <1>15, <1>16 DEF KernelInv

\* A stale candidate was not the one its resource waits for.
LEMMA IgnoreStaleCompletionKernel ==
    ASSUME KernelInv, NEW e \in queue.events, IgnoreStaleCompletion(e)
    PROVE  KernelInv'
    <1>1. StateInv' /\ TypeOK /\ MembershipAgrees
        BY IgnoreStaleCompletionStep DEF KernelInv, StateInv
    <1>2. /\ stage = "settle" /\ e.phase = "ExecutionCompletion" /\ ~ CompletionIsCurrent(e)
          /\ queue' = Popped(queue, e)
          /\ UNCHANGED <<config, stage, fault, tick, trace, release, jobs, resource, ready, messages,
                         todo, batch>>
        BY DEF IgnoreStaleCompletion, Settling
    <1>3. /\ queue'.events = queue.events \ {e}
          /\ Of(queue, "ExecutionCompletion")' = Of(queue, "ExecutionCompletion") \ {e}
          /\ \A phase : phase # "ExecutionCompletion" => Of(queue, phase)' = Of(queue, phase)
        BY <1>1, <1>2, TakenEvent
    <1>4. Released' = Released
        BY <1>2 DEF Released
    <1>5. PositionSound' /\ NothingInThePast' /\ KernelConsistent'
        BY <1>2, <1>3, <1>4, TakingKeepsPosition
    <1>6. ReleasesSound' /\ NetworkSound'
        BY <1>2, <1>3, <1>4, ReleasesKept, NetworkFrame DEF KernelInv
    <1>7. JobsSound' /\ IntervalsExact' /\ DeadlinesSound'
        BY <1>1, <1>2, <1>3, <1>4, JobsFrame, IntervalsFrame, DeadlinesFrame DEF KernelInv, TypeOK
    <1>8. ScheduleSound'
        <2>1. \A r : Decided(r)' => Decided(r)
            BY <1>2 DEF Decided
        <2>. QED  BY <1>2, <2>1, ScheduleFrame DEF KernelInv
    <1>9. CompletionsSound'
        <2>1. \A s : Undecided(s)' => Undecided(s)
            BY <1>2 DEF Undecided
        <2>2. \A r \in ResourceIds, x \in Of(queue, "ExecutionCompletion") :
                  CompletionOf(x, r) /\ x.tick = resource[r].expected => x # e
            BY <1>2 DEF CompletionOf, CompletionIsCurrent
        <2>3. \A r \in ResourceIds :
                  ~ Idle(r)' /\ resource'[r].expected <= config'.stop =>
                      \E x \in Of(queue, "ExecutionCompletion")' :
                          CompletionOf(x, r)' /\ x.tick = resource'[r].expected
            BY <1>2, <1>3, <2>2 DEF KernelInv, CompletionsSound, CompletionOf, Idle
        <2>. QED  BY <1>2, <1>3, <1>4, <2>1, <2>3 DEF KernelInv, CompletionsSound
    <1>. QED  BY <1>1, <1>5, <1>6, <1>7, <1>8, <1>9 DEF KernelInv

\* Steps that change only the trace and the network before scheduling or after it.
LEMMA NetworkStep ==
    ASSUME KernelInv, StateInv', NetworkSound', NEW e \in queue.events,
           e.phase \notin {"ExecutionCompletion", "DeadlineCheck", "JobRelease"},
           stage \in {"settle", "act"}, trace' = Append(trace, e),
           UNCHANGED <<config, stage, fault, tick, release, jobs, resource, ready, todo, batch>>,
           Of(queue, "ExecutionCompletion")' = Of(queue, "ExecutionCompletion"),
           Of(queue, "DeadlineCheck")' = Of(queue, "DeadlineCheck"),
           Of(queue, "JobRelease")' = Of(queue, "JobRelease"),
           PositionSound', NothingInThePast'
    PROVE  KernelInv'
    <1>1. Released' = Released
        BY DEF Released
    <1>2. ReleasesSound' /\ KernelConsistent'
        BY <1>1, ReleasesKept DEF KernelInv, KernelConsistent
    <1>3. \A r : (Undecided(r)' => Undecided(r)) /\ (Decided(r)' => Decided(r))
        BY DEF Undecided, Decided
    <1>4. JobsSound' /\ IntervalsExact' /\ CompletionsSound' /\ ScheduleSound' /\ DeadlinesSound'
        BY <1>3, RuntimeFrame
    <1>. QED  BY <1>2, <1>4 DEF KernelInv

\* A delivery finds its message in flight and is the last event about it.
LEMMA DeliverMessageKernel ==
    ASSUME KernelInv, NEW e \in queue.events, DeliverMessage(e)
    PROVE  KernelInv'
    <1>. DEFINE i == e.entities.message
    <1>1. StateInv' /\ TypeOK
        BY DeliverMessageStep DEF KernelInv, StateInv
    <1>2. stage = "settle" /\ e.phase = "MessageDelivery" /\ e \in Of(queue, "MessageDelivery")
        BY DEF DeliverMessage, Settling, Of
    <1>3. DeliveryMatches(e) /\ i \in DOMAIN messages
        BY <1>2 DEF KernelInv, NetworkSound, DeliveryMatches
    <1>4. /\ queue' = Popped(queue, e) /\ trace' = Append(trace, e)
          /\ messages' = [messages EXCEPT ![i].lifecycle = "Delivered"]
          /\ UNCHANGED <<config, stage, fault, tick, release, jobs, resource, ready, todo, batch>>
        BY <1>3 DEF DeliverMessage
    <1>5. /\ queue'.events = queue.events \ {e}
          /\ Of(queue, "MessageDelivery")' = Of(queue, "MessageDelivery") \ {e}
          /\ \A phase : phase # "MessageDelivery" => Of(queue, phase)' = Of(queue, phase)
        BY <1>1, <1>2, <1>4, TakenEvent
    <1>6. NetworkSound'
        <2>1. /\ DOMAIN messages' = DOMAIN messages
              /\ \A k \in DOMAIN messages : k # i => messages'[k] = messages[k]
              /\ messages'[i] = [messages[i] EXCEPT !.lifecycle = "Delivered"]
            BY <1>1, <1>3, <1>4 DEF TypeOK
        <2>2. messages[i] \in Message
            BY <1>1, <1>3 DEF TypeOK
        <2>3. \A k \in DOMAIN messages : messages'[k].delivery = messages[k].delivery
                                         /\ messages'[k].send = messages[k].send
            BY <2>1, <2>2 DEF Message
        <2>4. \A x \in Of(queue, "CausedAction") : x.entities.message \in DOMAIN messages /\ x.entities.message # i
            BY <1>3 DEF KernelInv, NetworkSound, SendMatches, DeliveryMatches
        <2>5. \A x \in Of(queue, "MessageDelivery")' :
                  x \in Of(queue, "MessageDelivery") /\ x.entities.message \in DOMAIN messages /\ x.entities.message # i
            BY <1>2, <1>5 DEF KernelInv, NetworkSound, DeliveryMatches
        <2>6. \A x \in Of(queue, "CausedAction")' : SendMatches(x)'
            BY <1>5, <2>1, <2>4 DEF KernelInv, NetworkSound, SendMatches
        <2>7. \A x \in Of(queue, "MessageDelivery")' : DeliveryMatches(x)'
            BY <2>1, <2>5 DEF KernelInv, NetworkSound, DeliveryMatches
        <2>8. \A k \in DOMAIN messages' : messages'[k].delivery > messages'[k].send
            BY <2>1, <2>3 DEF KernelInv, NetworkSound
        <2>9. /\ \A x, y \in Of(queue, "CausedAction")' : x.entities.message = y.entities.message => x = y
              /\ \A x, y \in Of(queue, "MessageDelivery")' : x.entities.message = y.entities.message => x = y
            BY <1>5 DEF KernelInv, NetworkSound
        <2>. QED  BY <2>6, <2>7, <2>8, <2>9 DEF NetworkSound
    <1>7. PositionSound' /\ NothingInThePast'
        <2>1. trace' # <<>> /\ Released' = Released
            BY <1>1, <1>4 DEF TypeOK, Released
        <2>. QED  BY <1>2, <1>4, <1>5, <2>1, TakingKeepsPosition
    <1>. QED  BY <1>1, <1>2, <1>4, <1>5, <1>6, <1>7, NetworkStep

\* An observation leaves the queue for the trace.
LEMMA RecordDecisionKernel ==
    ASSUME KernelInv, NEW e \in queue.events, RecordDecision(e)
    PROVE  KernelInv'
    <1>1. StateInv' /\ TypeOK
        BY RecordDecisionStep DEF KernelInv, StateInv
    <1>2. /\ stage = "act" /\ e.phase = "Scheduling" /\ queue' = Popped(queue, e)
          /\ trace' = Append(trace, e)
          /\ UNCHANGED <<config, stage, fault, tick, release, jobs, resource, ready, messages, todo, batch>>
        BY DEF RecordDecision
    <1>3. /\ queue'.events = queue.events \ {e}
          /\ \A phase : phase # "Scheduling" => Of(queue, phase)' = Of(queue, phase)
        BY <1>1, <1>2, TakenEvent
    <1>4. NetworkSound'
        BY <1>2, <1>3, NetworkFrame DEF KernelInv
    <1>5. PositionSound' /\ NothingInThePast'
        <2>1. trace' # <<>> /\ Released' = Released
            BY <1>1, <1>2 DEF TypeOK, Released
        <2>. QED  BY <1>2, <1>3, <2>1, TakingKeepsPosition
    <1>. QED  BY <1>1, <1>2, <1>3, <1>4, <1>5, NetworkStep

\* A deadline check gives the verdict after the completions of its tick.
LEMMA CheckDeadlineKernel ==
    ASSUME KernelInv, NEW e \in queue.events, CheckDeadline(e)
    PROVE  KernelInv'
    <1>. DEFINE j == JobOf(e)
    <1>1. StateInv' /\ TypeOK /\ MembershipAgrees /\ tick \in Nat
        BY CheckDeadlineStep DEF KernelInv, StateInv, TypeOK
    <1>2. /\ stage = "settle" /\ IsDue(e) /\ e.tick = tick /\ e.phase = "DeadlineCheck"
          /\ e \in Of(queue, "DeadlineCheck")
        BY DEF CheckDeadline, Settling, IsDue, Of
    <1>3. j \in Released /\ ~ jobs[j].missed /\ jobs[j].deadline = tick /\ DeadlineMatches(e)
        BY <1>2 DEF KernelInv, DeadlinesSound, DeadlineMatches, DeadlineOf, JobOf
    <1>4. /\ queue' = Popped(queue, e)
          /\ jobs' = IF Active(j) THEN [jobs EXCEPT ![j].missed = TRUE] ELSE jobs
          /\ trace' \in {trace, Append(trace, e)}
          /\ UNCHANGED <<config, stage, fault, tick, release, resource, ready, messages, todo, batch>>
        BY <1>3 DEF CheckDeadline, DeadlineOf, JobOf
    <1>5. /\ queue'.events = queue.events \ {e}
          /\ Of(queue, "DeadlineCheck")' = Of(queue, "DeadlineCheck") \ {e}
          /\ \A phase : phase # "DeadlineCheck" => Of(queue, phase)' = Of(queue, phase)
        BY <1>1, <1>2, <1>4, TakenEvent
    <1>6. jobs[j] \in JobState
        BY <1>1, <1>3 DEF TypeOK
    <1>. HIDE DEF j
    <1>7. /\ Released' = Released
          /\ \A k \in Released : k # j => jobs'[k] = jobs[k]
          /\ jobs'[j].missed <=> Active(j)
          /\ \A k \in Released :
                 /\ jobs'[k].resource = jobs[k].resource /\ jobs'[k].priority = jobs[k].priority
                 /\ jobs'[k].release = jobs[k].release /\ jobs'[k].deadline = jobs[k].deadline
                 /\ jobs'[k].remaining = jobs[k].remaining /\ jobs'[k].finish = jobs[k].finish
                 /\ jobs'[k].lifecycle = jobs[k].lifecycle
        <2>1. CASE Active(j)
            <3>1. /\ DOMAIN jobs' = DOMAIN jobs
                  /\ \A k \in Released : k # j => jobs'[k] = jobs[k]
                  /\ jobs'[j] = [jobs[j] EXCEPT !.missed = TRUE]
                BY <1>1, <1>3, <1>4, <2>1 DEF TypeOK, Released
            <3>. QED  BY <1>6, <2>1, <3>1 DEF JobState, Released
        <2>2. CASE ~ Active(j)
            <3>1. jobs[j].missed \in BOOLEAN
                BY <1>6 DEF JobState
            <3>. QED  BY <1>3, <1>4, <2>2, <3>1 DEF Released, Active
        <2>. QED  BY <2>1, <2>2
    <1>8. PositionSound' /\ NothingInThePast' /\ KernelConsistent'
        <2>1. trace' # <<>> \/ trace' = trace
            BY <1>1, <1>4 DEF TypeOK
        <2>. QED  BY <1>2, <1>4, <1>5, <1>7, <2>1, TakingKeepsPosition
    <1>9. ReleasesSound' /\ NetworkSound'
        BY <1>2, <1>4, <1>5, <1>7, ReleasesKept, NetworkFrame DEF KernelInv
    <1>10. JobsSound'
        BY <1>4, <1>7 DEF KernelInv, JobsSound, Active
    <1>11. IntervalsExact'
        BY <1>1, <1>4, <1>7, IntervalsFrame DEF KernelInv
    <1>12. CompletionsSound'
        <2>1. \A s : Undecided(s)' => Undecided(s)
            BY <1>4 DEF Undecided
        <2>. QED  BY <1>4, <1>5, <1>7, <2>1 DEF KernelInv, CompletionsSound, CompletionOf, Idle
    <1>13. ScheduleSound'
        <2>1. \A s : ~ Decided(s)'
            BY <1>2, <1>4 DEF Decided
        <2>2. \A s \in ResourceIds : /\ \A k \in ready[s] : k \in Released
                                     /\ ~ Idle(s) => resource[s].running \in Released
            BY <1>1 DEF MembershipAgrees
        <2>. QED  BY <1>4, <1>7, <2>1, <2>2 DEF KernelInv, ScheduleSound, Idle
    <1>14. DeadlinesSound'
        <2>1. \A k \in Released : jobs[k].missed => k # j
            BY <1>3
        <2>2. \A x \in Of(queue, "ExecutionCompletion")' : x.tick > tick
            <3>1. ASSUME NEW x \in Of(queue, "ExecutionCompletion") PROVE x.tick > tick
                <4>1. x \in queue.events /\ x.phase = "ExecutionCompletion" /\ x.tick \in Nat /\ x.tick >= tick
                    BY <1>1, PendingFields DEF Of, KernelInv, NothingInThePast
                <4>2. x.tick # tick
                    BY <1>1, <1>2, <4>1, DueIsFirst, Precedences DEF KernelInv
                <4>. QED  BY <1>1, <4>1, <4>2
            <3>. QED  BY <1>5, <3>1
        <2>3. ASSUME NEW k \in Released PROVE Open(k)' \/ Judged(k)'
            <3>1. Open(k) \/ Judged(k)
                BY DEF KernelInv, DeadlinesSound
            <3>2. CASE k # j
                <4>1. Judged(k) => Judged(k)'
                    BY <1>4, <1>7, <3>2 DEF Judged, Active
                <4>2. ASSUME Open(k) PROVE Open(k)'
                    <5>1. \A x \in Of(queue, "DeadlineCheck") : JobOf(x) = k => x # e
                        BY <3>2 DEF j
                    <5>2. jobs'[k].deadline <= config'.stop =>
                              \E x \in Of(queue, "DeadlineCheck")' : JobOf(x) = k
                        BY <1>4, <1>5, <1>7, <4>2, <5>1 DEF Open
                    <5>3. ~ jobs'[k].missed /\ tick' <= jobs'[k].deadline
                          /\ (Active(k)' \/ jobs'[k].finish <= jobs'[k].deadline)
                        BY <1>4, <1>7, <3>2, <4>2 DEF Open, Active
                    <5>. QED  BY <5>2, <5>3 DEF Open
                <4>. QED  BY <3>1, <4>1, <4>2
            <3>3. CASE k = j
                <4>1. /\ jobs[k].finish \in Int /\ jobs[k].deadline \in Int
                      /\ ~ jobs[k].missed /\ jobs[k].deadline = tick
                    BY <1>3, <1>6, <3>3 DEF JobState
                <4>2. jobs[k].finish <= jobs[k].deadline \/ Active(k)
                    BY <3>1, <4>1 DEF Open, Judged
                <4>3. /\ jobs'[k].deadline = tick' /\ tick' \in Nat
                      /\ jobs'[k].deadline = jobs[k].deadline /\ jobs'[k].finish = jobs[k].finish
                      /\ Active(k)' <=> Active(k)
                    BY <1>1, <1>4, <1>7, <4>1 DEF Active
                <4>4. jobs'[k].missed <=> Active(k)
                    BY <1>7, <3>3
                <4>5. ~ Active(k) => ~ (jobs'[k].finish > jobs'[k].deadline)
                    BY <4>1, <4>2, <4>3
                <4>6. Judged(k)'
                    BY <4>3, <4>4, <4>5 DEF Judged
                <4>. QED  BY <4>6
            <3>. QED  BY <3>2, <3>3
        <2>4. ASSUME NEW x \in Of(queue, "DeadlineCheck")' PROVE JobOf(x) # j
            BY <1>2, <1>5 DEF KernelInv, DeadlinesSound, j
        <2>5. \A x \in Of(queue, "DeadlineCheck")' :
                  /\ JobOf(x) \in Released' /\ ~ jobs'[JobOf(x)].missed
                  /\ jobs'[JobOf(x)].resource = x.entities.resource
                  /\ jobs'[JobOf(x)].deadline = x.tick
            BY <1>5, <1>7, <2>4 DEF KernelInv, DeadlinesSound
        <2>6. \A x, y \in Of(queue, "DeadlineCheck")' : JobOf(x) = JobOf(y) => x = y
            BY <1>5 DEF KernelInv, DeadlinesSound
        <2>. QED  BY <1>4, <1>7, <2>2, <2>3, <2>5, <2>6 DEF DeadlinesSound
    <1>. QED  BY <1>1, <1>8, <1>9, <1>10, <1>11, <1>12, <1>13, <1>14 DEF KernelInv

\* An exception the configuration can cause leaves the runtime objects as they were.
LEMMA ThrownKernel ==
    ASSUME KernelInv, StateInv', stage' = "failed", fault' # "inconsistent",
           UNCHANGED <<config, tick, trace, jobs, resource, ready, messages>>, batch' \subseteq batch,
           \A phase : phase # "JobRelease" => Of(queue, phase)' = Of(queue, phase),
           \A x \in queue'.events : x.tick >= tick /\ x.phase \in ScheduledPhases
    PROVE  KernelInv'
    <1>1. Released' = Released
        BY DEF Released
    <1>2. PositionSound' /\ NothingInThePast' /\ KernelConsistent'
        BY <1>1 DEF KernelInv, PositionSound, NothingInThePast, KernelConsistent
    <1>3. ReleasesSound' /\ NetworkSound'
        BY ReleasesStop, NetworkFrame DEF KernelInv
    <1>4. \A r : ~ Undecided(r)' /\ ~ Decided(r)'
        BY DEF Undecided, Decided
    <1>5. JobsSound' /\ IntervalsExact' /\ CompletionsSound' /\ ScheduleSound' /\ DeadlinesSound'
        BY <1>4, RuntimeFrame
    <1>. QED  BY <1>2, <1>3, <1>5 DEF KernelInv

\* What the queue holds is in the present or the future, in a phase the kernel schedules.
LEMMA PendingSound ==
    KernelInv => \A x \in queue.events : x.tick >= tick /\ x.phase \in ScheduledPhases
    BY DEF KernelInv, NothingInThePast, PositionSound

\* The record of a published message, and its send if the horizon has one.
LEMMA MessageIsPublished ==
    ASSUME KernelInv, NEW c \in Event, c.tick = tick, NEW d \in TaskIds, NEW delay \in Int,
           ~ DelayRefused(delay), PublishTo(c, d, delay)
    PROVE  LET n == Len(messages) + 1
               m == NewMessage(c, d, delay)
           IN  /\ messages' = Append(messages, m) /\ DOMAIN messages' = DOMAIN messages \cup {n}
               /\ messages'[n] = m /\ n \notin DOMAIN messages
               /\ \A k \in DOMAIN messages : messages'[k] = messages[k]
               /\ m.source = <<c.entities.task, c.entities.job>> /\ m.publication = c.sequence
               /\ m.destination = d /\ m.publish = c.tick /\ m.lifecycle = "PendingSend"
               /\ m.send = tick + 1 /\ m.delivery = tick + 1 + delay /\ m.delivery > m.send
               /\ SendQueued(c) => m.send_event = queue.next_sequence
               /\ \E e :
                      /\ e.tick = tick + 1 /\ e.phase = "CausedAction" /\ e.type = "MessageSend"
                      /\ e.sequence = queue.next_sequence /\ e.cause = c.sequence
                      /\ e.entities.message = n
                      /\ <<e.entities.task, e.entities.job>> = <<c.entities.task, c.entities.job>>
                      /\ \/ /\ SendQueued(c)
                            /\ queue'.events = queue.events \cup {e}
                            /\ Of(queue, "CausedAction")' = Of(queue, "CausedAction") \cup {e}
                            /\ \A phase : phase # "CausedAction" => Of(queue, phase)' = Of(queue, phase)
                         \/ ~ SendQueued(c) /\ queue' = queue
    <1>. DEFINE n == Len(messages) + 1
                m == NewMessage(c, d, delay)
    <1>0. PICK e : e = ScheduledEvent(queue, SendTick(c), "CausedAction", "MessageSend",
                                      MessageEntities(c.entities.task, c.entities.job, n), c.sequence)
        OBVIOUS
    <1>1. TypeOK /\ tick \in Nat
        BY DEF KernelInv, StateInv, TypeOK
    <1>2. /\ messages' = Append(messages, m) /\ DOMAIN messages' = DOMAIN messages \cup {n}
          /\ messages'[n] = m /\ n \notin DOMAIN messages
          /\ \A k \in DOMAIN messages : messages'[k] = messages[k]
        <2>1. messages \in Seq(Message) /\ messages' = Append(messages, m)
            BY <1>1 DEF TypeOK, PublishTo
        <2>. HIDE DEF m
        <2>. QED  BY <2>1
    <1>3. /\ m.destination = d /\ m.publish = c.tick
          /\ m.source = <<c.entities.task, c.entities.job>> /\ m.publication = c.sequence
          /\ m.lifecycle = "PendingSend" /\ m.send = SendTick(c) /\ m.delivery = SendTick(c) + delay
          /\ SendQueued(c) => m.send_event = queue.next_sequence
        BY DEF NewMessage
    <1>4. SendTick(c) = tick + 1 /\ m.delivery > m.send
        <2>1. SendTick(c) = tick + 1 /\ delay > 0
            BY <1>1 DEF SendTick, SendOffset, DelayRefused
        <2>. QED  BY <1>1, <1>3, <2>1
    <1>5. /\ e.tick = SendTick(c) /\ e.phase = "CausedAction" /\ e.sequence = queue.next_sequence
          /\ e.cause = c.sequence /\ e.type = "MessageSend" /\ e.entities.message = n
          /\ <<e.entities.task, e.entities.job>> = <<c.entities.task, c.entities.job>>
        BY <1>0, EntityFields DEF ScheduledEvent
    <1>6. \/ /\ SendQueued(c)
             /\ queue'.events = queue.events \cup {e}
             /\ Of(queue, "CausedAction")' = Of(queue, "CausedAction") \cup {e}
             /\ \A phase : phase # "CausedAction" => Of(queue, phase)' = Of(queue, phase)
          \/ ~ SendQueued(c) /\ queue' = queue
        <2>1. \A phase : Of(queue, phase)' = Of(queue', phase)
            BY DEF Of
        <2>. QED  BY <1>0, <2>1, ScheduledOf DEF PublishTo
    <1>. HIDE DEF m, n
    <1>. QED  BY <1>2, <1>3, <1>4, <1>5, <1>6 DEF m, n

\* A published message is new, so its send is the only event about it.
LEMMA PublishToNetwork ==
    ASSUME KernelInv, NEW c \in Event, c.tick = tick, NEW d \in TaskIds, NEW delay \in Int,
           ~ DelayRefused(delay), PublishTo(c, d, delay)
    PROVE  /\ NetworkSound'
           /\ \A phase : phase # "CausedAction" => Of(queue, phase)' = Of(queue, phase)
           /\ \A x \in queue'.events : x \in queue.events \/ (x.tick = tick + 1 /\ x.phase = "CausedAction")
    <1>. DEFINE n == Len(messages) + 1
                m == NewMessage(c, d, delay)
    <1>2. /\ DOMAIN messages' = DOMAIN messages \cup {n}
          /\ messages'[n] = m /\ n \notin DOMAIN messages
          /\ \A k \in DOMAIN messages : messages'[k] = messages[k]
        BY MessageIsPublished
    <1>3. /\ m.source = <<c.entities.task, c.entities.job>> /\ m.publication = c.sequence
          /\ m.lifecycle = "PendingSend" /\ m.send = tick + 1 /\ m.delivery > m.send
          /\ SendQueued(c) => m.send_event = queue.next_sequence
        BY MessageIsPublished
    <1>5. PICK e :
              /\ e.tick = tick + 1 /\ e.phase = "CausedAction" /\ e.sequence = queue.next_sequence
              /\ e.cause = c.sequence /\ e.entities.message = n
              /\ <<e.entities.task, e.entities.job>> = <<c.entities.task, c.entities.job>>
              /\ \/ /\ SendQueued(c)
                    /\ queue'.events = queue.events \cup {e}
                    /\ Of(queue, "CausedAction")' = Of(queue, "CausedAction") \cup {e}
                    /\ \A phase : phase # "CausedAction" => Of(queue, phase)' = Of(queue, phase)
                 \/ queue' = queue
        BY MessageIsPublished
    <1>. HIDE DEF m, n
    <1>7. queue' = queue => \A phase : Of(queue, phase)' = Of(queue, phase)
        BY DEF Of
    <1>8. \A x \in Of(queue, "CausedAction") \cup Of(queue, "MessageDelivery") :
              x.entities.message \in DOMAIN messages /\ x.entities.message # n
        BY <1>2 DEF KernelInv, NetworkSound, SendMatches, DeliveryMatches
    <1>9. NetworkSound'
        <2>1. \A k \in DOMAIN messages' : messages'[k].delivery > messages'[k].send
            BY <1>2, <1>3 DEF KernelInv, NetworkSound
        <2>2. \A x \in Of(queue, "CausedAction") : SendMatches(x)'
            BY <1>2, <1>8 DEF KernelInv, NetworkSound, SendMatches
        <2>3. SendQueued(c) => SendMatches(e)'
            BY <1>2, <1>3, <1>5 DEF SendMatches
        <2>4. \A x \in Of(queue, "MessageDelivery") : DeliveryMatches(x)'
            BY <1>2, <1>8 DEF KernelInv, NetworkSound, DeliveryMatches
        <2>5. \A x \in Of(queue, "CausedAction")' : SendMatches(x)'
            BY <1>5, <1>7, <2>2, <2>3
        <2>6. \A x, y \in Of(queue, "CausedAction")' : x.entities.message = y.entities.message => x = y
            BY <1>5, <1>7, <1>8 DEF KernelInv, NetworkSound
        <2>7. Of(queue, "MessageDelivery")' = Of(queue, "MessageDelivery")
            BY <1>5, <1>7
        <2>. QED  BY <2>1, <2>4, <2>5, <2>6, <2>7 DEF KernelInv, NetworkSound
    <1>. QED  BY <1>5, <1>7, <1>9

\* Publishing a route concerns only the network.
LEMMA PublishRouteKernel ==
    ASSUME KernelInv, NEW d \in TaskIds, PublishRoute(d)
    PROVE  KernelInv'
    <1>. DEFINE c == trace[Len(trace)]
                delay == RouteDelay(config, c.entities.task, d)
    <1>1. StateInv' /\ TypeOK /\ PublicationNamed /\ tick \in Nat
        BY PublishRouteStep DEF KernelInv, StateInv, TypeOK
    <1>2. /\ stage = "publish" /\ d \in todo
          /\ UNCHANGED <<config, tick, trace, release, jobs, resource, ready, batch>>
        BY DEF PublishRoute, Least
    <1>3. c \in Event /\ c.tick = tick /\ d \in Destinations(config, c.entities.task)
        BY <1>1, <1>2 DEF PublicationNamed, TypeOK, KernelInv, PositionSound
    <1>4. delay \in Int
        BY <1>1, <1>3, RouteDelayType DEF TypeOK, ValidConfig
    <1>5. CASE DelayRefused(delay) \/ PublishOverflows(c, delay)
        <2>1. /\ stage' = "failed" /\ fault' \in {"zero_delay", "tick_overflow"}
              /\ UNCHANGED <<messages, queue>>
            BY <1>5 DEF PublishRoute, Throw
        <2>2. \A phase : Of(queue, phase)' = Of(queue, phase)
            BY <2>1 DEF Of
        <2>. QED  BY <1>1, <1>2, <2>1, <2>2, PendingSound, ThrownKernel
    <1>6. CASE ~ DelayRefused(delay) /\ ~ PublishOverflows(c, delay)
        <2>1. PublishTo(c, d, delay) /\ stage' \in {"settle", "publish"} /\ fault' = fault
            BY <1>6 DEF PublishRoute
        <2>2. /\ NetworkSound'
              /\ \A phase : phase # "CausedAction" => Of(queue, phase)' = Of(queue, phase)
              /\ \A x \in queue'.events : x \in queue.events \/ (x.tick = tick + 1 /\ x.phase = "CausedAction")
            <3>. HIDE DEF c, delay
            <3>. QED  BY <1>3, <1>4, <1>6, <2>1, PublishToNetwork
        <2>3. Released' = Released
            BY <1>2 DEF Released
        <2>4. PositionSound' /\ NothingInThePast' /\ KernelConsistent'
            <3>1. \A x \in queue'.events : x.tick >= tick /\ x.phase \in ScheduledPhases
                BY <1>1, <2>2, PendingSound DEF ScheduledPhases
            <3>. QED  BY <1>2, <2>1, <2>3, <3>1
                      DEF KernelInv, PositionSound, NothingInThePast, KernelConsistent
        <2>5. ReleasesSound'
            BY <1>2, <2>1, <2>2, <2>3, ReleasesKept
        <2>6. \A r : (Undecided(r)' => Undecided(r)) /\ (Decided(r)' => Decided(r))
            BY <1>2, <2>1 DEF Undecided, Decided
        <2>7. JobsSound' /\ IntervalsExact' /\ CompletionsSound' /\ ScheduleSound' /\ DeadlinesSound'
            BY <1>2, <2>2, <2>6, RuntimeFrame
        <2>. QED  BY <1>1, <2>2, <2>4, <2>5, <2>7 DEF KernelInv
    <1>. QED  BY <1>5, <1>6

\* A due send finds its message pending, and queues the delivery for the horizon.
LEMMA MessageIsSent ==
    ASSUME KernelInv, NEW e \in queue.events, SendMessage(e)
    PROVE  LET i == e.entities.message
               m == messages[i]
           IN  /\ stage = "act" /\ IsDue(e) /\ e.tick = tick /\ e.phase = "CausedAction"
               /\ e \in Of(queue, "CausedAction") /\ SendMatches(e) /\ i \in DOMAIN messages
               /\ m \in Message /\ m.lifecycle = "PendingSend" /\ m.send = tick /\ m.delivery > tick
               /\ m.send_event = e.sequence
               /\ trace' = Append(trace, e)
               /\ UNCHANGED <<config, stage, fault, tick, release, jobs, resource, ready, todo, batch>>
               /\ DOMAIN messages' = DOMAIN messages
               /\ \A k \in DOMAIN messages : k # i => messages'[k] = messages[k]
               /\ messages'[i].lifecycle = "InFlight" /\ messages'[i].delivery = m.delivery
               /\ messages'[i].send = m.send /\ messages'[i].send_event = m.send_event
               /\ messages'[i].destination = m.destination /\ messages'[i].source = m.source
               /\ messages'[i].publish = m.publish
               /\ DeliveryQueued(m) => messages'[i].delivery_event = queue.next_sequence
               /\ \E f :
                      /\ f.tick = m.delivery /\ f.phase = "MessageDelivery" /\ f.type = "MessageDelivery"
                      /\ f.sequence = queue.next_sequence /\ f.cause = e.sequence
                      /\ f.entities.task = m.destination /\ f.entities.job = Absent
                      /\ f.entities.message = i
                      /\ \/ /\ DeliveryQueued(m)
                            /\ queue'.events = (queue.events \ {e}) \cup {f}
                            /\ Of(queue, "MessageDelivery")' = Of(queue, "MessageDelivery") \cup {f}
                            /\ Of(queue, "CausedAction")' = Of(queue, "CausedAction") \ {e}
                            /\ \A phase : phase \notin {"CausedAction", "MessageDelivery"} =>
                                   Of(queue, phase)' = Of(queue, phase)
                         \/ /\ ~ DeliveryQueued(m)
                            /\ queue'.events = queue.events \ {e}
                            /\ Of(queue, "CausedAction")' = Of(queue, "CausedAction") \ {e}
                            /\ \A phase : phase # "CausedAction" => Of(queue, phase)' = Of(queue, phase)
    <1>. DEFINE i == e.entities.message
                m == messages[i]
                q == Popped(queue, e)
    <1>0. PICK f : f = ScheduledEvent(q, m.delivery, "MessageDelivery", "MessageDelivery",
                                      MessageEntities(m.destination, Absent, i), e.sequence)
        OBVIOUS
    <1>1. TypeOK /\ tick \in Nat
        BY DEF KernelInv, StateInv, TypeOK
    <1>2. stage = "act" /\ IsDue(e) /\ e.tick = tick /\ e.phase # "Scheduling"
        BY DEF SendMessage, IsDue
    <1>3. e.phase = "CausedAction" /\ e \in Of(queue, "CausedAction")
        <2>1. e.phase \in ScheduledPhases /\ PhasePrecedence(e.phase) > PhasePrecedence("JobRelease")
            BY <1>2 DEF KernelInv, PositionSound, NothingInThePast
        <2>. QED  BY <1>2, <2>1, Precedences DEF ScheduledPhases, Of
    <1>4. SendMatches(e) /\ i \in DOMAIN messages
        BY <1>3 DEF KernelInv, NetworkSound, SendMatches
    <1>5. /\ messages' = [messages EXCEPT ![i] = SentMessage(m)]
          /\ queue' = QueueAfterSend(q, e) /\ trace' = Append(trace, e)
          /\ UNCHANGED <<config, stage, fault, tick, release, jobs, resource, ready, todo, batch>>
        BY <1>3, <1>4 DEF SendMessage
    <1>6. /\ m \in Message /\ m.lifecycle = "PendingSend" /\ m.send = tick /\ m.delivery > tick
          /\ m.send_event = e.sequence /\ m.delivery # m.send
        <2>1. m \in Message
            BY <1>1, <1>4 DEF TypeOK
        <2>2. m.lifecycle = "PendingSend" /\ m.send = tick /\ m.send_event = e.sequence
            BY <1>2, <1>4 DEF SendMatches
        <2>3. m.delivery > m.send
            BY <1>4 DEF KernelInv, NetworkSound
        <2>4. m.delivery \in Nat /\ m.send \in Nat
            BY <2>1 DEF Message
        <2>. HIDE DEF m
        <2>. QED  BY <2>1, <2>2, <2>3, <2>4
    <1>7. /\ q.events = queue.events \ {e} /\ q.next_sequence = queue.next_sequence
          /\ Of(q, "CausedAction") = Of(queue, "CausedAction") \ {e}
          /\ \A phase : phase # "CausedAction" => Of(q, phase) = Of(queue, phase)
        BY <1>1, <1>3, PoppedOf DEF TypeOK
    <1>8. /\ f.tick = m.delivery /\ f.phase = "MessageDelivery" /\ f.sequence = queue.next_sequence
          /\ f.cause = e.sequence /\ f.entities.task = m.destination /\ f.entities.job = Absent
          /\ f.entities.message = i /\ f.type = "MessageDelivery"
        <2>1. f.sequence = q.next_sequence
            BY <1>0 DEF ScheduledEvent
        <2>. QED  BY <1>0, <1>7, <2>1, EntityFields DEF ScheduledEvent
    <1>9. \/ /\ DeliveryQueued(m)
             /\ queue'.events = (queue.events \ {e}) \cup {f}
             /\ Of(queue, "MessageDelivery")' = Of(queue, "MessageDelivery") \cup {f}
             /\ Of(queue, "CausedAction")' = Of(queue, "CausedAction") \ {e}
             /\ \A phase : phase \notin {"CausedAction", "MessageDelivery"} => Of(queue, phase)' = Of(queue, phase)
          \/ /\ ~ DeliveryQueued(m)
             /\ queue'.events = queue.events \ {e}
             /\ Of(queue, "CausedAction")' = Of(queue, "CausedAction") \ {e}
             /\ \A phase : phase # "CausedAction" => Of(queue, phase)' = Of(queue, phase)
        <2>1. \A phase : Of(queue, phase)' = Of(queue', phase)
            BY DEF Of
        <2>2. CASE DeliveryQueued(m)
            <3>1. queue' = Scheduled(q, m.delivery, "MessageDelivery", "MessageDelivery",
                                     MessageEntities(m.destination, Absent, i), e.sequence)
                BY <1>5, <1>6, <2>2 DEF QueueAfterSend, DeliveryPhase
            <3>. HIDE DEF q, m
            <3>2. /\ Of(queue', "MessageDelivery") = Of(q, "MessageDelivery") \cup {f}
                  /\ \A phase : phase # "MessageDelivery" => Of(queue', phase) = Of(q, phase)
                  /\ queue'.events = q.events \cup {f}
                BY <1>0, <3>1, ScheduledOf
            <3>. QED  BY <1>7, <2>1, <2>2, <3>2
        <2>3. CASE ~ DeliveryQueued(m)
            <3>1. queue' = q
                BY <1>5, <2>3 DEF QueueAfterSend
            <3>. HIDE DEF q
            <3>. QED  BY <1>7, <2>1, <2>3, <3>1
        <2>. QED  BY <2>2, <2>3
    <1>10. /\ DOMAIN messages' = DOMAIN messages
           /\ \A k \in DOMAIN messages : k # i => messages'[k] = messages[k]
           /\ messages'[i].lifecycle = "InFlight" /\ messages'[i].delivery = m.delivery
           /\ messages'[i].send = m.send /\ messages'[i].send_event = m.send_event
           /\ messages'[i].destination = m.destination /\ messages'[i].source = m.source
           /\ messages'[i].publish = m.publish
           /\ DeliveryQueued(m) => messages'[i].delivery_event = queue.next_sequence
        <2>1. messages'[i] = SentMessage(m) /\ DOMAIN messages' = DOMAIN messages
              /\ \A k \in DOMAIN messages : k # i => messages'[k] = messages[k]
            BY <1>1, <1>4, <1>5 DEF TypeOK
        <2>. HIDE DEF m
        <2>. QED  BY <1>6, <2>1 DEF SentMessage, Message
    <1>. HIDE DEF m, q
    <1>. QED  BY <1>2, <1>3, <1>4, <1>5, <1>6, <1>8, <1>9, <1>10 DEF m

\* A send finds its message pending and queues its delivery for a later tick.
LEMMA SendMessageKernel ==
    ASSUME KernelInv, NEW e \in queue.events, SendMessage(e)
    PROVE  KernelInv'
    <1>. DEFINE i == e.entities.message
                m == messages[i]
    <1>1. StateInv' /\ TypeOK /\ tick \in Nat
        BY SendMessageStep DEF KernelInv, StateInv, TypeOK
    <1>2. stage = "act" /\ e.tick = tick /\ e.phase = "CausedAction" /\ e \in Of(queue, "CausedAction")
        BY MessageIsSent
    <1>4. SendMatches(e) /\ i \in DOMAIN messages
        BY MessageIsSent
    <1>5. /\ trace' = Append(trace, e)
          /\ UNCHANGED <<config, stage, fault, tick, release, jobs, resource, ready, todo, batch>>
        BY MessageIsSent
    <1>6. /\ m \in Message /\ m.lifecycle = "PendingSend" /\ m.send = tick /\ m.delivery > tick
          /\ m.send_event = e.sequence
        BY MessageIsSent
    <1>8. PICK f :
              /\ f.tick = m.delivery /\ f.phase = "MessageDelivery" /\ f.sequence = queue.next_sequence
              /\ f.cause = e.sequence /\ f.entities.task = m.destination /\ f.entities.job = Absent
              /\ f.entities.message = i
              /\ \/ /\ DeliveryQueued(m)
                    /\ queue'.events = (queue.events \ {e}) \cup {f}
                    /\ Of(queue, "MessageDelivery")' = Of(queue, "MessageDelivery") \cup {f}
                    /\ Of(queue, "CausedAction")' = Of(queue, "CausedAction") \ {e}
                    /\ \A phase : phase \notin {"CausedAction", "MessageDelivery"} =>
                           Of(queue, phase)' = Of(queue, phase)
                 \/ /\ queue'.events = queue.events \ {e}
                    /\ Of(queue, "CausedAction")' = Of(queue, "CausedAction") \ {e}
                    /\ \A phase : phase # "CausedAction" => Of(queue, phase)' = Of(queue, phase)
        BY MessageIsSent
    <1>10. /\ DOMAIN messages' = DOMAIN messages
           /\ \A k \in DOMAIN messages : k # i => messages'[k] = messages[k]
           /\ messages'[i].lifecycle = "InFlight" /\ messages'[i].delivery = m.delivery
           /\ messages'[i].send = m.send /\ messages'[i].send_event = m.send_event
           /\ messages'[i].destination = m.destination
           /\ DeliveryQueued(m) => messages'[i].delivery_event = queue.next_sequence
        BY MessageIsSent
    <1>11. NetworkSound'
        <2>1. \A k \in DOMAIN messages' : messages'[k].delivery > messages'[k].send
            BY <1>10 DEF KernelInv, NetworkSound
        <2>2. \A x \in Of(queue, "CausedAction")' :
                  /\ x \in Of(queue, "CausedAction") /\ x.entities.message # i
                  /\ x.entities.message \in DOMAIN messages
            BY <1>2, <1>8 DEF KernelInv, NetworkSound, SendMatches
        <2>3. \A x \in Of(queue, "CausedAction")' : SendMatches(x)'
            BY <1>10, <2>2 DEF KernelInv, NetworkSound, SendMatches
        <2>4. \A x \in Of(queue, "MessageDelivery") : x.entities.message # i /\ x.entities.message \in DOMAIN messages
            BY <1>6 DEF KernelInv, NetworkSound, DeliveryMatches
        <2>5. \A x \in Of(queue, "MessageDelivery") : DeliveryMatches(x)'
            BY <1>10, <2>4 DEF KernelInv, NetworkSound, DeliveryMatches
        <2>6. DeliveryQueued(m) => DeliveryMatches(f)'
            BY <1>4, <1>6, <1>8, <1>10 DEF DeliveryMatches
        <2>7. \A x \in Of(queue, "MessageDelivery")' : DeliveryMatches(x)'
            BY <1>8, <2>5, <2>6
        <2>8. \A x, y \in Of(queue, "MessageDelivery")' : x.entities.message = y.entities.message => x = y
            BY <1>6, <1>8, <2>4 DEF KernelInv, NetworkSound
        <2>9. \A x, y \in Of(queue, "CausedAction")' : x.entities.message = y.entities.message => x = y
            BY <1>8 DEF KernelInv, NetworkSound
        <2>. QED  BY <2>1, <2>3, <2>7, <2>8, <2>9 DEF NetworkSound
    <1>12. PositionSound' /\ NothingInThePast'
        <2>1. trace' # <<>> /\ Released' = Released
            BY <1>1, <1>5 DEF TypeOK, Released
        <2>2. \A x \in queue'.events :
                  x \in queue.events \/ (x.tick > tick /\ x.phase = "MessageDelivery")
            BY <1>6, <1>8
        <2>3. \A x \in queue'.events : x.phase \in ScheduledPhases /\ x.tick >= tick
            <3>1. m.delivery \in Nat /\ f.tick >= tick
                BY <1>1, <1>6, <1>8 DEF Message
            <3>. QED  BY <1>8, <3>1, PendingSound DEF ScheduledPhases
        <2>4. \A x \in queue'.events : x.tick = tick => x \in queue.events
            <3>1. f.tick # tick
                BY <1>1, <1>6, <1>8 DEF Message
            <3>. QED  BY <1>8, <3>1
        <2>. QED  BY <1>2, <1>5, <2>1, <2>3, <2>4 DEF KernelInv, PositionSound, NothingInThePast
    <1>. QED  BY <1>1, <1>2, <1>5, <1>8, <1>11, <1>12, NetworkStep

-----------------------------------------------------------------------------
(* The releases of the tick. *)

\* When the first loops are done, nothing that precedes the releases is left in the tick.
LEMMA SettledMeansPast ==
    ASSUME KernelInv, Settled, NEW x \in queue.events, x.tick = tick
    PROVE  x.phase \in {"JobRelease", "Scheduling", "CausedAction"}
    <1>1. TypeOK /\ x.phase \in ScheduledPhases
        BY DEF KernelInv, StateInv, PositionSound
    <1>2. ASSUME PhasePrecedence(x.phase) < PhasePrecedence("JobRelease") PROVE FALSE
        <2>1. PICK e \in queue.events : IsDue(e) /\ PhasePrecedence(e.phase) <= PhasePrecedence(x.phase)
            BY <1>1, DueExists DEF KernelInv
        <2>2. PhasePrecedence(e.phase) \in Nat /\ PhasePrecedence(x.phase) \in Nat
            BY <1>1, PendingFields, PrecedenceType
        <2>. QED  BY <1>2, <2>1, <2>2, Precedences DEF Settled
    <1>. QED  BY <1>1, <1>2, Precedences DEF ScheduledPhases

\* The whole batch leaves the queue; then the tick is past the releases.
LEMMA CollectReleasesKernel ==
    ASSUME KernelInv, CollectReleases
    PROVE  KernelInv'
    <1>. DEFINE due == {e \in queue.events : e.tick = tick /\ e.phase = "JobRelease"}
    <1>1. StateInv' /\ TypeOK
        BY CollectReleasesStep DEF KernelInv, StateInv
    <1>2. /\ stage = "settle" /\ Settled /\ batch' = due /\ queue' = [queue EXCEPT !.events = queue.events \ due]
          /\ \/ stage' = "release" /\ due # {}
             \/ stage' = "schedule" /\ due = {} /\ todo' = ResourceIds
          /\ UNCHANGED <<config, fault, tick, trace, release, jobs, resource, ready, messages>>
        BY DEF CollectReleases
    <1>3. queue'.events = queue.events \ due
        BY <1>1, <1>2 DEF TypeOK, EventQueueState
    <1>4. \A phase : phase # "JobRelease" => Of(queue, phase)' = Of(queue, phase)
        BY <1>3 DEF Of
    <1>5. Released' = Released /\ batch = {}
        BY <1>2 DEF Released, KernelInv, PositionSound
    <1>6. HeldReleases' = HeldReleases
        BY <1>2, <1>3, <1>5 DEF HeldReleases, Of
    <1>7. PositionSound'
        BY <1>2, <1>3, <1>5 DEF KernelInv, PositionSound
    <1>8. NothingInThePast' /\ KernelConsistent'
        <2>1. \A x \in queue'.events : x.tick = tick => x.phase \in {"Scheduling", "CausedAction"}
            BY <1>2, <1>3, SettledMeansPast
        <2>2. \A x \in queue'.events : x.tick = tick => PhasePrecedence(x.phase) > PhasePrecedence("JobRelease")
            BY <2>1, Precedences
        <2>3. \A x \in queue'.events : x.tick >= tick
            BY <1>3 DEF KernelInv, NothingInThePast
        <2>4. KernelConsistent'
            BY <1>2 DEF KernelInv, KernelConsistent
        <2>. QED  BY <1>2, <2>2, <2>3, <2>4 DEF NothingInThePast
    <1>9. ReleasesSound'
        BY <1>2, <1>5, <1>6, ReleasesFrame DEF KernelInv
    <1>10. JobsSound' /\ IntervalsExact' /\ CompletionsSound' /\ ScheduleSound' /\ DeadlinesSound'
        <2>1. \A r : Undecided(r)' => Undecided(r)
            BY <1>2 DEF Undecided
        <2>2. \A r \in ResourceIds : Decided(r)' => Decided(r)
            BY <1>2 DEF Decided
        <2>. QED  BY <1>2, <1>4, <2>1, <2>2, RuntimeFrame
    <1>11. NetworkSound'
        BY <1>2, <1>4, NetworkFrame DEF KernelInv
    <1>. QED  BY <1>1, <1>7, <1>8, <1>9, <1>10, <1>11 DEF KernelInv

\* What the release being processed says of its task: it is in time and of a new job.
LEMMA BatchRelease ==
    ASSUME KernelInv, stage = "release", NEW e \in batch
    PROVE  LET t == e.entities.task
           IN  /\ t \in TaskIds /\ e \in Event /\ e.phase = "JobRelease" /\ e.tick = tick
               /\ ReleaseMatches(e) /\ release[t] \in ReleaseState
               /\ release[t].tick = tick /\ release[t].job = e.entities.job
               /\ release[t].pending = config.assignment[t]
               /\ e.entities.resource = config.assignment[t]
               /\ config.task[t].period > 0 /\ config.task[t].deadline > 0
               /\ config.demand[t, e.entities.resource] > 0
               /\ config.demand[t, e.entities.resource] <= config.task[t].deadline
               /\ \A j \in Released : j[1] = t => j[2] < e.entities.job
               /\ \A f \in HeldReleases : f # e => f.entities.task # t
    <1>. DEFINE t == e.entities.task
    <1>1. TypeOK /\ e \in HeldReleases /\ e \in Event
        BY DEF KernelInv, StateInv, TypeOK, HeldReleases
    <1>2. ReleaseMatches(e) /\ e.phase = "JobRelease" /\ e.tick = tick
        BY <1>1 DEF KernelInv, PositionSound, ReleasesSound
    <1>3. /\ t \in TaskIds /\ release[t].pending # Absent /\ release[t].tick = tick
          /\ release[t].job = e.entities.job /\ e.entities.resource = release[t].pending
        BY <1>2 DEF ReleaseMatches
    <1>4. /\ release[t].pending = config.assignment[t]
          /\ \A j \in Released : j[1] = t => j[2] < e.entities.job
          /\ \A f \in HeldReleases : f # e => f.entities.task # t
        BY <1>1, <1>3 DEF KernelInv, ReleasesSound
    <1>5. /\ config.task[t].period > 0 /\ config.task[t].deadline > 0
          /\ config.demand[t, config.assignment[t]] > 0
          /\ config.assignment[t] \in ResourceIds
          /\ config.demand[t, config.assignment[t]] <= config.task[t].deadline
        <2>1. config.assignment[t] \in ResourceIds
            BY <1>1, <1>3, ConfigType
        <2>2. ValidTaskSpec(config.task[t])
            BY <1>1, <1>3 DEF TypeOK, ValidConfig
        <2>3. ValidProfiles(config) /\ ValidAssignment(config)
            BY <1>1 DEF TypeOK, ValidConfig
        <2>4. config.demand[t, config.assignment[t]] > 0
            BY <1>3, <2>3 DEF ValidAssignment
        <2>5. config.demand[t, config.assignment[t]] <= config.task[t].deadline
            BY <1>3, <2>1, <2>3 DEF ValidProfiles
        <2>. QED  BY <2>1, <2>2, <2>4, <2>5 DEF ValidTaskSpec
    <1>6. release[t] \in ReleaseState
        BY <1>1, <1>3 DEF TypeOK
    <1>. QED  BY <1>1, <1>2, <1>3, <1>4, <1>5, <1>6

\* A refused release is refused for its deadline, never for the state of its task.
LEMMA ReleaseRefusedKernel ==
    ASSUME KernelInv, NEW e \in batch, ReleaseRefused(e)
    PROVE  KernelInv'
    <1>1. StateInv' /\ stage = "release"
        BY ReleaseRefusedStep DEF KernelInv, ReleaseRefused
    <1>2. ReleaseMatches(e)
        BY <1>1, BatchRelease
    <1>3. /\ stage' = "failed" /\ fault' = "tick_overflow" /\ batch' \subseteq batch
          /\ UNCHANGED <<config, tick, queue, trace, release, jobs, resource, ready, messages, todo>>
        BY <1>2 DEF ReleaseRefused, Throw
    <1>4. \A phase : Of(queue, phase)' = Of(queue, phase)
        BY <1>3 DEF Of
    <1>. QED  BY <1>1, <1>3, <1>4, PendingSound, ThrownKernel

\* The successor release lies in the future, and is the one its task then waits for.
LEMMA SuccessorQueued ==
    ASSUME KernelInv, stage = "release", NEW e \in batch, NEW t, t = e.entities.task
    PROVE  LET q == QueueAfterRelease(t)
               after == ReleaseAfter(t)
           IN  /\ q \in EventQueueState /\ after \in ReleaseState
               /\ \A phase : phase # "JobRelease" => Of(q, phase) = Of(queue, phase)
               /\ \/ /\ after.pending = Absent /\ q = queue
                  \/ /\ after.pending = config.assignment[t]
                     /\ after.job = e.entities.job + 1 /\ after.tick > tick
                     /\ \E f : /\ q.events = queue.events \cup {f}
                               /\ Of(q, "JobRelease") = Of(queue, "JobRelease") \cup {f}
                               /\ f.phase = "JobRelease" /\ f.tick = after.tick
                               /\ f.entities.task = t /\ f.entities.job = after.job
                               /\ f.entities.resource = after.pending
    <1>1. TypeOK /\ CandidatesNamed /\ tick \in Nat
        BY DEF KernelInv, StateInv, TypeOK
    <1>2. /\ t \in TaskIds /\ release[t] \in ReleaseState /\ release[t].tick = tick
          /\ release[t].job = e.entities.job /\ release[t].pending = config.assignment[t]
          /\ config.task[t].period > 0 /\ ReleaseMatches(e)
        BY BatchRelease
    <1>3. QueueAfterRelease(t) \in EventQueueState /\ ReleaseAfter(t) \in ReleaseState
        BY <1>1, <1>2, ReleaseAfterType DEF ReleaseMatches
    <1>4. CASE ~ HasSuccessor(t)
        <2>1. QueueAfterRelease(t) = queue /\ ReleaseAfter(t) = [release[t] EXCEPT !.pending = Absent]
            BY <1>4 DEF QueueAfterRelease, ReleaseAfter
        <2>2. ReleaseAfter(t).pending = Absent
            BY <1>2, <2>1 DEF ReleaseState
        <2>. QED  BY <1>3, <2>1, <2>2
    <1>5. CASE HasSuccessor(t)
        <2>. DEFINE entities == JobEntities(t, release[t].job + 1, config.assignment[t])
        <2>1. PICK f : f = ScheduledEvent(queue, SuccessorTick(t), "JobRelease", "JobRelease", entities, Absent)
            OBVIOUS
        <2>2. /\ QueueAfterRelease(t) = Scheduled(queue, SuccessorTick(t), "JobRelease", "JobRelease", entities, Absent)
              /\ ReleaseAfter(t).tick = SuccessorTick(t) /\ ReleaseAfter(t).job = release[t].job + 1
              /\ ReleaseAfter(t).pending = config.assignment[t]
            BY <1>5 DEF QueueAfterRelease, ReleaseAfter
        <2>3. SuccessorTick(t) > tick
            <3>1. config.task[t].period \in Nat
                BY <1>1, <1>2, ConfigType
            <3>. QED  BY <1>1, <1>2, <3>1 DEF SuccessorTick
        <2>4. /\ entities.task = t /\ entities.job = release[t].job + 1
              /\ entities.resource = config.assignment[t]
            BY EntityFields
        <2>. HIDE DEF entities
        <2>5. /\ QueueAfterRelease(t).events = queue.events \cup {f}
              /\ Of(QueueAfterRelease(t), "JobRelease") = Of(queue, "JobRelease") \cup {f}
              /\ \A phase : phase # "JobRelease" => Of(QueueAfterRelease(t), phase) = Of(queue, phase)
              /\ f.phase = "JobRelease" /\ f.tick = SuccessorTick(t) /\ f.entities = entities
            BY <2>1, <2>2, ScheduledOf
        <2>. QED  BY <1>2, <1>3, <2>2, <2>3, <2>4, <2>5
    <1>. QED  BY <1>4, <1>5

\* The job a release creates: it needs work, not more than its deadline leaves, and waits.
LEMMA NewJobFields ==
    ASSUME KernelInv, stage = "release", NEW e \in batch, ~ DeadlineOverflows(e.entities.task)
    PROVE  LET job == NewJob(e.entities.task, e)
           IN  /\ job.resource = e.entities.resource /\ job.release = tick /\ job.lifecycle = "Ready"
               /\ job.deadline \in Nat /\ job.deadline > tick /\ job.deadline <= MaxTick
               /\ job.remaining \in Nat /\ job.remaining > 0 /\ job.remaining <= job.deadline - tick
               /\ job.missed = FALSE
    <1>. DEFINE t == e.entities.task
                d == config.task[t].deadline
                w == config.demand[t, e.entities.resource]
    <1>1. TypeOK /\ tick \in Nat /\ MaxTick \in Nat
        BY ConfigAssumption DEF KernelInv, StateInv, TypeOK
    <1>2. /\ t \in TaskIds /\ e.tick = tick /\ release[t].tick = tick /\ d > 0 /\ w > 0 /\ w <= d
          /\ e.entities.resource = config.assignment[t]
        BY BatchRelease
    <1>3. d \in Nat /\ w \in Nat
        <2>1. config.assignment[t] \in ResourceIds
            BY <1>1, <1>2, ConfigType
        <2>. QED  BY <1>1, <1>2, <2>1, ConfigType, DemandType
    <1>4. ~ (d > MaxTick - tick)
        BY <1>2 DEF DeadlineOverflows
    <1>5. NewJob(t, e) = [resource |-> e.entities.resource, priority |-> config.task[t].priority,
                          release |-> tick, deadline |-> tick + d, remaining |-> w,
                          lifecycle |-> "Ready", first_start |-> Absent, finish |-> Absent,
                          preemptions |-> 0, missed |-> FALSE]
        BY <1>2 DEF NewJob
    <1>. HIDE DEF t, d, w
    <1>6. tick + d \in Nat /\ tick + d > tick /\ tick + d <= MaxTick /\ w <= (tick + d) - tick
        BY <1>1, <1>2, <1>3, <1>4
    <1>. QED  BY <1>2, <1>3, <1>5, <1>6 DEF t

\* A release that finds an incomplete job stops the run, and for no other reason.
LEMMA SelfOverlapKernel ==
    ASSUME KernelInv, NEW e \in batch, ReleaseJob(e),
           LET j == JobOf(e) IN HasActiveJob(e.entities.task) \/ j \in Released
    PROVE  KernelInv'
    <1>. DEFINE t == e.entities.task
                j == JobOf(e)
    <1>1. StateInv' /\ stage = "release" /\ tick \in Nat /\ TypeOK
        BY ReleaseJobStep DEF KernelInv, ReleaseJob, StateInv, TypeOK
    <1>2. j \notin Released
        <2>1. \A k \in Released : k[1] = t => k[2] < e.entities.job
            BY <1>1, BatchRelease
        <2>2. e.entities.job \in Nat
            BY <1>1, BatchRelease DEF ReleaseState
        <2>. QED  BY <2>1, <2>2 DEF JobOf
    <1>3. HasActiveJob(t)
        BY <1>2
    <1>4. /\ stage' = "failed" /\ fault' = "self_overlap" /\ queue' = QueueAfterRelease(t)
          /\ batch' \subseteq batch
          /\ UNCHANGED <<config, tick, trace, jobs, resource, ready, messages>>
        BY <1>3 DEF ReleaseJob, Throw
    <1>5. /\ \A phase : phase # "JobRelease" => Of(queue, phase)' = Of(queue, phase)
          /\ \A x \in queue'.events : x \in queue.events \/ (x.tick > tick /\ x.phase = "JobRelease")
        <2>1. \A phase : Of(queue, phase)' = Of(queue', phase)
            BY DEF Of
        <2>. QED  BY <1>1, <1>4, <2>1, SuccessorQueued
    <1>6. \A x \in queue'.events : x.tick >= tick /\ x.phase \in ScheduledPhases
        <2>1. \A x \in queue'.events : x.tick \in Nat
            BY <1>1 DEF StateInv, TypeOK, EventQueueState, Event
        <2>. QED  BY <1>1, <1>5, <2>1, PendingSound DEF ScheduledPhases
    <1>. QED  BY <1>1, <1>4, <1>5, <1>6, ThrownKernel

\* The queue after an accepted release: the successor and the deadline check are new, the
\* rest is as before.
LEMMA QueueAfterJobRelease ==
    ASSUME KernelInv, stage = "release", NEW e \in batch, ~ DeadlineOverflows(e.entities.task),
           LET t == e.entities.task
               job == NewJob(t, e)
               queued == QueueAfterRelease(t)
           IN  queue' = IF job.deadline <= config.stop
                        THEN Scheduled(queued, job.deadline, "DeadlineCheck", "DeadlineMiss",
                                       JobEntities(t, e.entities.job, e.entities.resource), Absent)
                        ELSE queued
    PROVE  LET t == e.entities.task
               deadline == NewJob(t, e).deadline
               after == ReleaseAfter(t)
           IN  /\ \A phase : phase \notin {"JobRelease", "DeadlineCheck"} => Of(queue, phase)' = Of(queue, phase)
               /\ \A x \in queue'.events :
                      \/ x \in queue.events
                      \/ x.tick > tick /\ x.phase \in {"JobRelease", "DeadlineCheck"}
               /\ \/ after.pending = Absent /\ Of(queue, "JobRelease")' = Of(queue, "JobRelease")
                  \/ /\ after.pending = config.assignment[t] /\ after.job = e.entities.job + 1
                     /\ \E f : /\ Of(queue, "JobRelease")' = Of(queue, "JobRelease") \cup {f}
                               /\ f.tick = after.tick /\ f.entities.task = t
                               /\ f.entities.job = after.job /\ f.entities.resource = after.pending
               /\ \/ deadline > config.stop /\ Of(queue, "DeadlineCheck")' = Of(queue, "DeadlineCheck")
                  \/ \E g : /\ Of(queue, "DeadlineCheck")' = Of(queue, "DeadlineCheck") \cup {g}
                            /\ g.tick = deadline /\ JobOf(g) = JobOf(e)
                            /\ g.entities.resource = e.entities.resource
    <1>. DEFINE t == e.entities.task
                deadline == NewJob(t, e).deadline
                q == QueueAfterRelease(t)
                after == ReleaseAfter(t)
    <1>1. \A phase : Of(queue, phase)' = Of(queue', phase)
        BY DEF Of
    <1>2. TypeOK /\ config.stop \in Nat /\ deadline \in Nat /\ deadline > tick
        BY ConfigType, NewJobFields DEF KernelInv, StateInv
    <1>3. /\ \A phase : phase # "JobRelease" => Of(q, phase) = Of(queue, phase)
          /\ \/ after.pending = Absent /\ q = queue
             \/ /\ after.pending = config.assignment[t]
                /\ after.job = e.entities.job + 1 /\ after.tick > tick
                /\ \E f : /\ q.events = queue.events \cup {f}
                          /\ Of(q, "JobRelease") = Of(queue, "JobRelease") \cup {f}
                          /\ f.phase = "JobRelease" /\ f.tick = after.tick
                          /\ f.entities.task = t /\ f.entities.job = after.job
                          /\ f.entities.resource = after.pending
        BY SuccessorQueued
    <1>4. CASE ~ (deadline <= config.stop)
        <2>1. queue' = q /\ deadline > config.stop
            BY <1>2, <1>4
        <2>. HIDE DEF q, after, deadline
        <2>. QED  BY <1>1, <1>3, <2>1 DEF q, after, deadline
    <1>5. CASE deadline <= config.stop
        <2>. DEFINE entities == JobEntities(t, e.entities.job, e.entities.resource)
        <2>1. queue' = Scheduled(q, deadline, "DeadlineCheck", "DeadlineMiss", entities, Absent)
            BY <1>5
        <2>2. PICK g : g = ScheduledEvent(q, deadline, "DeadlineCheck", "DeadlineMiss", entities, Absent)
            OBVIOUS
        <2>3. <<entities.task, entities.job>> = JobOf(e) /\ entities.resource = e.entities.resource
            BY EntityFields DEF JobOf
        <2>. HIDE DEF entities, q, deadline, after
        <2>4. /\ queue'.events = q.events \cup {g}
              /\ Of(queue', "DeadlineCheck") = Of(q, "DeadlineCheck") \cup {g}
              /\ \A phase : phase # "DeadlineCheck" => Of(queue', phase) = Of(q, phase)
              /\ g.tick = deadline /\ g.phase = "DeadlineCheck" /\ g.entities = entities
            BY <2>1, <2>2, ScheduledOf
        <2>5. JobOf(g) = JobOf(e) /\ g.entities.resource = e.entities.resource
            BY <2>3, <2>4 DEF JobOf
        <2>6. \A x \in queue'.events :
                      \/ x \in queue.events
                      \/ x.tick > tick /\ x.phase \in {"JobRelease", "DeadlineCheck"}
            BY <1>2, <1>3, <2>4
        <2>7. \/ after.pending = Absent /\ Of(queue, "JobRelease")' = Of(queue, "JobRelease")
              \/ /\ after.pending = config.assignment[t] /\ after.job = e.entities.job + 1
                 /\ \E f : /\ Of(queue, "JobRelease")' = Of(queue, "JobRelease") \cup {f}
                           /\ f.tick = after.tick /\ f.entities.task = t
                           /\ f.entities.job = after.job /\ f.entities.resource = after.pending
            BY <1>1, <1>3, <2>4
        <2>8. \A phase : phase \notin {"JobRelease", "DeadlineCheck"} => Of(queue, phase)' = Of(queue, phase)
            BY <1>1, <1>3, <2>4
        <2>9. Of(queue, "DeadlineCheck")' = Of(queue, "DeadlineCheck") \cup {g}
            BY <1>1, <1>3, <2>4
        <2>. QED  BY <2>4, <2>5, <2>6, <2>7, <2>8, <2>9 DEF deadline, after
    <1>. QED  BY <1>4, <1>5

\* A release is the last of its number, and its successor the next its task waits for.
LEMMA ReleaseHandOver ==
    ASSUME KernelInv, stage = "release", stage' # "initialize", NEW e \in batch, batch' = batch \ {e},
           UNCHANGED config, Released' = Released \cup {JobOf(e)},
           release' = [release EXCEPT ![e.entities.task] = ReleaseAfter(e.entities.task)],
           LET t == e.entities.task
               after == ReleaseAfter(t)
           IN  \/ after.pending = Absent /\ Of(queue, "JobRelease")' = Of(queue, "JobRelease")
               \/ /\ after.pending = config.assignment[t] /\ after.job = e.entities.job + 1
                  /\ \E f : /\ Of(queue, "JobRelease")' = Of(queue, "JobRelease") \cup {f}
                            /\ f.tick = after.tick /\ f.entities.task = t
                            /\ f.entities.job = after.job /\ f.entities.resource = after.pending
    PROVE  ReleasesSound'
    <1>. DEFINE t == e.entities.task
                after == ReleaseAfter(t)
    <1>1. /\ t \in TaskIds /\ e.tick = tick /\ e.phase = "JobRelease" /\ e.entities.job \in Nat
          /\ \A j \in Released : j[1] = t => j[2] < e.entities.job
          /\ \A f \in HeldReleases : f # e => f.entities.task # t
        BY BatchRelease DEF ReleaseState
    <1>2. release \in [TaskIds -> ReleaseState] /\ Released \subseteq JobIdentity
        BY DEF KernelInv, StateInv, TypeOK
    <1>3. /\ release'[t] = after /\ \A s \in TaskIds : s # t => release'[s] = release[s]
        BY <1>1, <1>2
    <1>4. e \notin Of(queue, "JobRelease")
        BY <1>1, Precedences DEF Of, KernelInv, NothingInThePast
    <1>5. \A f \in HeldReleases : f # e => ReleaseMatches(f) /\ f.entities.task \in TaskIds
        BY DEF KernelInv, ReleasesSound, ReleaseMatches
    <1>. HIDE DEF after
    <1>6. \A f \in HeldReleases : f # e => ReleaseMatches(f)'
        BY <1>1, <1>3, <1>5 DEF ReleaseMatches
    <1>7. \A s \in TaskIds : s # t /\ (\E f \in HeldReleases : f.entities.task = s) =>
              \E f \in HeldReleases \ {e} : f.entities.task = s
        OBVIOUS
    <1>8. \A s \in TaskIds : s # t /\ release'[s].pending # Absent =>
              /\ \E f \in HeldReleases \ {e} : f.entities.task = s
              /\ release'[s].pending = config'.assignment[s]
              /\ \A j \in Released' : j[1] = s => j[2] < release'[s].job
        BY <1>3, <1>7 DEF KernelInv, ReleasesSound, JobOf
    <1>9. CASE after.pending = Absent /\ Of(queue, "JobRelease")' = Of(queue, "JobRelease")
        <2>1. HeldReleases' = HeldReleases \ {e}
            BY <1>4, <1>9 DEF HeldReleases
        <2>. QED  BY <1>1, <1>3, <1>6, <1>8, <1>9, <2>1 DEF KernelInv, ReleasesSound
    <1>10. CASE /\ after.pending = config.assignment[t] /\ after.job = e.entities.job + 1
                /\ \E f : /\ Of(queue, "JobRelease")' = Of(queue, "JobRelease") \cup {f}
                          /\ f.tick = after.tick /\ f.entities.task = t
                          /\ f.entities.job = after.job /\ f.entities.resource = after.pending
        <2>1. PICK f : /\ Of(queue, "JobRelease")' = Of(queue, "JobRelease") \cup {f}
                       /\ f.tick = after.tick /\ f.entities.task = t
                       /\ f.entities.job = after.job /\ f.entities.resource = after.pending
            BY <1>10
        <2>2. HeldReleases' = (HeldReleases \ {e}) \cup {f}
            BY <1>4, <2>1 DEF HeldReleases
        <2>3. after.pending # Absent
            <3>1. config.assignment[t] \in ResourceIds /\ ResourceIds \subseteq Nat
                BY <1>1, ConfigType DEF KernelInv, StateInv
            <3>. QED  BY <1>10, <3>1 DEF Absent
        <2>4. ReleaseMatches(f)'
            BY <1>1, <1>3, <2>1, <2>3 DEF ReleaseMatches
        <2>5. \A x \in HeldReleases' : ReleaseMatches(x)'
            BY <1>6, <2>2, <2>4
        <2>6. \A x, y \in HeldReleases' : x.entities.task = y.entities.task => x = y
            BY <1>1, <2>1, <2>2 DEF KernelInv, ReleasesSound
        <2>7. \A j \in Released' : j[1] = t => j[2] < after.job
            <3>1. \A j \in Released : j[1] = t => j[2] < e.entities.job + 1
                BY <1>1, <1>2 DEF JobIdentity
            <3>. QED  BY <1>1, <1>10, <3>1 DEF JobOf
        <2>8. \A s \in TaskIds : release'[s].pending # Absent =>
                  /\ \E x \in HeldReleases' : x.entities.task = s
                  /\ release'[s].pending = config'.assignment[s]
                  /\ \A j \in Released' : j[1] = s => j[2] < release'[s].job
            BY <1>3, <1>8, <1>10, <2>1, <2>2, <2>7
        <2>. QED  BY <2>5, <2>6, <2>8 DEF ReleasesSound
    <1>. QED  BY <1>9, <1>10 DEF after

\* A release creates the job its task waited for, Ready where the task is placed, with the
\* check of its deadline.
LEMMA ReleaseJobKernel ==
    ASSUME KernelInv, NEW e \in batch, ReleaseJob(e)
    PROVE  KernelInv'
    <1>. DEFINE t == e.entities.task
                j == JobOf(e)
                r == e.entities.resource
                job == NewJob(t, e)
    <1>1. StateInv' /\ TypeOK /\ MembershipAgrees /\ stage = "release" /\ tick \in Nat /\ ~ DeadlineOverflows(t)
        BY ReleaseJobStep DEF KernelInv, StateInv, ReleaseJob, TypeOK
    <1>2. CASE HasActiveJob(t) \/ j \in Released
        BY <1>2, SelfOverlapKernel
    <1>3. CASE ~ (HasActiveJob(t) \/ j \in Released)
        <2>1. /\ jobs' = [k \in Released \cup {j} |-> IF k = j THEN job ELSE jobs[k]]
              /\ ready' = [ready EXCEPT ![r] = ready[r] \cup {j}]
              /\ queue' = IF job.deadline <= config.stop
                          THEN Scheduled(QueueAfterRelease(t), job.deadline, "DeadlineCheck", "DeadlineMiss",
                                         JobEntities(t, e.entities.job, r), Absent)
                          ELSE QueueAfterRelease(t)
              /\ release' = [release EXCEPT ![t] = ReleaseAfter(t)]
              /\ trace' = Append(trace, e) /\ batch' = batch \ {e} /\ fault' = fault
              /\ stage' = IF batch = {e} THEN "settle" ELSE "release"
              /\ UNCHANGED <<config, tick, resource, messages, todo>>
            BY <1>3 DEF ReleaseJob, JobOf
        <2>2. /\ job.resource = r /\ job.release = tick /\ job.lifecycle = "Ready"
              /\ job.deadline \in Nat /\ job.deadline > tick /\ job.deadline <= MaxTick
              /\ job.remaining \in Nat /\ job.remaining > 0 /\ job.remaining <= job.deadline - tick
              /\ job.missed = FALSE
            BY <1>1, NewJobFields
        <2>3. /\ \A phase : phase \notin {"JobRelease", "DeadlineCheck"} => Of(queue, phase)' = Of(queue, phase)
              /\ \A x \in queue'.events :
                     \/ x \in queue.events
                     \/ x.tick > tick /\ x.phase \in {"JobRelease", "DeadlineCheck"}
              /\ \/ ReleaseAfter(t).pending = Absent /\ Of(queue, "JobRelease")' = Of(queue, "JobRelease")
                 \/ /\ ReleaseAfter(t).pending = config.assignment[t]
                    /\ ReleaseAfter(t).job = e.entities.job + 1
                    /\ \E f : /\ Of(queue, "JobRelease")' = Of(queue, "JobRelease") \cup {f}
                              /\ f.tick = ReleaseAfter(t).tick /\ f.entities.task = t
                              /\ f.entities.job = ReleaseAfter(t).job
                              /\ f.entities.resource = ReleaseAfter(t).pending
              /\ \/ job.deadline > config.stop /\ Of(queue, "DeadlineCheck")' = Of(queue, "DeadlineCheck")
                 \/ \E g : /\ Of(queue, "DeadlineCheck")' = Of(queue, "DeadlineCheck") \cup {g}
                           /\ g.tick = job.deadline /\ JobOf(g) = j /\ g.entities.resource = r
            BY <1>1, <2>1, QueueAfterJobRelease
        <2>. HIDE DEF job
        <2>4. /\ Released' = Released \cup {j} /\ jobs'[j] = job /\ j \notin Released
              /\ \A k \in Released : jobs'[k] = jobs[k]
            BY <1>3, <2>1 DEF Released
        <2>5. PositionSound'
            <3>1. trace' # <<>>
                BY <2>1, <1>1 DEF StateInv, TypeOK
            <3>2. stage' # "release" => batch' = {}
                BY <2>1
            <3>3. \A x \in queue'.events : x.phase \in ScheduledPhases
                BY <2>3, PendingSound DEF ScheduledPhases
            <3>. QED  BY <1>1, <2>1, <3>1, <3>2, <3>3 DEF KernelInv, PositionSound
        <2>6. NothingInThePast' /\ KernelConsistent'
            <3>1. \A x \in queue'.events : x.tick \in Nat
                BY <1>1 DEF StateInv, TypeOK, EventQueueState, Event
            <3>2. \A x \in queue'.events : x.tick >= tick /\ (x.tick = tick => x \in queue.events)
                BY <1>1, <2>3, <3>1, PendingSound
            <3>. QED  BY <1>1, <2>1, <3>2 DEF KernelInv, NothingInThePast, KernelConsistent
        <2>7. ReleasesSound'
            BY <1>1, <2>1, <2>3, <2>4, ReleaseHandOver
        <2>8. JobsSound'
            <3>1. /\ job.release <= tick' /\ job.release < job.deadline /\ job.deadline <= MaxTick
                  /\ job.remaining <= job.deadline - job.release /\ job.remaining > 0
                BY <1>1, <2>1, <2>2
            <3>2. \A k \in Released :
                      /\ jobs[k].release <= tick' /\ jobs[k].release < jobs[k].deadline
                      /\ jobs[k].deadline <= MaxTick
                      /\ jobs[k].remaining <= jobs[k].deadline - jobs[k].release
                      /\ jobs[k].lifecycle # "Completed" => jobs[k].remaining > 0
                BY <2>1 DEF KernelInv, JobsSound, Active
            <3>. HIDE DEF j
            <3>. QED  BY <2>4, <3>1, <3>2 DEF JobsSound, Active
        <2>9. \A s \in ResourceIds : ~ Idle(s) => resource[s].running \in Released
            BY <1>1 DEF MembershipAgrees
        <2>10. IntervalsExact'
            BY <2>1, <2>4, <2>9 DEF KernelInv, IntervalsExact, Idle
        <2>11. CompletionsSound'
            <3>1. \A s : Undecided(s)
                BY <1>1 DEF Undecided
            <3>2. Of(queue, "ExecutionCompletion")' = Of(queue, "ExecutionCompletion")
                BY <2>3
            <3>. QED  BY <2>1, <2>4, <3>1, <3>2 DEF KernelInv, CompletionsSound, CompletionOf, Idle
        <2>12. ScheduleSound'
            <3>1. \A s : ~ Decided(s)'
                BY <2>1 DEF Decided
            <3>2. \A s \in ResourceIds : \A k \in ready[s] : k \in Released
                BY <1>1 DEF MembershipAgrees
            <3>3. \A s \in ResourceIds : \A k \in ready'[s] : k \in ready[s] \/ k = j
                BY <1>1, <2>1 DEF TypeOK
            <3>. QED  BY <2>1, <2>2, <2>4, <2>9, <3>1, <3>2, <3>3 DEF KernelInv, ScheduleSound, Idle
        <2>13. DeadlinesSound'
            <3>1. /\ Of(queue, "ExecutionCompletion")' = Of(queue, "ExecutionCompletion")
                  /\ Of(queue, "DeadlineCheck") \subseteq Of(queue, "DeadlineCheck")'
                BY <2>3
            <3>2. ASSUME NEW k \in Released PROVE Open(k)' \/ Judged(k)'
                <4>1. Open(k) \/ Judged(k)
                    BY DEF KernelInv, DeadlinesSound
                <4>2. (Open(k) => Open(k)') /\ (Judged(k) => Judged(k)')
                    BY <2>1, <2>4, <3>1 DEF Open, Judged, Active
                <4>. QED  BY <4>1, <4>2
            <3>3. \A k : k = j => Open(k)'
                <4>. HIDE DEF j
                <4>1. job.deadline <= config.stop => \E x \in Of(queue, "DeadlineCheck")' : JobOf(x) = j
                    <5>1. config.stop \in Nat
                        BY <1>1, ConfigType
                    <5>. QED  BY <2>2, <2>3, <5>1
                <4>2. ~ job.missed /\ tick' <= job.deadline /\ job.lifecycle # "Completed"
                    BY <1>1, <2>1, <2>2
                <4>3. jobs'[j] = job /\ config' = config
                    BY <2>1, <2>4
                <4>. QED  BY <4>1, <4>2, <4>3 DEF Open, Active
            <3>4. \A k \in Released' : Open(k)' \/ Judged(k)'
                BY <2>4, <3>2, <3>3
            <3>5. \A x \in Of(queue, "DeadlineCheck") : JobOf(x) \in Released
                BY DEF KernelInv, DeadlinesSound
            <3>6. \A x \in Of(queue, "DeadlineCheck")' :
                      \/ x \in Of(queue, "DeadlineCheck")
                      \/ x.tick = job.deadline /\ JobOf(x) = j /\ x.entities.resource = r
                BY <2>3
            <3>7. \A x \in Of(queue, "DeadlineCheck")' :
                      /\ JobOf(x) \in Released' /\ ~ jobs'[JobOf(x)].missed
                      /\ jobs'[JobOf(x)].resource = x.entities.resource
                      /\ jobs'[JobOf(x)].deadline = x.tick
                BY <2>2, <2>4, <3>5, <3>6 DEF KernelInv, DeadlinesSound
            <3>8. \A x, y \in Of(queue, "DeadlineCheck")' : JobOf(x) = JobOf(y) => x = y
                <4>. HIDE DEF j
                <4>. QED  BY <2>3, <2>4, <3>5 DEF KernelInv, DeadlinesSound
            <3>9. \A k \in Released' : jobs'[k].missed /\ jobs'[k].deadline = tick' =>
                      \A x \in Of(queue, "ExecutionCompletion")' : x.tick > tick'
                BY <2>1, <2>2, <2>4, <3>1 DEF KernelInv, DeadlinesSound
            <3>. QED  BY <3>4, <3>7, <3>8, <3>9 DEF DeadlinesSound
        <2>14. NetworkSound'
            BY <2>1, <2>3, NetworkFrame DEF KernelInv
        <2>. QED  BY <1>1, <2>5, <2>6, <2>7, <2>8, <2>10, <2>11, <2>12, <2>13, <2>14 DEF KernelInv
    <1>. QED  BY <1>2, <1>3

-----------------------------------------------------------------------------
(* The scheduling decision. *)

\* No Ready job of the resource outranks the selected one.
LEMMA SelectedOutranks ==
    ASSUME StateInv, NEW r \in ResourceIds, NEW j \in ready[r], Selected(r, j), NEW k \in ready[r]
    PROVE  jobs[j].priority <= jobs[k].priority
    <1>1. TypeOK /\ j \in Released /\ k \in Released
        BY DEF StateInv, MembershipAgrees
    <1>2. jobs[j].priority \in Nat /\ jobs[k].priority \in Nat
        BY <1>1 DEF TypeOK, JobState
    <1>3. ~ (jobs[k].priority < jobs[j].priority)
        BY DEF Selected, ComesBefore
    <1>. QED  BY <1>2, <1>3

\* A resource is left alone only if its decision already stands.
LEMMA LeaveResourceKernel ==
    ASSUME KernelInv, NEW r \in ResourceIds, LeaveResource(r)
    PROVE  KernelInv'
    <1>1. StateInv' /\ StateInv /\ TypeOK /\ MembershipAgrees
        BY LeaveResourceStep DEF KernelInv, StateInv
    <1>2. /\ stage = "schedule" /\ r \in todo /\ Undisturbed(r) /\ todo' = todo \ {r}
          /\ stage' \in {"act", "schedule"} /\ fault' = fault
          /\ UNCHANGED <<config, tick, queue, trace, release, jobs, resource, ready, messages, batch>>
        BY DEF LeaveResource, Visiting, Visited, Least
    <1>3. stage' = "act" => todo = {r}
        BY DEF LeaveResource, Visited
    <1>4. Released' = Released /\ \A phase : Of(queue, phase)' = Of(queue, phase)
        BY <1>2 DEF Released, Of
    <1>5. PositionSound' /\ NothingInThePast' /\ KernelConsistent'
        BY <1>2, <1>4 DEF KernelInv, PositionSound, NothingInThePast, KernelConsistent
    <1>6. ReleasesSound' /\ NetworkSound'
        BY <1>2, <1>4, ReleasesKept, NetworkFrame DEF KernelInv
    <1>7. JobsSound' /\ IntervalsExact' /\ DeadlinesSound'
        BY <1>1, <1>2, <1>4, JobsFrame, IntervalsFrame, DeadlinesFrame DEF KernelInv, TypeOK
    <1>8. CompletionsSound'
        <2>1. \A s : Undecided(s)' => Undecided(s)
            BY <1>2 DEF Undecided
        <2>. QED  BY <1>2, <1>4, <2>1, CompletionsFrame DEF KernelInv
    <1>9. ScheduleSound'
        <2>1. \A s \in ResourceIds : s # r => (Decided(s)' => Decided(s))
            BY <1>2, <1>3 DEF Decided
        <2>2. Idle(r) => ready[r] = {}
            BY <1>2 DEF Undisturbed
        <2>3. config.mode = "Preemptive" /\ ~ Idle(r) =>
                  \A k \in ready[r] : ~ (jobs[k].priority < jobs[resource[r].running].priority)
            <3>1. SUFFICES ASSUME config.mode = "Preemptive", ~ Idle(r), NEW k \in ready[r]
                           PROVE  ~ (jobs[k].priority < jobs[resource[r].running].priority)
                OBVIOUS
            <3>2. PICK j \in ready[r] : Selected(r, j) /\ ~ ShouldPreempt(resource[r].running, j)
                BY <1>2, <3>1 DEF Undisturbed
            <3>3. jobs[j].priority <= jobs[k].priority
                BY <1>1, <3>2, SelectedOutranks
            <3>4. j \in Released /\ k \in Released /\ resource[r].running \in Released
                BY <1>1, <3>1 DEF MembershipAgrees
            <3>5. /\ jobs[j].priority \in Nat /\ jobs[k].priority \in Nat
                  /\ jobs[resource[r].running].priority \in Nat
                BY <1>1, <3>4 DEF TypeOK, JobState
            <3>. QED  BY <3>2, <3>3, <3>5 DEF ShouldPreempt
        <2>. QED  BY <1>2, <2>1, <2>2, <2>3 DEF KernelInv, ScheduleSound, Idle
    <1>. QED  BY <1>1, <1>5, <1>6, <1>7, <1>8, <1>9 DEF KernelInv

\* A start queues its observation in this tick and, in the horizon, the end of the interval.
LEMMA StartQueued ==
    ASSUME NEW q, NEW r, NEW j \in JobIdentity
    PROVE  LET p == QueueAfterStart(q, r, j)
               completion == tick + jobs[j].remaining
           IN  /\ \A phase : phase \notin {"Scheduling", "ExecutionCompletion"} => Of(p, phase) = Of(q, phase)
               /\ \A x \in p.events :
                      \/ x \in q.events
                      \/ x.phase = "Scheduling" /\ x.tick = tick
                      \/ x.phase = "ExecutionCompletion" /\ x.tick = completion
               /\ \/ ~ (completion <= config.stop) /\ Of(p, "ExecutionCompletion") = Of(q, "ExecutionCompletion")
                  \/ \E c : /\ Of(p, "ExecutionCompletion") = Of(q, "ExecutionCompletion") \cup {c}
                            /\ c.phase = "ExecutionCompletion" /\ c.tick = completion
                            /\ JobOf(c) = j /\ c.entities.resource = r
    <1>. DEFINE type == IF Started(jobs[j]) THEN "JobResume" ELSE "JobStart"
                entities == JobEntities(j[1], j[2], r)
                completion == tick + jobs[j].remaining
                started == Scheduled(q, tick, "Scheduling", type, entities, Absent)
    <1>1. <<entities.task, entities.job>> = j /\ entities.resource = r
        BY EntityFields DEF JobIdentity
    <1>2. QueueAfterStart(q, r, j) =
              IF completion <= config.stop
              THEN Scheduled(started, completion, "ExecutionCompletion", "JobFinish", entities, Absent)
              ELSE started
        BY DEF QueueAfterStart
    <1>. HIDE DEF type, entities, completion
    <1>3. PICK s : s = ScheduledEvent(q, tick, "Scheduling", type, entities, Absent)
        OBVIOUS
    <1>4. /\ started.events = q.events \cup {s} /\ s.phase = "Scheduling" /\ s.tick = tick
          /\ \A phase : phase # "Scheduling" => Of(started, phase) = Of(q, phase)
        BY <1>3, ScheduledOf
    <1>. HIDE DEF started
    <1>5. PICK c : c = ScheduledEvent(started, completion, "ExecutionCompletion", "JobFinish", entities, Absent)
        OBVIOUS
    <1>6. CASE completion <= config.stop
        <2>. DEFINE p == QueueAfterStart(q, r, j)
        <2>1. /\ p.events = started.events \cup {c}
              /\ Of(p, "ExecutionCompletion") = Of(started, "ExecutionCompletion") \cup {c}
              /\ \A phase : phase # "ExecutionCompletion" => Of(p, phase) = Of(started, phase)
              /\ c.phase = "ExecutionCompletion" /\ c.tick = completion /\ c.entities = entities
            BY <1>2, <1>5, <1>6, ScheduledOf
        <2>. HIDE DEF p
        <2>2. JobOf(c) = j /\ c.entities.resource = r
            BY <1>1, <2>1 DEF JobOf
        <2>. QED  BY <1>4, <2>1, <2>2 DEF p, completion
    <1>7. CASE ~ (completion <= config.stop)
        <2>1. QueueAfterStart(q, r, j) = started
            BY <1>2, <1>7
        <2>. QED  BY <1>4, <1>7, <2>1 DEF completion
    <1>. QED  BY <1>6, <1>7

\* What a start does to the runtime objects: r executes j from now on, and whatever it
\* executed waits again, with the work that was left of its interval.
HandsOver(r, j) ==
    LET p == resource[r].running
        end == tick + jobs[j].remaining
        completions == Of(queue, "ExecutionCompletion")
    IN  /\ Released' = Released
        /\ \A k \in Released :
               /\ jobs'[k].resource = jobs[k].resource /\ jobs'[k].priority = jobs[k].priority
               /\ jobs'[k].release = jobs[k].release /\ jobs'[k].deadline = jobs[k].deadline
               /\ jobs'[k].missed = jobs[k].missed /\ jobs'[k].finish = jobs[k].finish
               /\ k \notin {j, p} => jobs'[k] = jobs[k]
        /\ jobs'[j].lifecycle = "Running" /\ jobs'[j].remaining = jobs[j].remaining
        /\ ~ Idle(r) =>
               jobs'[p].lifecycle = "Ready" /\ jobs'[p].remaining = resource[r].expected - tick
        /\ \A s \in ResourceIds : s # r => resource'[s] = resource[s] /\ ready'[s] = ready[s]
        /\ resource'[r].running = j /\ resource'[r].since = tick /\ resource'[r].expected = end
        /\ \A k \in ready'[r] : k # j /\ (k \in ready[r] \/ (~ Idle(r) /\ k = p))
        /\ \A phase : phase \notin {"Scheduling", "ExecutionCompletion"} => Of(queue, phase)' = Of(queue, phase)
        /\ \A x \in queue'.events :
               \/ x \in queue.events
               \/ x.phase = "Scheduling" /\ x.tick = tick
               \/ x.phase = "ExecutionCompletion" /\ x.tick = end
        /\ \/ ~ (end <= config.stop) /\ Of(queue, "ExecutionCompletion")' = completions
           \/ \E c : /\ Of(queue, "ExecutionCompletion")' = completions \cup {c}
                     /\ c.phase = "ExecutionCompletion" /\ c.tick = end
                     /\ JobOf(c) = j /\ c.entities.resource = r

\* A start the policy asks for: of the selected job, on an idle resource or in place of a job
\* it outranks.
Starts(r, j) ==
    /\ stage = "schedule" /\ r \in todo /\ Visited(r) /\ Selected(r, j)
    /\ ~ Idle(r) => config.mode = "Preemptive" /\ ShouldPreempt(resource[r].running, j)
    /\ UNCHANGED <<config, tick, trace, release, messages, batch>>
    /\ HandsOver(r, j)

\* The two jobs a start is about.
LEMMA StartedAndHeld ==
    ASSUME KernelInv, stage = "schedule", NEW r \in ResourceIds, NEW j \in ready[r]
    PROVE  /\ tick \in Nat /\ j \in Released /\ j # NoJob /\ j # resource[r].running
           /\ jobs[j].lifecycle = "Ready" /\ jobs[j].resource = r
           /\ jobs[j].remaining \in Nat /\ jobs[j].remaining > 0
           /\ ~ Idle(r) =>
                  /\ resource[r].running \in Released
                  /\ jobs[resource[r].running].lifecycle = "Running"
                  /\ jobs[resource[r].running].resource = r
                  /\ resource[r].expected \in Int /\ resource[r].expected > tick
                  /\ jobs[resource[r].running].remaining \in Nat
                  /\ resource[r].since \in Int /\ 0 <= resource[r].since /\ resource[r].since <= tick
                  /\ resource[r].expected = resource[r].since + jobs[resource[r].running].remaining
                  /\ resource[r].expected - tick <= jobs[resource[r].running].remaining
           /\ \A s \in ResourceIds :
                  s # r /\ ~ Idle(s) =>
                      /\ resource[s].running \in Released
                      /\ resource[s].running \notin {j, resource[r].running}
    <1>1. TypeOK /\ MembershipAgrees /\ tick \in Nat
        BY DEF KernelInv, StateInv, TypeOK
    <1>2. /\ j \in Released /\ j # NoJob /\ jobs[j].lifecycle = "Ready" /\ jobs[j].resource = r
          /\ jobs[j].remaining \in Nat
        BY <1>1, SelectedReady
    <1>3. j # resource[r].running /\ jobs[j].remaining > 0
        BY <1>2, <1>1 DEF MembershipAgrees, KernelInv, JobsSound, Active
    <1>4. ASSUME ~ Idle(r)
          PROVE  /\ resource[r].running \in Released
                 /\ jobs[resource[r].running].lifecycle = "Running"
                 /\ jobs[resource[r].running].resource = r
                 /\ resource[r].expected \in Int /\ resource[r].expected > tick
                 /\ jobs[resource[r].running].remaining \in Nat
                 /\ resource[r].since \in Int /\ 0 <= resource[r].since /\ resource[r].since <= tick
                 /\ resource[r].expected = resource[r].since + jobs[resource[r].running].remaining
                 /\ resource[r].expected - tick <= jobs[resource[r].running].remaining
        <2>1. /\ resource[r].running \in Released
              /\ jobs[resource[r].running].lifecycle = "Running"
              /\ jobs[resource[r].running].resource = r
            BY <1>1, <1>4 DEF MembershipAgrees
        <2>2. resource[r].expected > tick
            BY <1>1, <1>4, NoIntervalEndsNow DEF KernelInv
        <2>3. /\ resource[r].since \in Int /\ resource[r].expected \in Int
              /\ jobs[resource[r].running].remaining \in Nat
            BY <1>1, <2>1 DEF TypeOK, ResourceState, JobState
        <2>4. /\ 0 <= resource[r].since /\ resource[r].since <= tick
              /\ resource[r].expected = resource[r].since + jobs[resource[r].running].remaining
            BY <1>4 DEF KernelInv, IntervalsExact
        <2>. QED  BY <1>1, <2>1, <2>2, <2>3, <2>4
    <1>5. ASSUME NEW s \in ResourceIds, s # r, ~ Idle(s)
          PROVE  /\ resource[s].running \in Released
                 /\ resource[s].running \notin {j, resource[r].running}
        BY <1>1, <1>2, <1>5 DEF MembershipAgrees, Idle
    <1>. QED  BY <1>1, <1>2, <1>3, <1>4, <1>5

\* A start keeps the position of the tick and the releases, and touches no message.
LEMMA StartKeepsPosition ==
    ASSUME KernelInv, StateInv', NEW r \in ResourceIds, NEW j \in ready[r], Starts(r, j)
    PROVE  /\ PositionSound' /\ NothingInThePast' /\ KernelConsistent'
           /\ ReleasesSound' /\ NetworkSound'
    <1>1. /\ stage = "schedule" /\ stage' \in {"act", "schedule"} /\ fault' = fault
          /\ UNCHANGED <<config, tick, trace, release, messages, batch>>
          /\ Released' = Released
          /\ \A phase : phase \notin {"Scheduling", "ExecutionCompletion"} => Of(queue, phase)' = Of(queue, phase)
        BY DEF Starts, Visited, HandsOver
    <1>2. jobs[j].remaining \in Nat /\ jobs[j].remaining > 0 /\ tick \in Nat
        BY <1>1, StartedAndHeld
    <1>3. \A x \in queue'.events :
              \/ x \in queue.events
              \/ x.phase = "Scheduling" /\ x.tick = tick
              \/ x.phase = "ExecutionCompletion" /\ x.tick > tick
        BY <1>2 DEF Starts, HandsOver
    <1>4. PositionSound'
        BY <1>1, <1>3 DEF KernelInv, PositionSound, ScheduledPhases
    <1>5. NothingInThePast'
        <2>1. SUFFICES ASSUME NEW x \in queue'.events
                       PROVE  /\ x.tick >= tick
                              /\ x.tick = tick => PhasePrecedence(x.phase) > PhasePrecedence("JobRelease")
            BY <1>1 DEF NothingInThePast
        <2>2. CASE x \in queue.events
            BY <1>1, <2>2 DEF KernelInv, NothingInThePast
        <2>3. CASE x.phase = "Scheduling" /\ x.tick = tick
            BY <1>2, <2>3, Precedences
        <2>4. CASE x.phase = "ExecutionCompletion" /\ x.tick > tick
            <3>1. x.tick \in Nat
                BY DEF StateInv, TypeOK, EventQueueState, Event
            <3>. QED  BY <1>2, <2>4, <3>1
        <2>. QED  BY <1>3, <2>2, <2>3, <2>4
    <1>6. ReleasesSound' /\ NetworkSound' /\ KernelConsistent'
        BY <1>1, ReleasesKept, NetworkFrame DEF KernelInv, KernelConsistent
    <1>. QED  BY <1>4, <1>5, <1>6

\* A start keeps every job's demand within its bounds, and gives its resource the interval
\* that ends with the work.
LEMMA StartKeepsIntervals ==
    ASSUME KernelInv, NEW r \in ResourceIds, NEW j \in ready[r], Starts(r, j)
    PROVE  JobsSound' /\ IntervalsExact'
    <1>. DEFINE p == resource[r].running
    <1>1. stage = "schedule" /\ UNCHANGED <<config, tick>> /\ Released' = Released
        BY DEF Starts, HandsOver
    <1>2. TypeOK
        BY DEF KernelInv, StateInv
    <1>3. JobsSound'
        <2>1. SUFFICES ASSUME NEW k \in Released
                       PROVE  /\ jobs'[k].release <= tick' /\ jobs'[k].release < jobs'[k].deadline
                              /\ jobs'[k].deadline <= MaxTick
                              /\ jobs'[k].remaining <= jobs'[k].deadline - jobs'[k].release
                              /\ jobs'[k].lifecycle # "Completed" => jobs'[k].remaining > 0
            BY <1>1 DEF JobsSound, Active
        <2>2. /\ jobs'[k].release = jobs[k].release /\ jobs'[k].deadline = jobs[k].deadline
              /\ k \notin {j, p} => jobs'[k] = jobs[k]
            BY DEF Starts, HandsOver
        <2>3. /\ jobs[k].release <= tick /\ jobs[k].release < jobs[k].deadline
              /\ jobs[k].deadline <= MaxTick
              /\ jobs[k].remaining <= jobs[k].deadline - jobs[k].release
              /\ jobs[k].lifecycle # "Completed" => jobs[k].remaining > 0
            BY DEF KernelInv, JobsSound, Active
        <2>4. CASE k \notin {j, p}
            BY <1>1, <2>2, <2>3, <2>4
        <2>5. CASE k = j
            BY <1>1, <2>2, <2>3, <2>5, StartedAndHeld DEF Starts, HandsOver
        <2>6. CASE k = p /\ k # j
            <3>1. ~ Idle(r) /\ tick \in Nat
                BY <1>1, <1>2, <2>6, NoJobAssumption DEF Idle, TypeOK, JobIdentity
            <3>2. jobs'[k].remaining = resource[r].expected - tick
                BY <2>6, <3>1 DEF Starts, HandsOver
            <3>3. /\ resource[r].expected - tick <= jobs[k].remaining
                  /\ resource[r].expected \in Int /\ resource[r].expected > tick
                  /\ jobs[k].remaining \in Nat
                BY <1>1, <2>6, <3>1, StartedAndHeld
            <3>4. jobs[k].deadline \in Nat /\ jobs[k].release \in Nat
                BY <1>2 DEF TypeOK, JobState
            <3>. QED  BY <1>1, <2>2, <2>3, <3>1, <3>2, <3>3, <3>4
        <2>. QED  BY <2>4, <2>5, <2>6
    <1>4. IntervalsExact'
        <2>1. SUFFICES ASSUME NEW s \in ResourceIds
                       PROVE  /\ resource'[s].running = NoJob =>
                                     resource'[s].since = Absent /\ resource'[s].expected = Absent
                              /\ resource'[s].running # NoJob =>
                                     /\ 0 <= resource'[s].since /\ resource'[s].since <= tick'
                                     /\ jobs'[resource'[s].running].remaining > 0
                                     /\ resource'[s].expected =
                                            resource'[s].since + jobs'[resource'[s].running].remaining
                                     /\ resource'[s].expected >= tick'
            BY DEF IntervalsExact, Idle
        <2>2. CASE s = r
            <3>1. /\ resource'[s].running = j /\ resource'[s].since = tick
                  /\ resource'[s].expected = tick + jobs[j].remaining
                  /\ jobs'[j].remaining = jobs[j].remaining
                BY <2>2 DEF Starts, HandsOver
            <3>2. j # NoJob /\ jobs[j].remaining \in Nat /\ jobs[j].remaining > 0 /\ tick \in Nat
                BY <1>1, StartedAndHeld
            <3>. QED  BY <1>1, <3>1, <3>2
        <2>3. CASE s # r
            <3>1. resource'[s] = resource[s]
                BY <2>3 DEF Starts, HandsOver
            <3>2. ~ Idle(s) => jobs'[resource[s].running] = jobs[resource[s].running]
                BY <1>1, <2>3, StartedAndHeld DEF Starts, HandsOver
            <3>. QED  BY <1>1, <3>1, <3>2 DEF KernelInv, IntervalsExact, Idle
        <2>. QED  BY <2>2, <2>3
    <1>. QED  BY <1>3, <1>4

\* A start queues the end of the new interval, if it lies in the horizon; what is left of the
\* interval it cuts short is due no later than the held job could now end.
LEMMA StartKeepsCompletions ==
    ASSUME KernelInv, NEW r \in ResourceIds, NEW j \in ready[r], Starts(r, j)
    PROVE  CompletionsSound'
    <1>. DEFINE p == resource[r].running
                end == tick + jobs[j].remaining
                old == Of(queue, "ExecutionCompletion")
                new == Of(queue, "ExecutionCompletion")'
    <1>1. /\ stage = "schedule" /\ r \in todo /\ todo' = todo \ {r} /\ stage' \in {"act", "schedule"}
          /\ UNCHANGED <<config, tick>> /\ Released' = Released
        BY DEF Starts, HandsOver, Visited
    <1>2. TypeOK /\ MembershipAgrees /\ CompletionsSound
        BY DEF KernelInv, StateInv
    <1>3. Undecided(r) /\ ~ Undecided(r)' /\ \A s : Undecided(s)' => Undecided(s)
        BY <1>1 DEF Undecided
    <1>4. /\ j \in Released /\ jobs[j].lifecycle = "Ready" /\ jobs[j].resource = r
          /\ jobs'[j].lifecycle = "Running" /\ j # p
        BY <1>1, StartedAndHeld DEF Starts, HandsOver
    <1>5. /\ resource'[r].running = j /\ resource'[r].expected = end
          /\ \A s \in ResourceIds : s # r => resource'[s] = resource[s]
        BY DEF Starts, HandsOver
    <1>6. \A k \in Released : jobs'[k].resource = jobs[k].resource /\ (k \notin {j, p} => jobs'[k] = jobs[k])
        BY DEF Starts, HandsOver
    <1>7. \A x \in new : x \in old \/ (x.tick = end /\ JobOf(x) = j /\ x.entities.resource = r)
        BY DEF Starts, HandsOver
    <1>8. \A x \in old : JobOf(x) = j => x.tick < end
        BY <1>2, <1>3, <1>4 DEF CompletionsSound
    <1>. HIDE DEF end, old, new, p
    <1>9. ASSUME NEW x \in new
          PROVE  /\ JobOf(x) \in Released' /\ jobs'[JobOf(x)].resource = x.entities.resource
                 /\ jobs'[JobOf(x)].lifecycle = "Ready" =>
                        /\ x.tick <= tick' + jobs'[JobOf(x)].remaining
                        /\ Undecided(x.entities.resource)' => x.tick < tick' + jobs'[JobOf(x)].remaining
                 /\ jobs'[JobOf(x)].lifecycle = "Running" => x.tick <= resource'[x.entities.resource].expected
        <2>1. end \in Nat /\ tick \in Nat
            BY <1>1, StartedAndHeld DEF end
        <2>2. CASE x \notin old
            BY <1>1, <1>4, <1>5, <1>6, <1>7, <2>1, <2>2
        <2>3. CASE x \in old /\ JobOf(x) = j
            <3>1. x.tick < end /\ x.entities.resource = r
                BY <1>2, <1>4, <1>8, <2>3 DEF CompletionsSound, old
            <3>2. x.tick \in Nat
                BY <1>2, <2>3, PendingFields DEF Of, old
            <3>. QED  BY <1>1, <1>4, <1>5, <1>6, <2>1, <2>3, <3>1, <3>2
        <2>4. CASE x \in old /\ JobOf(x) = p
            <3>1. p \in Released /\ ~ Idle(r)
                BY <1>2, <2>4, NoJobAssumption DEF CompletionsSound, old, Idle, TypeOK, JobIdentity, p
            <3>2. /\ jobs[p].lifecycle = "Running" /\ jobs[p].resource = r
                  /\ jobs'[p].lifecycle = "Ready" /\ jobs'[p].remaining = resource[r].expected - tick
                  /\ resource[r].expected \in Int
                BY <1>1, <3>1, StartedAndHeld DEF Starts, HandsOver, p
            <3>3. x.tick <= resource[r].expected /\ x.entities.resource = r
                BY <1>2, <2>4, <3>2 DEF CompletionsSound, old
            <3>. QED  BY <1>1, <1>3, <1>6, <2>1, <2>4, <3>1, <3>2, <3>3
        <2>5. CASE x \in old /\ JobOf(x) \notin {j, p}
            <3>1. /\ JobOf(x) \in Released /\ jobs[JobOf(x)].resource = x.entities.resource
                  /\ jobs[JobOf(x)].lifecycle = "Ready" =>
                         /\ x.tick <= tick + jobs[JobOf(x)].remaining
                         /\ Undecided(x.entities.resource) => x.tick < tick + jobs[JobOf(x)].remaining
                  /\ jobs[JobOf(x)].lifecycle = "Running" => x.tick <= resource[x.entities.resource].expected
                BY <1>2, <2>5 DEF CompletionsSound, old
            <3>2. jobs[JobOf(x)].lifecycle = "Running" =>
                      x.entities.resource # r /\ x.entities.resource \in ResourceIds
                BY <1>2, <2>5, <3>1 DEF MembershipAgrees, p, TypeOK, JobState
            <3>. QED  BY <1>1, <1>3, <1>5, <1>6, <2>5, <3>1, <3>2
        <2>. QED  BY <2>2, <2>3, <2>4, <2>5
    <1>10. \A x, y \in new : JobOf(x) = JobOf(y) /\ x.tick = y.tick => x = y
        <2>1. \A x, y \in old : JobOf(x) = JobOf(y) /\ x.tick = y.tick => x = y
            BY <1>2 DEF CompletionsSound, old
        <2>2. \A x \in old : JobOf(x) = j => x.tick # end
            <3>1. \A x \in old : x.tick \in Nat
                BY <1>2, PendingFields DEF Of, old
            <3>2. end \in Nat
                BY <1>1, StartedAndHeld DEF end
            <3>. QED  BY <1>8, <3>1, <3>2
        <2>3. new = old \/ \E c : new = old \cup {c} /\ JobOf(c) = j /\ c.tick = end
            BY DEF Starts, HandsOver, new, old, end
        <2>. QED  BY <2>1, <2>2, <2>3
    <1>11. ASSUME NEW s \in ResourceIds, ~ Idle(s)', resource'[s].expected <= config'.stop
           PROVE  \E x \in new : CompletionOf(x, s)' /\ x.tick = resource'[s].expected
        <2>1. CASE s = r
            <3>1. PICK c : /\ new = old \cup {c} /\ c.phase = "ExecutionCompletion" /\ c.tick = end
                           /\ JobOf(c) = j /\ c.entities.resource = r
                BY <1>1, <1>5, <1>11, <2>1 DEF Starts, HandsOver, new, old, end
            <3>. QED  BY <1>5, <2>1, <3>1 DEF CompletionOf, JobOf
        <2>2. CASE s # r
            <3>1. resource'[s] = resource[s]
                BY <1>5, <2>2
            <3>2. PICK x \in old : CompletionOf(x, s) /\ x.tick = resource[s].expected
                BY <1>1, <1>2, <1>11, <3>1 DEF CompletionsSound, Idle, old
            <3>3. x \in new
                BY <3>2 DEF Starts, HandsOver, new, old
            <3>. QED  BY <3>1, <3>2, <3>3 DEF CompletionOf
        <2>. QED  BY <2>1, <2>2
    <1>. QED  BY <1>9, <1>10, <1>11 DEF CompletionsSound, new

\* After a start no Ready job of the resource outranks the one it runs.
LEMMA StartKeepsSchedule ==
    ASSUME KernelInv, NEW r \in ResourceIds, NEW j \in ready[r], Starts(r, j)
    PROVE  ScheduleSound'
    <1>. DEFINE p == resource[r].running
    <1>1. /\ stage = "schedule" /\ r \in todo /\ UNCHANGED <<config, tick>> /\ Released' = Released
          /\ todo' = todo \ {r} /\ stage' \in {"act", "schedule"} /\ (stage' = "act" => todo = {r})
        BY DEF Starts, HandsOver, Visited
    <1>2. TypeOK /\ MembershipAgrees
        BY DEF KernelInv, StateInv
    <1>3. \A s \in ResourceIds : s # r => (Decided(s)' => Decided(s))
        BY <1>1 DEF Decided
    <1>4. \A k \in Released : jobs'[k].priority = jobs[k].priority /\ jobs'[k].release = jobs[k].release
        BY DEF Starts, HandsOver
    <1>5. ASSUME NEW s \in ResourceIds, s # r
          PROVE  /\ Decided(s)' /\ Idle(s)' => ready'[s] = {}
                 /\ config'.mode = "Preemptive" /\ ~ Idle(s)' =>
                        \A k \in ready'[s] :
                            jobs'[k].priority < jobs'[resource'[s].running].priority =>
                                jobs'[k].release = tick' /\ ~ Decided(s)'
        <2>1. resource'[s] = resource[s] /\ ready'[s] = ready[s]
            BY <1>5 DEF Starts, HandsOver
        <2>2. /\ ~ Idle(s) => resource[s].running \in Released
              /\ \A k \in ready[s] : k \in Released
            BY <1>2 DEF MembershipAgrees
        <2>. QED  BY <1>1, <1>3, <1>4, <1>5, <2>1, <2>2 DEF KernelInv, ScheduleSound, Idle
    <1>6. ~ Idle(r)' /\ resource'[r].running = j
        BY <1>1, StartedAndHeld DEF Starts, HandsOver, Idle
    <1>7. ASSUME NEW k \in ready'[r]
          PROVE  ~ (jobs'[k].priority < jobs'[j].priority)
        <2>1. j \in Released /\ (~ Idle(r) => p \in Released)
            BY <1>1, StartedAndHeld
        <2>2. k \in ready[r] \/ (~ Idle(r) /\ k = p)
            BY DEF Starts, HandsOver
        <2>3. CASE k \in ready[r]
            <3>1. jobs[j].priority <= jobs[k].priority
                BY <2>3, SelectedOutranks DEF Starts, KernelInv
            <3>2. k \in Released
                BY <1>2, <2>3 DEF MembershipAgrees
            <3>3. jobs[j].priority \in Nat /\ jobs[k].priority \in Nat
                BY <1>2, <2>1, <3>2 DEF TypeOK, JobState
            <3>. QED  BY <1>4, <2>1, <3>1, <3>2, <3>3
        <2>4. CASE ~ Idle(r) /\ k = p
            <3>1. jobs[j].priority < jobs[p].priority
                BY <2>4 DEF Starts, ShouldPreempt
            <3>2. jobs[j].priority \in Nat /\ jobs[p].priority \in Nat
                BY <1>2, <2>1, <2>4 DEF TypeOK, JobState
            <3>. QED  BY <1>4, <2>1, <2>4, <3>1, <3>2
        <2>. QED  BY <2>2, <2>3, <2>4
    <1>. QED  BY <1>5, <1>6, <1>7 DEF ScheduleSound

\* A start gives no verdict and takes no check, and what it queues lies in the future.
LEMMA StartKeepsDeadlines ==
    ASSUME KernelInv, NEW r \in ResourceIds, NEW j \in ready[r], Starts(r, j)
    PROVE  DeadlinesSound'
    <1>. DEFINE p == resource[r].running
    <1>1. stage = "schedule" /\ UNCHANGED <<config, tick>> /\ Released' = Released
        BY DEF Starts, HandsOver
    <1>2. /\ Of(queue, "DeadlineCheck")' = Of(queue, "DeadlineCheck")
          /\ \A x \in Of(queue, "ExecutionCompletion")' :
                 x \in Of(queue, "ExecutionCompletion") \/ x.tick = tick + jobs[j].remaining
        BY DEF Starts, HandsOver
    <1>3. \A k \in Released :
              /\ jobs'[k].resource = jobs[k].resource /\ jobs'[k].deadline = jobs[k].deadline
              /\ jobs'[k].missed = jobs[k].missed /\ jobs'[k].finish = jobs[k].finish
        BY DEF Starts, HandsOver
    <1>4. ASSUME NEW k \in Released PROVE jobs'[k].lifecycle # "Completed" <=> jobs[k].lifecycle # "Completed"
        <2>1. CASE k = j
            BY <1>1, <2>1, StartedAndHeld DEF Starts, HandsOver
        <2>2. CASE k = p
            <3>1. ~ Idle(r)
                BY <2>2, NoJobAssumption DEF Idle, KernelInv, StateInv, TypeOK, JobIdentity
            <3>. QED  BY <1>1, <2>2, <3>1, StartedAndHeld DEF Starts, HandsOver
        <2>3. CASE k \notin {j, p}
            BY <2>3 DEF Starts, HandsOver
        <2>. QED  BY <2>1, <2>2, <2>3
    <1>5. ASSUME NEW k \in Released PROVE Open(k)' \/ Judged(k)'
        <2>1. Open(k) \/ Judged(k)
            BY DEF KernelInv, DeadlinesSound
        <2>. QED  BY <1>1, <1>2, <1>3, <1>4, <2>1 DEF Open, Judged, Active
    <1>6. tick \in Nat /\ jobs[j].remaining \in Nat /\ jobs[j].remaining > 0
        BY <1>1, StartedAndHeld
    <1>7. \A k \in Released' : jobs'[k].missed /\ jobs'[k].deadline = tick' =>
              \A x \in Of(queue, "ExecutionCompletion")' : x.tick > tick'
        BY <1>1, <1>2, <1>3, <1>6 DEF KernelInv, DeadlinesSound
    <1>. QED  BY <1>1, <1>2, <1>3, <1>5, <1>7 DEF KernelInv, DeadlinesSound

\* A start preserves the invariant.
LEMMA StartKernel ==
    ASSUME KernelInv, StateInv', NEW r \in ResourceIds, NEW j \in ready[r], Starts(r, j)
    PROVE  KernelInv'
    BY StartKeepsPosition, StartKeepsIntervals, StartKeepsCompletions, StartKeepsSchedule,
       StartKeepsDeadlines DEF KernelInv

\* A refused start only stops the run.
LEMMA RefusedStartKernel ==
    ASSUME KernelInv, StateInv', Throw("tick_overflow"),
           UNCHANGED <<config, tick, queue, trace, release, jobs, resource, ready, messages, todo,
                       batch>>
    PROVE  KernelInv'
    <1>1. stage' = "failed" /\ fault' # "inconsistent"
        BY DEF Throw
    <1>2. \A phase : Of(queue, phase)' = Of(queue, phase)
        BY DEF Of
    <1>. QED  BY <1>1, <1>2, PendingSound, ThrownKernel

\* What a start appends to a queue that is the engine's but for observations of this tick.
LEMMA StartQueuedAfter ==
    ASSUME NEW q, NEW r, NEW j \in JobIdentity, queue' = QueueAfterStart(q, r, j),
           \A phase : phase # "Scheduling" => Of(q, phase) = Of(queue, phase),
           \A x \in q.events : x \in queue.events \/ (x.phase = "Scheduling" /\ x.tick = tick)
    PROVE  LET end == tick + jobs[j].remaining
               completions == Of(queue, "ExecutionCompletion")
           IN  /\ \A phase : phase \notin {"Scheduling", "ExecutionCompletion"} =>
                         Of(queue, phase)' = Of(queue, phase)
               /\ \A x \in queue'.events :
                      \/ x \in queue.events
                      \/ x.phase = "Scheduling" /\ x.tick = tick
                      \/ x.phase = "ExecutionCompletion" /\ x.tick = end
               /\ \/ ~ (end <= config.stop) /\ Of(queue, "ExecutionCompletion")' = completions
                  \/ \E c : /\ Of(queue, "ExecutionCompletion")' = completions \cup {c}
                            /\ c.phase = "ExecutionCompletion" /\ c.tick = end
                            /\ JobOf(c) = j /\ c.entities.resource = r
    <1>1. \A phase : Of(queue, phase)' = Of(queue', phase)
        BY DEF Of
    <1>2. Of(q, "ExecutionCompletion") = Of(queue, "ExecutionCompletion")
        OBVIOUS
    <1>3. PICK p : p = queue'
        OBVIOUS
    <1>4. p = QueueAfterStart(q, r, j)
        BY <1>3
    <1>5. LET end == tick + jobs[j].remaining
          IN  /\ \A phase : phase \notin {"Scheduling", "ExecutionCompletion"} => Of(p, phase) = Of(q, phase)
              /\ \A x \in p.events :
                     \/ x \in q.events
                     \/ x.phase = "Scheduling" /\ x.tick = tick
                     \/ x.phase = "ExecutionCompletion" /\ x.tick = end
              /\ \/ ~ (end <= config.stop) /\ Of(p, "ExecutionCompletion") = Of(q, "ExecutionCompletion")
                 \/ \E c : /\ Of(p, "ExecutionCompletion") = Of(q, "ExecutionCompletion") \cup {c}
                           /\ c.phase = "ExecutionCompletion" /\ c.tick = end
                           /\ JobOf(c) = j /\ c.entities.resource = r
        BY <1>4, StartQueued
    <1>. QED  BY <1>1, <1>2, <1>3, <1>5

\* Starting changes what a job executes, nothing else about it.
LEMMA StartedFields ==
    ASSUME NEW job \in JobState
    PROVE  /\ StartedJob(job).resource = job.resource /\ StartedJob(job).priority = job.priority
           /\ StartedJob(job).release = job.release /\ StartedJob(job).deadline = job.deadline
           /\ StartedJob(job).missed = job.missed /\ StartedJob(job).finish = job.finish
           /\ StartedJob(job).remaining = job.remaining /\ StartedJob(job).lifecycle = "Running"
    BY DEF StartedJob, JobState

\* Holding a job charges it what it executed, and nothing else about it changes.
LEMMA HeldFields ==
    ASSUME NEW job \in JobState, NEW res
    PROVE  LET held == PreemptedJob(job, res)
           IN  /\ held.resource = job.resource /\ held.priority = job.priority
               /\ held.release = job.release /\ held.deadline = job.deadline
               /\ held.missed = job.missed /\ held.finish = job.finish
               /\ held.remaining = job.remaining - (tick - res.since) /\ held.lifecycle = "Ready"
    BY DEF PreemptedJob, JobState

\* The interval a resource is given.
LEMMA IntervalFields ==
    ASSUME NEW res \in ResourceState, NEW j, NEW n
    PROVE  LET given == StartedResource(res, j, n)
           IN  given.running = j /\ given.since = tick /\ given.expected = tick + n
    BY DEF StartedResource, ResourceState

\* An idle resource with work starts it, unless its end is no tick any more.
LEMMA DispatchKernel ==
    ASSUME KernelInv, NEW r \in ResourceIds, NEW j \in ready[r], Dispatch(r, j)
    PROVE  KernelInv'
    <1>1. StateInv' /\ TypeOK /\ MembershipAgrees
        BY DispatchStep DEF KernelInv, StateInv
    <1>2. stage = "schedule" /\ r \in todo /\ Idle(r) /\ Selected(r, j)
        BY DEF Dispatch, Visiting, Least
    <1>3. CASE StartOverflows(j)
        <2>1. Throw("tick_overflow")
            BY <1>3 DEF Dispatch
        <2>2. UNCHANGED <<config, tick, queue, trace, release, jobs, resource, ready, messages, todo,
                          batch>>
            BY <1>3 DEF Dispatch
        <2>. QED  BY <1>1, <2>1, <2>2, RefusedStartKernel
    <1>4. CASE ~ StartOverflows(j)
        <2>1. /\ Visited(r) /\ UNCHANGED <<config, tick, trace, release, messages, batch>>
              /\ jobs' = [jobs EXCEPT ![j] = StartedJob(jobs[j])]
              /\ resource' = [resource EXCEPT ![r] = StartedResource(resource[r], j, jobs[j].remaining)]
              /\ ready' = [ready EXCEPT ![r] = ready[r] \ {j}]
              /\ queue' = QueueAfterStart(queue, r, j)
            BY <1>4 DEF Dispatch, StartSelected
        <2>2. j \in Released /\ j \in JobIdentity /\ jobs[j] \in JobState
            BY <1>1, SelectedReady
        <2>3. /\ Released' = Released /\ jobs'[j] = StartedJob(jobs[j])
              /\ \A k \in Released : k # j => jobs'[k] = jobs[k]
            BY <1>1, <2>1, <2>2 DEF TypeOK, Released
        <2>4. /\ resource'[r].running = j /\ resource'[r].since = tick
              /\ resource'[r].expected = tick + jobs[j].remaining
              /\ \A s \in ResourceIds : s # r => resource'[s] = resource[s] /\ ready'[s] = ready[s]
              /\ ready'[r] = ready[r] \ {j}
            BY <1>1, <2>1, IntervalFields DEF TypeOK
        <2>5. LET end == tick + jobs[j].remaining
                  completions == Of(queue, "ExecutionCompletion")
              IN  /\ \A phase : phase \notin {"Scheduling", "ExecutionCompletion"} =>
                            Of(queue, phase)' = Of(queue, phase)
                  /\ \A x \in queue'.events :
                         \/ x \in queue.events
                         \/ x.phase = "Scheduling" /\ x.tick = tick
                         \/ x.phase = "ExecutionCompletion" /\ x.tick = end
                  /\ \/ ~ (end <= config.stop) /\ Of(queue, "ExecutionCompletion")' = completions
                     \/ \E c : /\ Of(queue, "ExecutionCompletion")' = completions \cup {c}
                               /\ c.phase = "ExecutionCompletion" /\ c.tick = end
                               /\ JobOf(c) = j /\ c.entities.resource = r
            BY <2>1, <2>2, StartQueuedAfter
        <2>6. \A k \in Released :
                  /\ jobs'[k].resource = jobs[k].resource /\ jobs'[k].priority = jobs[k].priority
                  /\ jobs'[k].release = jobs[k].release /\ jobs'[k].deadline = jobs[k].deadline
                  /\ jobs'[k].missed = jobs[k].missed /\ jobs'[k].finish = jobs[k].finish
            BY <2>2, <2>3, StartedFields
        <2>7. jobs'[j].lifecycle = "Running" /\ jobs'[j].remaining = jobs[j].remaining
            BY <2>2, <2>3, StartedFields
        <2>8. HandsOver(r, j)
            BY <1>2, <2>3, <2>4, <2>5, <2>6, <2>7 DEF HandsOver
        <2>9. Starts(r, j)
            BY <1>2, <2>1, <2>8 DEF Starts
        <2>. QED  BY <1>1, <2>9, StartKernel
    <1>. QED  BY <1>3, <1>4

\* A job that outranks the running one was released in this tick, so neither its start nor the
\* charge of the job it replaces is ever refused.
LEMMA PreemptionAccepted ==
    ASSUME KernelInv, NEW r \in ResourceIds, NEW j \in ready[r], Preempt(r, j)
    PROVE  MayPreempt(r) /\ ~ StartOverflows(j)
    <1>1. /\ stage = "schedule" /\ ~ Idle(r) /\ config.mode = "Preemptive"
          /\ jobs[j].priority < jobs[resource[r].running].priority
        BY DEF Preempt, Visiting, ShouldPreempt
    <1>2. TypeOK /\ tick \in Nat /\ MaxTick \in Nat
        BY ConfigAssumption DEF KernelInv, StateInv, TypeOK
    <1>3. MayPreempt(r)
        <2>1. /\ resource[r].since \in Int /\ resource[r].since <= tick
              /\ jobs[resource[r].running].remaining \in Nat
              /\ resource[r].expected = resource[r].since + jobs[resource[r].running].remaining
              /\ resource[r].expected > tick
            BY <1>1, StartedAndHeld
        <2>. QED  BY <1>2, <2>1 DEF MayPreempt
    <1>4. ~ StartOverflows(j)
        <2>1. jobs[j].release = tick
            BY <1>1 DEF KernelInv, ScheduleSound
        <2>2. j \in Released /\ jobs[j].remaining \in Nat
            BY <1>1, StartedAndHeld
        <2>3. jobs[j].deadline \in Nat
            BY <1>2, <2>2 DEF TypeOK, JobState
        <2>4. jobs[j].deadline <= MaxTick /\ jobs[j].remaining <= jobs[j].deadline - tick
            BY <2>1, <2>2 DEF KernelInv, JobsSound
        <2>. QED  BY <1>2, <2>2, <2>3, <2>4 DEF StartOverflows
    <1>. QED  BY <1>3, <1>4

\* A preemption hands the resource over.
LEMMA PreemptKernel ==
    ASSUME KernelInv, NEW r \in ResourceIds, NEW j \in ready[r], Preempt(r, j)
    PROVE  KernelInv'
    <1>. DEFINE p == resource[r].running
    <1>1. StateInv' /\ TypeOK /\ MembershipAgrees
        BY PreemptStep DEF KernelInv, StateInv
    <1>2. /\ stage = "schedule" /\ r \in todo /\ ~ Idle(r) /\ Selected(r, j)
          /\ config.mode = "Preemptive" /\ ShouldPreempt(p, j)
          /\ Visited(r) /\ ReplaceRunning(r, p, j)
          /\ UNCHANGED <<config, tick, trace, release, messages, batch>>
        BY PreemptionAccepted DEF Preempt, Visiting, Least
    <1>3. /\ j \in Released /\ j # p /\ p \in Released /\ p \in JobIdentity /\ j \in JobIdentity
          /\ jobs[j] \in JobState /\ jobs[p] \in JobState /\ tick \in Nat
          /\ jobs[p].remaining \in Nat /\ resource[r].since \in Int
          /\ resource[r].expected = resource[r].since + jobs[p].remaining
        BY <1>1, <1>2, StartedAndHeld DEF TypeOK
    <1>. DEFINE held == PreemptedJob(jobs[p], resource[r])
                freed == IdledResource(resource[r])
                preempted == Scheduled(queue, tick, "Scheduling", "JobPreempt",
                                       JobEntities(p[1], p[2], r), Absent)
    <1>4. /\ jobs' = [jobs EXCEPT ![p] = held, ![j] = StartedJob(jobs[j])]
          /\ resource' = [resource EXCEPT ![r] = StartedResource(freed, j, jobs[j].remaining)]
          /\ ready' = [ready EXCEPT ![r] = (ready[r] \cup {p}) \ {j}]
          /\ queue' = QueueAfterStart(preempted, r, j)
        BY <1>2, <1>3 DEF ReplaceRunning
    <1>5. freed \in ResourceState
        BY <1>1, <1>3, PreemptedType, PreemptionAccepted
    <1>6. \A phase : phase # "Scheduling" => Of(preempted, phase) = Of(queue, phase)
        BY ScheduledOf
    <1>7. \A x \in preempted.events : x \in queue.events \/ (x.phase = "Scheduling" /\ x.tick = tick)
        <2>1. PICK e : e = ScheduledEvent(queue, tick, "Scheduling", "JobPreempt",
                                          JobEntities(p[1], p[2], r), Absent)
            OBVIOUS
        <2>2. preempted.events = queue.events \cup {e} /\ e.tick = tick /\ e.phase = "Scheduling"
            BY <2>1, ScheduledOf
        <2>. QED  BY <2>2
    <1>8. /\ held.resource = jobs[p].resource /\ held.priority = jobs[p].priority
          /\ held.release = jobs[p].release /\ held.deadline = jobs[p].deadline
          /\ held.missed = jobs[p].missed /\ held.finish = jobs[p].finish
          /\ held.remaining = jobs[p].remaining - (tick - resource[r].since) /\ held.lifecycle = "Ready"
        BY <1>3, HeldFields
    <1>. HIDE DEF held, freed, preempted
    <1>9. /\ Released' = Released /\ jobs'[j] = StartedJob(jobs[j]) /\ jobs'[p] = held
          /\ \A k \in Released : k \notin {j, p} => jobs'[k] = jobs[k]
        BY <1>1, <1>3, <1>4 DEF TypeOK, Released
    <1>10. /\ resource'[r].running = j /\ resource'[r].since = tick
           /\ resource'[r].expected = tick + jobs[j].remaining
           /\ \A s \in ResourceIds : s # r => resource'[s] = resource[s] /\ ready'[s] = ready[s]
           /\ ready'[r] = (ready[r] \cup {p}) \ {j}
        BY <1>1, <1>4, <1>5, IntervalFields DEF TypeOK
    <1>11. LET end == tick + jobs[j].remaining
               completions == Of(queue, "ExecutionCompletion")
           IN  /\ \A phase : phase \notin {"Scheduling", "ExecutionCompletion"} =>
                         Of(queue, phase)' = Of(queue, phase)
               /\ \A x \in queue'.events :
                      \/ x \in queue.events
                      \/ x.phase = "Scheduling" /\ x.tick = tick
                      \/ x.phase = "ExecutionCompletion" /\ x.tick = end
               /\ \/ ~ (end <= config.stop) /\ Of(queue, "ExecutionCompletion")' = completions
                  \/ \E c : /\ Of(queue, "ExecutionCompletion")' = completions \cup {c}
                            /\ c.phase = "ExecutionCompletion" /\ c.tick = end
                            /\ JobOf(c) = j /\ c.entities.resource = r
        BY <1>3, <1>4, <1>6, <1>7, StartQueuedAfter
    <1>12. \A k \in Released :
               /\ jobs'[k].resource = jobs[k].resource /\ jobs'[k].priority = jobs[k].priority
               /\ jobs'[k].release = jobs[k].release /\ jobs'[k].deadline = jobs[k].deadline
               /\ jobs'[k].missed = jobs[k].missed /\ jobs'[k].finish = jobs[k].finish
        <2>. HIDE DEF p
        <2>. QED  BY <1>3, <1>8, <1>9, StartedFields
    <1>13. /\ jobs'[j].lifecycle = "Running" /\ jobs'[j].remaining = jobs[j].remaining
           /\ jobs'[p].lifecycle = "Ready" /\ jobs'[p].remaining = resource[r].expected - tick
        <2>. HIDE DEF p
        <2>. QED  BY <1>3, <1>8, <1>9, StartedFields
    <1>14. HandsOver(r, j)
        BY <1>2, <1>9, <1>10, <1>11, <1>12, <1>13 DEF HandsOver
    <1>15. Starts(r, j)
        BY <1>2, <1>14 DEF Starts
    <1>. QED  BY <1>1, <1>15, StartKernel

-----------------------------------------------------------------------------
(* The invariant and what it means to a caller. *)

\* Every step of the engine preserves the invariant.
LEMMA NextKernelInv == KernelInv /\ [Next]_vars => KernelInv'
    <1>. SUFFICES ASSUME KernelInv, [Next]_vars PROVE KernelInv'
        OBVIOUS
    <1>1. CASE \E t \in TaskIds : QueueFirstRelease(t)
        BY <1>1, QueueFirstReleaseKernel
    <1>2. CASE Initialized \/ (\E e \in queue.events : BeginTick(e)) \/ FinishEmpty
        BY <1>2, InitializedKernel, BeginTickKernel, FinishEmptyKernel
    <1>3. CASE Settle
        BY <1>3, AcceptCompletionKernel, IgnoreStaleCompletionKernel, DeliverMessageKernel,
           CheckDeadlineKernel DEF Settle
    <1>4. CASE \E d \in TaskIds : PublishRoute(d)
        BY <1>4, PublishRouteKernel
    <1>5. CASE ProcessReleases
        BY <1>5, CollectReleasesKernel, ReleaseJobKernel, ReleaseRefusedKernel DEF ProcessReleases
    <1>6. CASE Schedule
        BY <1>6, LeaveResourceKernel, DispatchKernel, PreemptKernel DEF Schedule
    <1>7. CASE Act
        BY <1>7, EndTickKernel, RecordDecisionKernel, SendMessageKernel DEF Act
    <1>8. CASE StepAfterEnd \/ UNCHANGED vars
        <2>1. UNCHANGED vars
            BY <1>8 DEF StepAfterEnd
        <2>2. StateInv'
            BY NextStateInv DEF KernelInv
        <2>3. UNCHANGED <<config, stage, fault, tick, queue, trace, release, jobs, resource, ready,
                          messages, todo, batch>>
            BY <2>1 DEF vars
        <2>4. /\ Released' = Released /\ HeldReleases' = HeldReleases
              /\ \A phase : Of(queue, phase)' = Of(queue, phase)
              /\ \A r : (Undecided(r)' => Undecided(r)) /\ (Decided(r)' => Decided(r))
            BY <2>3 DEF Released, HeldReleases, Of, Undecided, Decided
        <2>5. PositionSound' /\ NothingInThePast' /\ KernelConsistent'
            BY <2>3, <2>4 DEF KernelInv, PositionSound, NothingInThePast, KernelConsistent
        <2>6. ReleasesSound'
            BY <2>3, <2>4 DEF KernelInv, ReleasesSound, ReleaseMatches
        <2>7. JobsSound' /\ IntervalsExact' /\ CompletionsSound' /\ ScheduleSound' /\ DeadlinesSound'
            BY <2>3, <2>4, RuntimeFrame
        <2>8. NetworkSound'
            BY <2>3, <2>4, NetworkFrame DEF KernelInv
        <2>. QED  BY <2>2, <2>5, <2>6, <2>7, <2>8 DEF KernelInv
    <1>. QED  BY <1>1, <1>2, <1>3, <1>4, <1>5, <1>6, <1>7, <1>8 DEF Next

\* The invariant holds in every reachable state.
LEMMA KernelInvariance == Spec => []KernelInv
    BY InitKernelInv, NextKernelInv, PTL DEF Spec

\* A running job's candidate is the one its resource waits for, every other one is due before.
LEMMA CompletionIsQueued == KernelInv => CompletionQueued
    <1>. SUFFICES ASSUME KernelInv, NEW r \in ResourceIds, ~ Idle(r)
                  PROVE  /\ resource[r].expected <= config.stop =>
                                \E e \in queue.events : CompletionOf(e, r) /\ e.tick = resource[r].expected
                         /\ \A e, f \in queue.events :
                                CompletionOf(e, r) /\ CompletionOf(f, r) =>
                                    /\ e.tick <= resource[r].expected
                                    /\ e.tick = f.tick => e = f
        BY DEF CompletionQueued
    <1>1. CompletionsSound /\ MembershipAgrees
        BY DEF KernelInv, StateInv
    <1>2. resource[r].running \in Released /\ jobs[resource[r].running].lifecycle = "Running"
        BY <1>1 DEF MembershipAgrees
    <1>3. \A e \in queue.events :
              CompletionOf(e, r) =>
                  /\ e \in Of(queue, "ExecutionCompletion")
                  /\ JobOf(e) = resource[r].running /\ e.entities.resource = r
        BY DEF CompletionOf, Of, JobOf
    <1>4. \A x \in Of(queue, "ExecutionCompletion") : x \in queue.events
        BY DEF Of
    <1>. QED  BY <1>1, <1>2, <1>3, <1>4 DEF CompletionsSound

\* The releases the engine holds are one per task that still releases.
LEMMA OneReleaseIsPending == KernelInv => OnePendingRelease
    <1>. SUFFICES ASSUME KernelInv, stage # "failed", NEW t \in TaskIds
                  PROVE  LET held == {e \in queue.events \cup batch : ReleaseOf(e, t)}
                         IN  /\ \A e, f \in held : e = f
                             /\ held # {} <=> release[t].pending # Absent
                             /\ \A e \in held : ReleaseMatches(e)
        BY DEF OnePendingRelease
    <1>. DEFINE held == {e \in queue.events \cup batch : ReleaseOf(e, t)}
    <1>1. \A e : e \in held <=> e \in HeldReleases /\ e.entities.task = t
        BY DEF KernelInv, PositionSound, HeldReleases, Of, ReleaseOf
    <1>. HIDE DEF held
    <1>2. \A e, f \in held : e = f
        BY <1>1 DEF KernelInv, ReleasesSound
    <1>3. \A e \in held : ReleaseMatches(e)
        BY <1>1 DEF KernelInv, ReleasesSound
    <1>4. \A e \in held : release[t].pending # Absent
        BY <1>1, <1>3 DEF ReleaseMatches
    <1>5. release[t].pending # Absent => held # {}
        BY <1>1 DEF KernelInv, ReleasesSound
    <1>. QED  BY <1>2, <1>3, <1>4, <1>5 DEF held

\* A decided schedule is the policy's.
LEMMA PolicyIsRespected == KernelInv => PriorityRespected
    <1>. SUFFICES ASSUME KernelInv, stage \in {"act", "between", "finished"}, NEW r \in ResourceIds
                  PROVE  /\ Idle(r) => ready[r] = {}
                         /\ config.mode = "Preemptive" =>
                                \A j \in ready[r] :
                                    ~ Idle(r) => jobs[resource[r].running].priority <= jobs[j].priority
        BY DEF PriorityRespected
    <1>1. Decided(r)
        BY DEF Decided
    <1>2. Idle(r) => ready[r] = {}
        BY <1>1 DEF KernelInv, ScheduleSound
    <1>3. ASSUME config.mode = "Preemptive", NEW j \in ready[r], ~ Idle(r)
          PROVE  jobs[resource[r].running].priority <= jobs[j].priority
        <2>1. TypeOK /\ resource[r].running \in Released /\ j \in Released
            BY <1>3 DEF KernelInv, StateInv, MembershipAgrees
        <2>2. jobs[resource[r].running].priority \in Nat /\ jobs[j].priority \in Nat
            BY <2>1 DEF TypeOK, JobState
        <2>3. ~ (jobs[j].priority < jobs[resource[r].running].priority)
            BY <1>1, <1>3 DEF KernelInv, ScheduleSound
        <2>. QED  BY <2>2, <2>3
    <1>. QED  BY <1>2, <1>3

\* Past the checks of a tick no verdict up to it is open.
LEMMA VerdictsAreGiven == KernelInv => DeadlineVerdicts
    <1>. DEFINE passed == IF stage = "finished" THEN config.stop ELSE tick
    <1>. SUFFICES ASSUME KernelInv, stage \in {"schedule", "act", "between", "finished"},
                         NEW j \in Released
                  PROVE  jobs[j].missed <=>
                             /\ jobs[j].deadline <= passed
                             /\ Active(j) \/ jobs[j].finish > jobs[j].deadline
        BY DEF DeadlineVerdicts
    <1>1. /\ TypeOK /\ tick \in Nat /\ config.stop \in Nat /\ tick <= config.stop
          /\ jobs[j].deadline \in Nat /\ jobs[j].finish \in Int
        BY ConfigType DEF KernelInv, StateInv, PositionSound, TypeOK, JobState
    <1>2. Open(j) \/ Judged(j)
        BY DEF KernelInv, DeadlinesSound
    <1>3. CASE Judged(j)
        <2>1. jobs[j].deadline <= passed
            BY <1>1, <1>3 DEF Judged
        <2>. QED  BY <1>3, <2>1 DEF Judged
    <1>4. CASE Open(j)
        <2>1. ASSUME jobs[j].deadline <= passed PROVE FALSE
            <3>1. jobs[j].deadline <= config.stop
                BY <1>1, <2>1
            <3>2. PICK e \in Of(queue, "DeadlineCheck") : JobOf(e) = j
                BY <1>4, <3>1 DEF Open
            <3>3. e.tick = jobs[j].deadline /\ e \in queue.events /\ e.phase = "DeadlineCheck"
                BY <3>2 DEF KernelInv, DeadlinesSound, Of
            <3>4. CASE stage = "finished"
                BY <1>1, <3>1, <3>3, <3>4 DEF KernelInv, PositionSound
            <3>5. CASE stage # "finished"
                <4>1. e.tick = tick
                    BY <1>1, <1>4, <2>1, <3>3, <3>5 DEF Open
                <4>2. trace # <<>>
                    BY DEF KernelInv, PositionSound
                <4>3. CASE stage = "between"
                    BY <1>1, <3>3, <4>1, <4>2, <4>3 DEF KernelInv, NothingInThePast
                <4>4. CASE stage \in {"schedule", "act"}
                    BY <3>3, <4>1, <4>4, Precedences DEF KernelInv, NothingInThePast
                <4>. QED  BY <3>5, <4>3, <4>4
            <3>. QED  BY <3>4, <3>5
        <2>2. ~ jobs[j].missed
            BY <1>4 DEF Open
        <2>. QED  BY <2>1, <2>2
    <1>. QED  BY <1>2, <1>3, <1>4

\* The pending events are exactly those the engine still has to see, in every reachable
\* state: no completion of a running job is lost or taken early, no release is lost or
\* doubled, nothing is processed late, and none of the throws that guard the kernel against
\* its own state is reached (simulation_engine.cpp:181-283, scheduler.cpp:133-262).
THEOREM PendingEventsSound == Spec => []CandidatesSound
    <1>1. KernelInv => CandidatesSound
        BY CompletionIsQueued, OneReleaseIsPending DEF KernelInv, CandidatesSound
    <1>. QED  BY <1>1, KernelInvariance, PTL

\* After every tick the schedule is the policy's, and every job whose deadline is past is
\* marked missed exactly if it had not completed by it (schedule(), scheduler.cpp:224-262;
\* mark_deadline_missed, runtime_state.cpp:49-61).
THEOREM DecisionsAndVerdicts == Spec => []DecisionsSound
    <1>1. KernelInv => DecisionsSound
        BY PolicyIsRespected, VerdictsAreGiven DEF DecisionsSound
    <1>. QED  BY <1>1, KernelInvariance, PTL

\* A running interval ends exactly when the job's remaining work is done, and that moment is
\* never overtaken (start_job and charge_execution, runtime_state.cpp:80-180).
THEOREM ExecutionIntervals == Spec => []IntervalsExact
    <1>1. KernelInv => IntervalsExact
        BY DEF KernelInv
    <1>. QED  BY <1>1, KernelInvariance, PTL

=============================================================================
