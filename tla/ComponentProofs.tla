--------------------------- MODULE ComponentProofs ---------------------------
(***************************************************************************)
(* Proofs about four components that keep their promises alone.            *)
(*                                                                         *)
(* The event queue: for every sequence domain, every set of phases and any *)
(* producers, a sequence value identifies one event and an event is        *)
(* overtaken only by later insertions.                                     *)
(*                                                                         *)
(* The FMI importer: whatever a slave answers, the calls it sees are in    *)
(* the order its interface documents, and the lifecycle the importer's     *)
(* caller sees is the one the slave is in.                                 *)
(*                                                                         *)
(* The completed-run finalizer: for any set of generations and runs, its   *)
(* invariants, and that it implements ResultService.                       *)
(*                                                                         *)
(* The document under edit: for any project and any values typed into the  *)
(* editors, every edit, undo, save and reopening leaves a draft that is    *)
(* closed, a selection that exists and projects that can run.              *)
(***************************************************************************)
EXTENDS EventQueueAllocator, Fmi2Importer, FinalizerClient, DocumentEditing,
        FiniteSetTheorems, SequenceTheorems, WellFoundedInduction, TLAPS

-----------------------------------------------------------------------------
(* The event queue. *)

\* f should not be taken after e, by tick and documented phase.
NotAfter(f, e) == f.tick < e.tick \/ (f.tick = e.tick /\ Rank(f.phase) <= Rank(e.phase))

\* The allocator counts in its domain, and stays at the last value when that is used up.
AllocatorSound ==
    /\ queue \in EventQueueState
    /\ taken \in Seq(Event)
    /\ exhausted \in BOOLEAN
    /\ queue.next_sequence <= MaxSequence
    /\ exhausted => queue.next_sequence = MaxSequence

\* What is still pending overtakes nothing that was taken, unless it was inserted later.
PendingInOrder ==
    \A i \in DOMAIN taken : \A f \in queue.events :
        NotAfter(f, taken[i]) => f.sequence > taken[i].sequence

\* The inductive invariant of the queue.
QueueInv ==
    /\ AllocatorSound
    /\ SequencesIdentifyEvents
    /\ PendingInOrder
    /\ OvertakenOnlyByLateInsertion

-----------------------------------------------------------------------------
(* The documented order is the order of the code. *)

\* Both number the phases in the same order, the document from one and the code from zero.
LEMMA RankIsPrecedence ==
    ASSUME NEW phase \in EventPhase
    PROVE  PhasePrecedence(phase) \in Nat /\ Rank(phase) = PhasePrecedence(phase) + 1
    <1>1. DOMAIN DocumentedOrder = 1 .. 8
        BY DEF DocumentedOrder
    <1>2. /\ DocumentedOrder[1] = "ExecutionCompletion" /\ DocumentedOrder[2] = "MessageDelivery"
          /\ DocumentedOrder[3] = "DeadlineCheck" /\ DocumentedOrder[4] = "JobRelease"
          /\ DocumentedOrder[5] = "PolicyUpdate" /\ DocumentedOrder[6] = "Scheduling"
          /\ DocumentedOrder[7] = "CausedAction" /\ DocumentedOrder[8] = "CausedActionLate"
        BY DEF DocumentedOrder
    <1>3. \A i \in 1 .. 8 : i \in {1, 2, 3, 4, 5, 6, 7, 8}
        OBVIOUS
    <1>4. PICK n \in 1 .. 8 : DocumentedOrder[n] = phase /\ n = PhasePrecedence(phase) + 1
        BY <1>2 DEF EventPhase, PhasePrecedence
    <1>5. \A i \in 1 .. 8 : DocumentedOrder[i] = phase => i = n
        BY <1>2, <1>3, <1>4
    <1>6. Rank(phase) = n
        BY <1>1, <1>4, <1>5 DEF Rank
    <1>7. PhasePrecedence(phase) \in Nat
        BY DEF EventPhase, PhasePrecedence
    <1>. QED  BY <1>4, <1>6, <1>7

\* The event that is taken is before every other one, or was inserted first.
LEMMA NextIsNotOvertaken ==
    ASSUME AllocatorSound, NEW e \in queue.events, IsNextEvent(queue, e),
           NEW f \in queue.events, NotAfter(f, e)
    PROVE  f.sequence >= e.sequence
    <1>1. e \in Event /\ f \in Event
        BY DEF AllocatorSound, EventQueueState
    <1>2. /\ e.tick \in Nat /\ f.tick \in Nat /\ e.sequence \in Nat /\ f.sequence \in Nat
          /\ e.phase \in EventPhase /\ f.phase \in EventPhase
        BY <1>1 DEF Event
    <1>3. ~ LaterEvent(e, f)
        BY DEF IsNextEvent
    <1>4. /\ PhasePrecedence(e.phase) \in Nat /\ Rank(e.phase) = PhasePrecedence(e.phase) + 1
          /\ PhasePrecedence(f.phase) \in Nat /\ Rank(f.phase) = PhasePrecedence(f.phase) + 1
        BY <1>2, RankIsPrecedence
    <1>. QED  BY <1>2, <1>3, <1>4 DEF LaterEvent, NotAfter

-----------------------------------------------------------------------------
(* The steps of the queue. *)

\* An empty queue has handed out nothing.
LEMMA InitQueueInv == QueueInit => QueueInv
    <1>. SUFFICES ASSUME QueueInit PROVE QueueInv
        OBVIOUS
    <1>1. /\ queue.events = {} /\ queue.next_sequence = 0 /\ taken = <<>> /\ exhausted = FALSE
          /\ queue = [events |-> {}, next_sequence |-> 0]
        BY DEF QueueInit, EmptyQueue
    <1>2. DOMAIN taken = {} /\ Taken = {}
        BY <1>1 DEF Taken
    <1>3. AllocatorSound
        <2>1. queue \in EventQueueState
            BY <1>1 DEF EventQueueState
        <2>2. taken \in Seq(Event)
            BY <1>1
        <2>3. exhausted \in BOOLEAN /\ ~ exhausted
            BY <1>1
        <2>4. queue.next_sequence <= MaxSequence
            BY <1>1, AllocatorAssumption
        <2>. QED  BY <2>1, <2>2, <2>3, <2>4 DEF AllocatorSound
    <1>4. SequencesIdentifyEvents
        BY <1>1, <1>2 DEF SequencesIdentifyEvents
    <1>. QED  BY <1>2, <1>3, <1>4 DEF QueueInv, PendingInOrder, OvertakenOnlyByLateInsertion

\* An accepted insertion gets a value no event has had, and the largest one.
LEMMA ScheduleQueueInv ==
    ASSUME QueueInv, NEW tick \in Int, NEW phase \in Phases, NEW cause \in Int,
           Schedule(tick, phase, cause)
    PROVE  QueueInv'
    <1>. DEFINE n == queue.next_sequence
                inserted == Scheduled(queue, tick, phase, "JobRelease", NoEntities, cause)
    <1>1. /\ AllocatorSound /\ ~ exhausted /\ tick \in Nat /\ cause < n /\ taken' = taken
          /\ queue' = IF n = MaxSequence THEN [inserted EXCEPT !.next_sequence = @ - 1] ELSE inserted
          /\ exhausted' = (n = MaxSequence)
        BY DEF QueueInv, Schedule, Constructible
    <1>2. n \in Nat /\ n <= MaxSequence /\ MaxSequence \in Nat /\ queue.events \subseteq Event
        BY <1>1, AllocatorAssumption DEF AllocatorSound, EventQueueState
    <1>3. PICK e : e = ScheduledEvent(queue, tick, phase, "JobRelease", NoEntities, cause)
        OBVIOUS
    <1>4. /\ e \in Event /\ e.sequence = n /\ e.cause = cause
        <2>1. NoEntities \in Entities /\ "JobRelease" \in EventType /\ phase \in EventPhase
            BY AllocatorAssumption DEF NoEntities, Entities, Absent, EventType
        <2>. QED  BY <1>1, <1>2, <1>3, <2>1 DEF ScheduledEvent, Event
    <1>5. inserted = [events |-> queue.events \cup {e}, next_sequence |-> n + 1]
        BY <1>3 DEF Scheduled
    <1>. HIDE DEF inserted
    <1>6. queue' = [events |-> queue.events \cup {e},
                    next_sequence |-> IF n = MaxSequence THEN n ELSE n + 1]
        <2>. DEFINE held == queue.events \cup {e}
        <2>1. inserted = [events |-> held, next_sequence |-> n + 1] /\ (n + 1) - 1 = n
            BY <1>2, <1>5
        <2>. HIDE DEF held
        <2>2. [inserted EXCEPT !.next_sequence = @ - 1] = [events |-> held, next_sequence |-> n]
            BY <2>1
        <2>. QED  BY <1>1, <2>1, <2>2 DEF held
    <1>7. /\ queue'.events = queue.events \cup {e}
          /\ queue'.next_sequence = IF n = MaxSequence THEN n ELSE n + 1
        BY <1>6
    <1>. HIDE DEF n
    <1>8. AllocatorSound'
        <2>1. queue'.next_sequence \in Nat /\ queue'.next_sequence <= MaxSequence
            BY <1>2, <1>7
        <2>2. queue' \in EventQueueState
            BY <1>2, <1>4, <1>6, <1>7, <2>1 DEF EventQueueState
        <2>. QED  BY <1>1, <1>7, <2>1, <2>2 DEF AllocatorSound
    <1>9. Taken' = Taken /\ \A x \in queue.events \cup Taken : x \in Event
        BY <1>1, <1>2 DEF Taken, AllocatorSound
    <1>10. \A x \in queue.events \cup Taken : x.sequence \in 0 .. n - 1
        BY <1>1 DEF QueueInv, SequencesIdentifyEvents, n
    <1>11. SequencesIdentifyEvents'
        <2>1. (queue.events \cup Taken)' = (queue.events \cup Taken) \cup {e}
            BY <1>7, <1>9
        <2>. DEFINE A == queue.events \cup Taken
        <2>2. /\ \A x, y \in A : x.sequence = y.sequence => x = y
              /\ {x.sequence : x \in A} = 0 .. n - 1
              /\ \A x \in A : x.cause < x.sequence
            BY <1>1 DEF QueueInv, SequencesIdentifyEvents, n
        <2>. HIDE DEF A
        <2>3. \A x \in A : x.sequence \in 0 .. n - 1
            BY <1>10 DEF A
        <2>4. \A x, y \in A \cup {e} : x.sequence = y.sequence => x = y
            BY <1>2, <1>4, <2>2, <2>3
        <2>5. {x.sequence : x \in A \cup {e}} = {x.sequence : x \in A} \cup {n}
            BY <1>4
        <2>6. 0 .. n - 1 \cup {n} = 0 .. n
            BY <1>2
        <2>7. {x.sequence : x \in A \cup {e}} =
                  IF exhausted' THEN 0 .. MaxSequence ELSE 0 .. queue'.next_sequence - 1
            <3>1. {x.sequence : x \in A \cup {e}} = 0 .. n
                BY <2>2, <2>5, <2>6
            <3>2. CASE n = MaxSequence
                BY <1>1, <3>1, <3>2 DEF n
            <3>3. CASE n # MaxSequence
                <4>1. queue'.next_sequence - 1 = n
                    BY <1>2, <1>7, <3>3
                <4>2. ~ exhausted'
                    BY <1>1, <3>3 DEF n
                <4>. QED  BY <3>1, <4>1, <4>2
            <3>. QED  BY <3>2, <3>3
        <2>8. \A x \in A \cup {e} : x.cause < x.sequence
            BY <1>1, <1>4, <2>2
        <2>. QED  BY <2>1, <2>4, <2>7, <2>8 DEF SequencesIdentifyEvents, A
    <1>12. PendingInOrder'
        <2>1. ASSUME NEW i \in DOMAIN taken, NEW f \in queue.events \cup {e}, NotAfter(f, taken[i])
              PROVE  f.sequence > taken[i].sequence
            <3>1. CASE f = e
                <4>1. taken[i] \in Taken
                    BY DEF Taken
                <4>. QED  BY <1>2, <1>4, <1>10, <3>1, <4>1
            <3>2. CASE f # e
                BY <2>1, <3>2 DEF QueueInv, PendingInOrder
            <3>. QED  BY <3>1, <3>2
        <2>. QED  BY <1>1, <1>7, <2>1 DEF PendingInOrder, NotAfter
    <1>13. OvertakenOnlyByLateInsertion'
        BY <1>1 DEF QueueInv, OvertakenOnlyByLateInsertion
    <1>. QED  BY <1>8, <1>11, <1>12, <1>13 DEF QueueInv

\* Taking the earliest event keeps the order with what was and what will be taken.
LEMMA PopNextQueueInv == ASSUME QueueInv, PopNext PROVE QueueInv'
    <1>1. PICK e \in queue.events : /\ IsNextEvent(queue, e) /\ queue' = Popped(queue, e)
                                    /\ taken' = Append(taken, e) /\ exhausted' = exhausted
        BY DEF PopNext
    <1>2. AllocatorSound /\ queue.events \subseteq Event /\ taken \in Seq(Event) /\ e \in Event
        BY DEF QueueInv, AllocatorSound, EventQueueState
    <1>3. /\ queue'.events = queue.events \ {e} /\ queue'.next_sequence = queue.next_sequence
          /\ queue' \in EventQueueState
        BY <1>1, <1>2 DEF Popped, AllocatorSound, EventQueueState
    <1>. DEFINE last == Len(taken) + 1
    <1>4. /\ last \in Nat /\ last >= 1 /\ DOMAIN taken = 1 .. last - 1 /\ DOMAIN taken' = 1 .. last
          /\ taken' \in Seq(Event) /\ taken'[last] = e
          /\ \A i \in DOMAIN taken : taken'[i] = taken[i]
        BY <1>1, <1>2
    <1>. HIDE DEF last
    <1>5. DOMAIN taken' = DOMAIN taken \cup {last} /\ last \notin DOMAIN taken
        BY <1>4
    <1>6. AllocatorSound'
        BY <1>1, <1>2, <1>3, <1>4 DEF AllocatorSound
    <1>7. Taken' = Taken \cup {e}
        BY <1>4, <1>5 DEF Taken
    <1>8. (queue.events \cup Taken)' = queue.events \cup Taken
        BY <1>3, <1>7
    <1>9. SequencesIdentifyEvents'
        BY <1>1, <1>3, <1>8 DEF QueueInv, SequencesIdentifyEvents
    <1>10. \A x, y \in queue.events : x.sequence = y.sequence => x = y
        BY DEF QueueInv, SequencesIdentifyEvents
    <1>11. PendingInOrder'
        <2>1. ASSUME NEW i \in DOMAIN taken', NEW f \in queue'.events, NotAfter(f, taken'[i])
              PROVE  f.sequence > taken'[i].sequence
            <3>1. CASE i = last
                <4>1. f \in queue.events /\ f # e /\ NotAfter(f, e)
                    BY <1>3, <1>4, <2>1, <3>1
                <4>2. f.sequence >= e.sequence
                    BY <1>1, <1>2, <4>1, NextIsNotOvertaken
                <4>3. f.sequence \in Nat /\ e.sequence \in Nat /\ f.sequence # e.sequence
                    BY <1>2, <1>10, <4>1 DEF Event
                <4>. QED  BY <1>4, <3>1, <4>2, <4>3
            <3>2. CASE i # last
                BY <1>3, <1>4, <1>5, <2>1, <3>2 DEF QueueInv, PendingInOrder
            <3>. QED  BY <3>1, <3>2
        <2>. QED  BY <2>1 DEF PendingInOrder, NotAfter
    <1>12. OvertakenOnlyByLateInsertion'
        <2>1. ASSUME NEW i \in DOMAIN taken', NEW j \in DOMAIN taken', i < j,
                     NotAfter(taken'[j], taken'[i])
              PROVE  taken'[j].sequence > taken'[i].sequence
            <3>1. i \in DOMAIN taken
                BY <1>4, <2>1
            <3>2. CASE j = last
                BY <1>1, <1>4, <2>1, <3>1, <3>2 DEF QueueInv, PendingInOrder
            <3>3. CASE j # last
                <4>1. j \in DOMAIN taken /\ taken'[j] = taken[j] /\ taken'[i] = taken[i]
                    BY <1>4, <1>5, <3>1, <3>3
                <4>. QED  BY <2>1, <3>1, <4>1 DEF QueueInv, OvertakenOnlyByLateInsertion, NotAfter
            <3>. QED  BY <3>2, <3>3
        <2>. QED  BY <2>1 DEF OvertakenOnlyByLateInsertion, NotAfter
    <1>. QED  BY <1>6, <1>9, <1>11, <1>12 DEF QueueInv

\* Every step of the queue preserves the invariant.
LEMMA NextQueueInv == QueueInv /\ [QueueNext]_queueVars => QueueInv'
    <1>. SUFFICES ASSUME QueueInv, [QueueNext]_queueVars PROVE QueueInv'
        OBVIOUS
    <1>1. CASE UNCHANGED queueVars
        BY <1>1 DEF queueVars, QueueInv, AllocatorSound, SequencesIdentifyEvents, Taken, PendingInOrder,
                    OvertakenOnlyByLateInsertion
    <1>2. ASSUME NEW tick \in -1 .. MaxOfferedTick, NEW phase \in Phases, NEW cause \in OfferedCauses,
                 Schedule(tick, phase, cause)
          PROVE  QueueInv'
        <2>1. tick \in Int /\ cause \in Int
            BY AllocatorAssumption DEF OfferedCauses, Absent
        <2>. QED  BY <1>2, <2>1, ScheduleQueueInv
    <1>3. ASSUME NEW tick, NEW cause, ScheduleRejected(tick, cause) PROVE QueueInv'
        BY <1>1, <1>3 DEF ScheduleRejected
    <1>. QED  BY <1>1, <1>2, <1>3, PopNextQueueInv DEF QueueNext

\* For every sequence domain and any order of insertions and removals, a sequence value
\* identifies one accepted event, none is lost to a rejected insertion, and an event is
\* overtaken only by later insertions (event_queue.cpp:54-93).
THEOREM QueueKeepsItsPromises == QueueSpec => []QueueSound
    <1>1. QueueInv => QueueSound
        BY DEF QueueInv, QueueSound
    <1>. QED  BY <1>1, InitQueueInv, NextQueueInv, PTL DEF QueueSpec

-----------------------------------------------------------------------------
(* The FMI importer. *)

States == {"absent", "created", "configured", "initializing", "failed", "stepping", "terminated", "freed"}
Living == {"created", "configured", "initializing", "failed", "stepping", "terminated"}

\* The instances as the protocol counts them.
LEMMA ProtocolStates == Protocol!SlaveStates = States /\ Protocol!Alive = Living
    BY DEF Protocol!SlaveStates, Protocol!Alive, States, Living

ImporterState ==
    [lifecycle : {"None", "Loaded", "Initialized", "Terminated"}, component : InstanceIds \cup {0},
     pc : {"idle", "unwind", "gone", "setup", "enter", "assign", "initialized", "rollback", "free", "destroy"},
     assigned : Nat, completed : {"Ok", "Warning"}, warned : BOOLEAN, result : Statuses,
     out : {"old", "new"}]

ImporterTypeOK ==
    /\ importer \in ImporterState
    /\ library \in {"open", "closed"}
    /\ slave \in [InstanceIds -> States]

\* The importer's component is the only living instance, and it is in this state.
Sole(state) ==
    /\ library = "open"
    /\ importer.component \in InstanceIds /\ slave[importer.component] = state
    /\ \A i \in InstanceIds : i # importer.component => slave[i] \notin Living

NoneLives == \A i \in InstanceIds : slave[i] \notin Living

\* What the importer's place between two calls says about the slave.
CallsInOrder ==
    /\ importer.pc = "idle" =>
           /\ importer.lifecycle = "Initialized" => Sole("stepping")
           /\ importer.lifecycle # "Initialized" => importer.component = 0 /\ NoneLives
           /\ importer.lifecycle # "None" => library = "open"
    /\ importer.pc \in {"setup", "enter", "assign", "initialized", "rollback"} =>
           importer.lifecycle = "Loaded"
    /\ importer.pc = "setup" => Sole("created")
    /\ importer.pc = "enter" => Sole("configured")
    /\ importer.pc = "assign" => Sole("initializing")
    /\ importer.pc = "initialized" => Sole("stepping")
    /\ importer.pc = "rollback" => Sole("failed")
    /\ importer.pc \in {"free", "destroy"} => Sole("terminated")
    /\ importer.pc = "unwind" => library = "open" /\ NoneLives

\* The inductive invariant of the importer.
ImporterInv ==
    /\ ImporterTypeOK
    /\ CallsInOrder
    /\ ~ fault
    /\ importer.completed = "Warning" <=> importer.warned

ProtocolStep == [Protocol!ProtocolNext]_(Protocol!protocolVars)

-----------------------------------------------------------------------------
(* What a call does to the slave. *)

\* A call into the living component moves that instance, and no other.
LEMMA CalledMoves ==
    ASSUME ImporterInv, NEW from \in Living, NEW to \in States, Sole(from), Called(to),
           library' = library
    PROVE  /\ fault' = fault /\ slave' \in [InstanceIds -> States] /\ library' = "open"
           /\ slave'[importer.component] = to
           /\ \A i \in InstanceIds : i # importer.component => slave'[i] \notin Living
           /\ to \notin Living => NoneLives'
           /\ importer'.component = importer.component => Sole(to)'
           /\ from = to => slave' = slave
           /\ Protocol!Moves({from}, to)
    <1>. DEFINE c == importer.component
    <1>1. c \in InstanceIds /\ c # 0 /\ slave[c] = from /\ slave \in [InstanceIds -> States]
        BY ImporterAssumption DEF ImporterInv, ImporterTypeOK, Sole
    <1>2. slave' = [slave EXCEPT ![c] = to] /\ fault' = fault
        BY <1>1 DEF Called, Living
    <1>3. \A i \in InstanceIds : i # c => slave[i] \notin Living
        BY DEF Sole
    <1>4. library = "open" /\ library' = "open"
        BY DEF Sole
    <1>. HIDE DEF c
    <1>5. /\ slave' \in [InstanceIds -> States] /\ slave'[c] = to
          /\ \A i \in InstanceIds : i # c => slave'[i] = slave[i]
        BY <1>1, <1>2
    <1>6. \A i \in InstanceIds : i # c => slave'[i] \notin Living
        BY <1>3, <1>5
    <1>7. to \notin Living => NoneLives'
        BY <1>5, <1>6 DEF NoneLives
    <1>8. importer'.component = c => Sole(to)'
        BY <1>1, <1>4, <1>5, <1>6 DEF Sole
    <1>9. from = to => slave' = slave
        BY <1>1, <1>2
    <1>10. Protocol!Moves({from}, to)
        BY <1>1, <1>2, <1>4 DEF Protocol!Moves
    <1>. QED  BY <1>2, <1>4, <1>5, <1>6, <1>7, <1>8, <1>9, <1>10 DEF c

\* A step that calls nothing is none of the slave's.
LEMMA NothingCalled ==
    ASSUME UNCHANGED <<slave, library>>
    PROVE  ProtocolStep /\ (NoneLives => NoneLives')
           /\ \A state : Sole(state) /\ importer'.component = importer.component => Sole(state)'
    BY DEF ProtocolStep, Protocol!protocolVars, NoneLives, Sole

\* The Warning of a call is kept.
LEMMA WarningIsKept ==
    ASSUME ImporterInv, NEW answer \in {"Ok", "Warning"}
    PROVE  /\ After(answer) \in {"Ok", "Warning"}
           /\ (After(answer) = "Warning") <=> (importer.warned \/ answer = "Warning")
    BY DEF ImporterInv, ImporterTypeOK, ImporterState, After

-----------------------------------------------------------------------------
(* Loading, and calls outside of a lifecycle phase. *)

\* Nothing is loaded and nothing lives.
LEMMA InitImporterInv == ImporterInit => ImporterInv /\ Protocol!ProtocolInit
    <1>. SUFFICES ASSUME ImporterInit PROVE ImporterInv /\ Protocol!ProtocolInit
        OBVIOUS
    <1>1. ImporterTypeOK
        BY DEF ImporterInit, ImporterTypeOK, ImporterState, Statuses, States
    <1>2. CallsInOrder
        BY DEF ImporterInit, CallsInOrder, NoneLives, Living
    <1>. QED  BY <1>1, <1>2 DEF ImporterInit, ImporterInv, Protocol!ProtocolInit

\* The library is opened first and closed last.
LEMMA LibraryStep ==
    ASSUME ImporterInv, Construct \/ Unwind
    PROVE  ImporterInv' /\ ProtocolStep
    <1>1. slave' = slave /\ fault' = fault /\ importer \in ImporterState
        BY DEF Construct, Unwind, ImporterInv, ImporterTypeOK
    <1>2. CASE Construct
        <2>1. /\ importer.component = 0 /\ NoneLives /\ library = "closed" /\ library' = "open"
              /\ importer.lifecycle = "None" /\ importer.pc = "idle"
            BY <1>2 DEF Construct, ImporterInv, CallsInOrder
        <2>2. /\ importer' \in ImporterState /\ importer'.component = 0
              /\ importer'.completed = importer.completed /\ importer'.warned = importer.warned
              /\ \/ importer'.lifecycle = "Loaded" /\ importer'.pc = "idle"
                 \/ importer'.lifecycle = "None" /\ importer'.pc = "unwind"
            BY <1>1, <1>2, <2>1 DEF Construct, ImporterState
        <2>3. NoneLives'
            BY <1>1, <2>1 DEF NoneLives
        <2>4. ProtocolStep
            BY <1>1, <2>1 DEF ProtocolStep, Protocol!ProtocolNext, Protocol!Open
        <2>. QED  BY <1>1, <2>1, <2>2, <2>3, <2>4 DEF ImporterInv, ImporterTypeOK, CallsInOrder
    <1>3. CASE Unwind
        <2>1. NoneLives /\ library = "open" /\ library' = "closed"
            BY <1>3 DEF Unwind, ImporterInv, CallsInOrder
        <2>2. /\ importer' \in ImporterState /\ importer'.pc = "gone"
              /\ importer'.completed = importer.completed /\ importer'.warned = importer.warned
            BY <1>1, <1>3 DEF Unwind, ImporterState
        <2>3. ProtocolStep
            BY <1>1, <2>1, ProtocolStates DEF ProtocolStep, Protocol!ProtocolNext, Protocol!Close, NoneLives
        <2>. QED  BY <1>1, <2>1, <2>2, <2>3 DEF ImporterInv, ImporterTypeOK, CallsInOrder
    <1>. QED  BY <1>2, <1>3

\* A call that the importer answers itself, or that leaves the slave in the same state.
LEMMA AnswerStep ==
    ASSUME ImporterInv, Idle, NEW answer \in Statuses, NEW out \in {"old", "new"},
           importer' = [importer EXCEPT !.result = answer, !.out = out],
           UNCHANGED <<slave, library, fault>>
    PROVE  ImporterInv' /\ ProtocolStep
    <1>1. importer \in ImporterState
        BY DEF ImporterInv, ImporterTypeOK
    <1>2. /\ importer' \in ImporterState /\ importer'.component = importer.component
          /\ importer'.pc = importer.pc /\ importer'.lifecycle = importer.lifecycle
          /\ importer'.completed = importer.completed /\ importer'.warned = importer.warned
        BY <1>1 DEF ImporterState
    <1>3. ProtocolStep /\ (NoneLives => NoneLives') /\ (Sole("stepping") => Sole("stepping")')
        BY <1>2, NothingCalled
    <1>4. CallsInOrder'
        BY <1>2, <1>3 DEF ImporterInv, CallsInOrder, Idle
    <1>. QED  BY <1>2, <1>3, <1>4 DEF ImporterInv, ImporterTypeOK

\* Every call a caller may make in a lifecycle that does not change it.
LEMMA RuntimeCallStep ==
    ASSUME ImporterInv, RefuseInitialize \/ Refused \/ RefuseStep \/ WriteOrStep \/ Read
    PROVE  ImporterInv' /\ ProtocolStep
    <1>1. Idle /\ importer \in ImporterState /\ importer.out \in {"old", "new"}
        BY DEF RefuseInitialize, Refused, RefuseStep, WriteOrStep, Read, ImporterInv, ImporterTypeOK,
               ImporterState
    <1>2. \A answer \in Statuses : [importer EXCEPT !.result = answer]
                                       = [importer EXCEPT !.result = answer, !.out = importer.out]
        BY <1>1 DEF ImporterState
    <1>3. CASE RefuseInitialize \/ Refused \/ RefuseStep
        <2>1. "Failed" \in Statuses /\ UNCHANGED <<slave, library, fault>>
              /\ importer' = [importer EXCEPT !.result = "Failed", !.out = importer.out]
            BY <1>2, <1>3 DEF RefuseInitialize, Refused, RefuseStep, Answer, Untouched, Statuses
        <2>. QED  BY <1>1, <2>1, AnswerStep
    <1>4. CASE WriteOrStep \/ Read
        <2>1. /\ importer.lifecycle = "Initialized" /\ Called("stepping") /\ library' = library
              /\ \E answer \in Statuses, out \in {"old", "new"} :
                     importer' = [importer EXCEPT !.result = answer, !.out = out]
            <3>1. CASE WriteOrStep
                BY <1>1, <1>2, <3>1 DEF WriteOrStep, Answer
            <3>2. CASE Read
                <4>1. \E answer \in Statuses :
                          \/ importer' = [importer EXCEPT !.result = answer, !.out = "new"]
                          \/ importer' = [importer EXCEPT !.result = answer, !.out = importer.out]
                    BY <1>2, <3>2 DEF Read, Answer, Statuses
                <4>. QED  BY <1>1, <3>2, <4>1 DEF Read
            <3>. QED  BY <1>4, <3>1, <3>2
        <2>2. Sole("stepping")
            BY <1>1, <2>1 DEF ImporterInv, CallsInOrder, Idle
        <2>3. slave' = slave /\ fault' = fault
            BY <2>1, <2>2, CalledMoves DEF Living, States
        <2>. QED  BY <1>1, <2>1, <2>3, AnswerStep
    <1>. QED  BY <1>3, <1>4

-----------------------------------------------------------------------------
(* The life of an instance. *)

\* What the protocol lets a master do to a living instance.
LEMMA AllowedMoves ==
    ASSUME NEW from, NEW to, Protocol!Moves({from}, to),
           \/ from = "created" /\ to \in {"configured", "failed"}
           \/ from = "configured" /\ to \in {"initializing", "failed"}
           \/ from = "initializing" /\ to \in {"stepping", "failed"}
           \/ from = "stepping" /\ to = "terminated"
           \/ from \in {"failed", "terminated"} /\ to = "freed"
    PROVE  ProtocolStep
    <1>1. \A S : from \in S => Protocol!Moves(S, to)
        BY DEF Protocol!Moves
    <1>2. CASE from \in {"created", "configured", "initializing"} /\ to = "failed"
        BY <1>1, <1>2 DEF ProtocolStep, Protocol!ProtocolNext, Protocol!Fail
    <1>3. CASE to # "failed"
        BY <1>1, <1>3 DEF ProtocolStep, Protocol!ProtocolNext, Protocol!Setup, Protocol!Enter,
                          Protocol!Exit, Protocol!Terminate, Protocol!Free
    <1>. QED  BY <1>2, <1>3

\* An instance is created when none lives; fmi2Instantiate may also return null.
LEMMA BeginInitializeStep ==
    ASSUME ImporterInv, BeginInitialize
    PROVE  ImporterInv' /\ ProtocolStep
    <1>1. /\ Idle /\ importer.lifecycle = "Loaded" /\ importer \in ImporterState
          /\ importer.out \in {"old", "new"} /\ slave \in [InstanceIds -> States]
        BY DEF BeginInitialize, ImporterInv, ImporterTypeOK, ImporterState
    <1>2. NoneLives /\ library = "open"
        BY <1>1 DEF ImporterInv, CallsInOrder, Idle
    <1>3. CASE Answer("Failed") /\ Untouched
        <2>1. /\ importer' = [importer EXCEPT !.result = "Failed", !.out = importer.out]
              /\ "Failed" \in Statuses /\ UNCHANGED <<slave, library, fault>>
            BY <1>1, <1>3 DEF Answer, Untouched, Statuses, ImporterState
        <2>. QED  BY <1>1, <2>1, AnswerStep
    <1>4. ASSUME NEW i \in InstanceIds, slave[i] = "absent", slave' = [slave EXCEPT ![i] = "created"],
                 importer' = [importer EXCEPT !.component = i, !.pc = "setup", !.completed = "Ok",
                                              !.warned = FALSE, !.assigned = 0],
                 fault' = fault, library' = library
          PROVE  ImporterInv' /\ ProtocolStep
        <2>1. /\ importer' \in ImporterState /\ importer'.pc = "setup" /\ importer'.component = i
              /\ importer'.lifecycle = "Loaded" /\ importer'.completed = "Ok" /\ ~ importer'.warned
            BY <1>1, <1>4 DEF ImporterState
        <2>2. /\ slave' \in [InstanceIds -> States] /\ slave'[i] = "created"
              /\ \A k \in InstanceIds : k # i => slave'[k] \notin Living
            BY <1>1, <1>2, <1>4 DEF NoneLives, States
        <2>3. Sole("created")'
            BY <1>2, <1>4, <2>1, <2>2 DEF Sole
        <2>4. CallsInOrder'
            BY <2>1, <2>3 DEF CallsInOrder
        <2>5. Protocol!Create
            BY <1>2, <1>4, ProtocolStates DEF Protocol!Create, Protocol!Moves, NoneLives
        <2>. QED  BY <1>4, <2>1, <2>2, <2>4, <2>5
                  DEF ImporterInv, ImporterTypeOK, ProtocolStep, Protocol!ProtocolNext
    <1>. QED  BY <1>3, <1>4 DEF BeginInitialize

\* A call of the initialisation moves its instance on, or fails it and the rollback follows.
LEMMA InitializationCallStep ==
    ASSUME ImporterInv, NEW at, NEW next, NEW from \in Living, NEW to \in States,
           InitializationCall(at, next, from, to),
           \/ at = "setup" /\ next = "enter" /\ from = "created" /\ to = "configured"
           \/ at = "enter" /\ next = "assign" /\ from = "configured" /\ to = "initializing"
           \/ at = "assign" /\ next = "initialized" /\ from = "initializing" /\ to = "stepping"
    PROVE  ImporterInv' /\ ProtocolStep
    <1>1. PICK answer \in Statuses :
              /\ importer' = IF Succeeded(answer)
                             THEN [importer EXCEPT !.pc = next, !.completed = After(answer),
                                                   !.warned = importer.warned \/ answer = "Warning"]
                             ELSE [importer EXCEPT !.pc = "rollback"]
              /\ Called(IF Succeeded(answer) THEN to ELSE "failed")
              /\ library' = library
        BY DEF InitializationCall
    <1>2. /\ importer \in ImporterState /\ importer.pc = at /\ ~ fault
          /\ importer.completed = "Warning" <=> importer.warned
        BY DEF ImporterInv, ImporterTypeOK, InitializationCall
    <1>3. Sole(from) /\ importer.lifecycle = "Loaded"
        BY <1>2 DEF ImporterInv, CallsInOrder
    <1>4. CASE Succeeded(answer)
        <2>1. /\ answer \in {"Ok", "Warning"} /\ Called(to)
              /\ importer' = [importer EXCEPT !.pc = next, !.completed = After(answer),
                                              !.warned = importer.warned \/ answer = "Warning"]
            BY <1>1, <1>4 DEF Succeeded, Statuses
        <2>2. After(answer) \in {"Ok", "Warning"}
              /\ (After(answer) = "Warning" <=> importer.warned \/ answer = "Warning")
            BY <2>1, WarningIsKept
        <2>3. /\ importer' \in ImporterState /\ importer'.pc = next
              /\ importer'.component = importer.component /\ importer'.lifecycle = "Loaded"
              /\ importer'.completed = "Warning" <=> importer'.warned
            BY <1>2, <1>3, <2>1, <2>2 DEF ImporterState
        <2>4. /\ fault' = fault /\ slave' \in [InstanceIds -> States] /\ library' = "open"
              /\ Sole(to)' /\ Protocol!Moves({from}, to)
            BY <1>1, <1>3, <2>1, <2>3, CalledMoves
        <2>5. CallsInOrder'
            BY <2>3, <2>4 DEF CallsInOrder
        <2>6. ProtocolStep
            BY <2>4, AllowedMoves
        <2>. QED  BY <1>2, <2>3, <2>4, <2>5, <2>6 DEF ImporterInv, ImporterTypeOK
    <1>5. CASE ~ Succeeded(answer)
        <2>1. importer' = [importer EXCEPT !.pc = "rollback"] /\ Called("failed")
            BY <1>1, <1>5
        <2>2. /\ importer' \in ImporterState /\ importer'.pc = "rollback"
              /\ importer'.component = importer.component /\ importer'.lifecycle = "Loaded"
              /\ importer'.completed = importer.completed /\ importer'.warned = importer.warned
            BY <1>2, <1>3, <2>1 DEF ImporterState
        <2>3. "failed" \in States
            BY DEF States
        <2>4. /\ fault' = fault /\ slave' \in [InstanceIds -> States] /\ library' = "open"
              /\ Sole("failed")' /\ Protocol!Moves({from}, "failed")
            BY <1>1, <1>3, <2>1, <2>2, <2>3, CalledMoves
        <2>5. CallsInOrder'
            BY <2>2, <2>4 DEF CallsInOrder
        <2>6. ProtocolStep
            BY <2>4, AllowedMoves
        <2>. QED  BY <1>2, <2>2, <2>4, <2>5, <2>6 DEF ImporterInv, ImporterTypeOK
    <1>. QED  BY <1>4, <1>5

\* An initial value keeps the instance in initialisation, or fails it.
LEMMA AssignCallStep ==
    ASSUME ImporterInv, AssignCall
    PROVE  ImporterInv' /\ ProtocolStep
    <1>1. PICK answer \in Statuses :
              /\ importer' = IF Succeeded(answer)
                             THEN [importer EXCEPT !.assigned = importer.assigned + 1,
                                                   !.completed = After(answer),
                                                   !.warned = importer.warned \/ answer = "Warning"]
                             ELSE [importer EXCEPT !.pc = "rollback"]
              /\ Called(IF Succeeded(answer) THEN "initializing" ELSE "failed")
              /\ library' = library
        BY DEF AssignCall
    <1>2. /\ importer \in ImporterState /\ importer.pc = "assign" /\ ~ fault
          /\ importer.completed = "Warning" <=> importer.warned
          /\ "initializing" \in Living /\ "initializing" \in States /\ "failed" \in States
        BY DEF ImporterInv, ImporterTypeOK, AssignCall, Living, States
    <1>3. Sole("initializing") /\ importer.lifecycle = "Loaded"
        BY <1>2 DEF ImporterInv, CallsInOrder
    <1>4. CASE Succeeded(answer)
        <2>1. /\ answer \in {"Ok", "Warning"} /\ Called("initializing")
              /\ importer' = [importer EXCEPT !.assigned = importer.assigned + 1,
                                              !.completed = After(answer),
                                              !.warned = importer.warned \/ answer = "Warning"]
            BY <1>1, <1>4 DEF Succeeded, Statuses
        <2>2. After(answer) \in {"Ok", "Warning"}
              /\ (After(answer) = "Warning" <=> importer.warned \/ answer = "Warning")
            BY <2>1, WarningIsKept
        <2>3. importer.assigned + 1 \in Nat
            BY <1>2 DEF ImporterState
        <2>4. /\ importer' \in ImporterState /\ importer'.pc = "assign"
              /\ importer'.component = importer.component /\ importer'.lifecycle = "Loaded"
              /\ importer'.completed = "Warning" <=> importer'.warned
            BY <1>2, <1>3, <2>1, <2>2, <2>3 DEF ImporterState
        <2>5. /\ fault' = fault /\ slave' \in [InstanceIds -> States] /\ slave' = slave
              /\ Sole("initializing")'
            BY <1>1, <1>2, <1>3, <2>1, <2>4, CalledMoves
        <2>6. CallsInOrder'
            BY <2>4, <2>5 DEF CallsInOrder
        <2>7. ProtocolStep /\ library' \in {"open", "closed"}
            BY <1>1, <2>5, NothingCalled DEF ImporterInv, ImporterTypeOK
        <2>. QED  BY <1>2, <2>4, <2>5, <2>6, <2>7 DEF ImporterInv, ImporterTypeOK
    <1>5. CASE ~ Succeeded(answer)
        <2>1. importer' = [importer EXCEPT !.pc = "rollback"] /\ Called("failed")
            BY <1>1, <1>5
        <2>2. /\ importer' \in ImporterState /\ importer'.pc = "rollback"
              /\ importer'.component = importer.component /\ importer'.lifecycle = "Loaded"
              /\ importer'.completed = importer.completed /\ importer'.warned = importer.warned
            BY <1>2, <1>3, <2>1 DEF ImporterState
        <2>3. /\ fault' = fault /\ slave' \in [InstanceIds -> States] /\ library' = "open"
              /\ Sole("failed")' /\ Protocol!Moves({"initializing"}, "failed")
            BY <1>1, <1>2, <1>3, <2>1, <2>2, CalledMoves
        <2>4. CallsInOrder'
            BY <2>2, <2>3 DEF CallsInOrder
        <2>5. ProtocolStep
            BY <2>3, AllowedMoves
        <2>. QED  BY <1>2, <2>2, <2>3, <2>4, <2>5 DEF ImporterInv, ImporterTypeOK
    <1>. QED  BY <1>4, <1>5

\* The caller learns that the instance is stepping.
LEMMA EndInitializeStep ==
    ASSUME ImporterInv, EndInitialize
    PROVE  ImporterInv' /\ ProtocolStep
    <1>1. importer \in ImporterState /\ Sole("stepping") /\ UNCHANGED <<slave, library, fault>>
        BY DEF ImporterInv, ImporterTypeOK, CallsInOrder, EndInitialize, Untouched
    <1>2. /\ importer' \in ImporterState /\ importer'.component = importer.component
          /\ importer'.pc = "idle" /\ importer'.lifecycle = "Initialized"
          /\ importer'.completed = importer.completed /\ importer'.warned = importer.warned
        BY <1>1 DEF EndInitialize, ImporterState, Statuses
    <1>3. ProtocolStep /\ Sole("stepping")'
        BY <1>1, <1>2, NothingCalled
    <1>4. CallsInOrder'
        BY <1>2, <1>3 DEF CallsInOrder, Sole
    <1>. QED  BY <1>1, <1>2, <1>3, <1>4 DEF ImporterInv, ImporterTypeOK

\* An instance is released once, after it failed or was terminated.
LEMMA ReleaseStep ==
    ASSUME ImporterInv, NEW from \in {"failed", "terminated"}, Sole(from), Called("freed"),
           library' = library, importer' \in ImporterState,
           importer'.completed = importer.completed, importer'.warned = importer.warned,
           \/ importer'.pc = "idle" /\ importer'.component = 0
              /\ importer'.lifecycle \in {"Loaded", "Terminated"}
           \/ importer'.pc = "unwind"
    PROVE  ImporterInv' /\ ProtocolStep
    <1>1. from \in Living /\ "freed" \in States /\ "freed" \notin Living
        BY DEF Living, States
    <1>2. /\ fault' = fault /\ slave' \in [InstanceIds -> States] /\ library' = "open"
          /\ NoneLives' /\ Protocol!Moves({from}, "freed")
        BY <1>1, CalledMoves
    <1>3. CallsInOrder'
        BY <1>2 DEF CallsInOrder
    <1>4. ProtocolStep
        BY <1>2, AllowedMoves
    <1>. QED  BY <1>2, <1>3, <1>4 DEF ImporterInv, ImporterTypeOK

\* An instance is terminated only while it steps, and is to be released next.
LEMMA TerminateStep ==
    ASSUME ImporterInv, Idle, importer.lifecycle = "Initialized", NEW pc \in {"free", "destroy"},
           importer' = [importer EXCEPT !.pc = pc], Called("terminated"), library' = library
    PROVE  ImporterInv' /\ ProtocolStep
    <1>1. importer \in ImporterState /\ Sole("stepping")
        BY DEF ImporterInv, ImporterTypeOK, CallsInOrder, Idle
    <1>2. /\ importer' \in ImporterState /\ importer'.component = importer.component
          /\ importer'.pc = pc
          /\ importer'.completed = importer.completed /\ importer'.warned = importer.warned
        BY <1>1 DEF ImporterState
    <1>3. "stepping" \in Living /\ "terminated" \in States
        BY DEF Living, States
    <1>4. /\ fault' = fault /\ slave' \in [InstanceIds -> States] /\ library' = "open"
          /\ Sole("terminated")' /\ Protocol!Moves({"stepping"}, "terminated")
        BY <1>1, <1>2, <1>3, CalledMoves
    <1>5. CallsInOrder'
        BY <1>2, <1>4 DEF CallsInOrder
    <1>6. ProtocolStep
        BY <1>4, AllowedMoves
    <1>. QED  BY <1>2, <1>4, <1>5, <1>6 DEF ImporterInv, ImporterTypeOK

\* The end of an instance, by a failed initialisation, by its caller or by the destructor.
LEMMA EndOfLifeStep ==
    ASSUME ImporterInv, Rollback \/ TerminateCall \/ FreeAfterTerminate \/ Destroy \/ DestroyFree
    PROVE  ImporterInv' /\ ProtocolStep
    <1>1. importer \in ImporterState
        BY DEF ImporterInv, ImporterTypeOK
    <1>2. CASE Rollback
        <2>1. Sole("failed") /\ importer.lifecycle = "Loaded"
            BY <1>2 DEF ImporterInv, CallsInOrder, Rollback
        <2>2. /\ importer' \in ImporterState /\ importer'.pc = "idle" /\ importer'.component = 0
              /\ importer'.lifecycle = "Loaded"
              /\ importer'.completed = importer.completed /\ importer'.warned = importer.warned
            BY <1>1, <1>2, <2>1 DEF Rollback, RolledBack, ImporterState, Statuses
        <2>. QED  BY <1>2, <2>1, <2>2, ReleaseStep DEF Rollback
    <1>3. CASE TerminateCall
        BY <1>3, TerminateStep DEF TerminateCall
    <1>4. CASE FreeAfterTerminate
        <2>1. Sole("terminated")
            BY <1>4 DEF ImporterInv, CallsInOrder, FreeAfterTerminate
        <2>2. /\ importer' \in ImporterState /\ importer'.pc = "idle" /\ importer'.component = 0
              /\ importer'.lifecycle = "Terminated"
              /\ importer'.completed = importer.completed /\ importer'.warned = importer.warned
            BY <1>1, <1>4 DEF FreeAfterTerminate, ImporterState
        <2>. QED  BY <1>4, <2>1, <2>2, ReleaseStep DEF FreeAfterTerminate
    <1>5. CASE Destroy
        <2>1. CASE importer.component = 0
            <3>1. importer.lifecycle # "Initialized" /\ NoneLives /\ library = "open"
                BY <1>5, <2>1, ImporterAssumption DEF ImporterInv, CallsInOrder, Destroy, Idle, Sole
            <3>2. /\ importer' \in ImporterState /\ importer'.pc = "unwind"
                  /\ importer'.completed = importer.completed /\ importer'.warned = importer.warned
                  /\ UNCHANGED <<slave, library, fault>>
                BY <1>1, <1>5, <2>1 DEF Destroy, Untouched, ImporterState
            <3>3. NoneLives' /\ ProtocolStep
                BY <3>1, <3>2, NothingCalled
            <3>4. CallsInOrder'
                BY <3>1, <3>2, <3>3 DEF CallsInOrder
            <3>. QED  BY <3>2, <3>3, <3>4 DEF ImporterInv, ImporterTypeOK
        <2>2. CASE importer.component # 0
            <3>1. importer.lifecycle = "Initialized"
                BY <1>5, <2>2 DEF ImporterInv, CallsInOrder, Destroy, Idle
            <3>. QED  BY <1>5, <2>2, <3>1, TerminateStep DEF Destroy
        <2>. QED  BY <2>1, <2>2
    <1>6. CASE DestroyFree
        <2>1. Sole("terminated")
            BY <1>6 DEF ImporterInv, CallsInOrder, DestroyFree
        <2>2. /\ importer' \in ImporterState /\ importer'.pc = "unwind"
              /\ importer'.completed = importer.completed /\ importer'.warned = importer.warned
            BY <1>1, <1>6 DEF DestroyFree, ImporterState
        <2>. QED  BY <1>6, <2>1, <2>2, ReleaseStep DEF DestroyFree
    <1>. QED  BY <1>2, <1>3, <1>4, <1>5, <1>6

-----------------------------------------------------------------------------
(* The importer and its caller, the importer and the slave. *)

\* Every step of the importer keeps its invariant and is one the protocol allows, or none.
LEMMA ImporterStep == ImporterInv /\ [ImporterNext]_importerVars => ImporterInv' /\ ProtocolStep
    <1>. SUFFICES ASSUME ImporterInv, [ImporterNext]_importerVars PROVE ImporterInv' /\ ProtocolStep
        OBVIOUS
    <1>1. CASE UNCHANGED importerVars
        BY <1>1 DEF importerVars, ImporterInv, ImporterTypeOK, CallsInOrder, Sole, NoneLives,
                    ProtocolStep, Protocol!protocolVars
    <1>2. CASE SetupExperimentCall \/ EnterCall \/ ExitCall
        BY <1>2, InitializationCallStep DEF SetupExperimentCall, EnterCall, ExitCall, Living, States
    <1>. QED  BY <1>1, <1>2, LibraryStep, RuntimeCallStep, BeginInitializeStep, AssignCallStep,
                 EndInitializeStep, EndOfLifeStep DEF ImporterNext

\* Whatever the slave answers, the lifecycle the caller sees is the one the slave is in, no call
\* reaches a null or freed component, and a warning of the initialisation is reported
\* (require_initialized and initialize(), fmi2_importer.cpp).
THEOREM LifecycleIsTheSlaves == ImporterSpec => []LifecycleMatchesSlave
    <1>1. ImporterInv => LifecycleMatchesSlave
        <2>. SUFFICES ASSUME ImporterInv PROVE LifecycleMatchesSlave
            OBVIOUS
        <2>1. ASSUME Idle, importer.lifecycle = "Initialized"
              PROVE  /\ {i \in InstanceIds : slave[i] \in Living} = {importer.component}
                     /\ slave[importer.component] = "stepping"
            BY <2>1 DEF ImporterInv, CallsInOrder, Idle, Sole, Living
        <2>2. ASSUME Idle, importer.lifecycle # "Initialized"
              PROVE  {i \in InstanceIds : slave[i] \in Living} = {} /\ importer.component = 0
            BY <2>2 DEF ImporterInv, CallsInOrder, Idle, NoneLives
        <2>. QED  BY <2>1, <2>2, ProtocolStates DEF ImporterInv, LifecycleMatchesSlave
    <1>. QED  BY <1>1, InitImporterInv, ImporterStep, PTL DEF ImporterSpec

\* The slave library sees the documented order of calls: each instance is set up, initialised,
\* used and released once, and the library is closed last (rollback_initialization and ~Impl,
\* fmi2_importer.cpp).
THEOREM CallsFollowTheProtocol == ImporterSpec => ImplementsSlaveProtocol
    BY InitImporterInv, ImporterStep, PTL
       DEF ImporterSpec, ProtocolStep, ImplementsSlaveProtocol, Protocol!ProtocolSpec


-----------------------------------------------------------------------------
(* The completed-run finalizer. *)


\* Facts about the constants, as the proofs use them.
LEMMA Constants ==
    /\ NoRequest \notin Requests
    /\ NoRequest \notin Generations
    /\ \A r \in Requests : r.generation \in Generations
  BY FinalizerAssumption DEF Requests

\* The initial state satisfies the invariant.
LEMMA InitInv == Init => FinalizerInv
  <1> SUFFICES ASSUME Init PROVE FinalizerInv
    OBVIOUS
  <1>1. /\ call = NoCall /\ status = "Idle" /\ requested = NoRequest /\ result = NoRequest
        /\ error = FALSE /\ wakeup = TRUE /\ worker = NoWorker /\ wakeups = 0 /\ delivered = NoRequest
    BY DEF Init, FinalizerInit
  <1>2. worker \in WorkerState /\ worker.at = "none" /\ ~ worker.stop
    BY <1>1 DEF NoWorker, WorkerState, WorkerStage
  <1>3. TypeOK
    BY <1>1, <1>2 DEF TypeOK, NoCall, Operation
  <1> QED
    BY <1>1, <1>2, <1>3
    DEF FinalizerInv, CallWellFormed, StopMeansCall, FinalizingHasWorker, ErrorExcludesResult,
        WorkerServesRequest, StoredResultIsCurrent, NoLostWakeup, NoCall, Working

\* Asking a worker to stop changes nothing else about it.
LEMMA StopField ==
    ASSUME NEW w \in WorkerState, NEW b \in BOOLEAN
    PROVE  LET s == [w EXCEPT !.stop = b]
           IN  s \in WorkerState /\ s.at = w.at /\ s.request = w.request /\ s.stop = b
  BY DEF WorkerState

-----------------------------------------------------------------------------
(* One lemma per action of the client and of the worker. *)

\* Entering a call only asks the worker to stop.
LEMMA BeginCallInv ==
    ASSUME FinalizerInv, NEW operation \in Operation \ {"none"},
           NEW request \in Requests \cup {NoRequest},
           operation = "request" => request \in Requests,
           BeginCall(operation, request)
    PROVE  FinalizerInv'
  <1> DEFINE asked == worker.at # "none"
  <1>1. /\ worker' \in WorkerState /\ worker'.at = worker.at /\ worker'.request = worker.request
        /\ worker'.stop = asked
    <2>1. worker \in WorkerState /\ asked \in BOOLEAN /\ worker' = [worker EXCEPT !.stop = asked]
      BY DEF FinalizerInv, TypeOK, BeginCall
    <2> HIDE DEF asked
    <2> QED
      BY ONLY <2>1, StopField, Zenon
  <1>2. call' # NoCall /\ CallWellFormed'
    BY DEF BeginCall, CallWellFormed, NoCall, Operation
  <1>3. /\ call' = [operation |-> operation, request |-> request]
        /\ UNCHANGED <<status, requested, result, error, wakeup, wakeups, delivered>>
    BY DEF BeginCall
  <1>4. TypeOK'
    BY <1>1, <1>3 DEF FinalizerInv, TypeOK
  <1>5. StopMeansCall' /\ NoLostWakeup'
    BY <1>1, <1>2 DEF StopMeansCall, NoLostWakeup
  <1>6. FinalizingHasWorker' /\ ErrorExcludesResult' /\ WorkerServesRequest' /\ StoredResultIsCurrent'
    BY <1>1, <1>3 DEF FinalizerInv, FinalizingHasWorker, ErrorExcludesResult,
           WorkerServesRequest, StoredResultIsCurrent, Working, Answered
  <1> QED
    BY <1>2, <1>4, <1>5, <1>6 DEF FinalizerInv

\* Returning from cancel(), reset() or a refused request leaves nobody waiting.
LEMMA QuietReturnInv ==
    ASSUME FinalizerInv, FinishCancel \/ FinishReset \/ RequestRefused
    PROVE  FinalizerInv'
  <1>1. /\ call' = NoCall /\ result' = NoRequest /\ error' = FALSE
        /\ worker' = JoinedWorker /\ Joined
        /\ UNCHANGED <<wakeup, wakeups, delivered>>
    BY DEF FinishCancel, FinishReset, RequestRefused, Finish
  <1>2. /\ status' \in {"Idle", "Ready", "Cancelled", "Failed"}
        /\ requested' \in Generations \cup {NoRequest}
    BY DEF FinishCancel, FinishReset, RequestRefused, Finish, ClearedStatus, FinalizerInv, TypeOK
  <1>3. worker' = NoWorker \/ (worker' = worker /\ worker.at = "none")
    BY <1>1 DEF JoinedWorker, Joined
  <1>4. worker'.at = "none"
    BY <1>3 DEF NoWorker
  <1>5. TypeOK'
    <2>1. worker' \in WorkerState
      <3>1. NoWorker \in WorkerState
        BY DEF NoWorker, WorkerState, WorkerStage
      <3>2. worker \in WorkerState
        BY DEF FinalizerInv, TypeOK
      <3> QED
        BY <1>3, <3>1, <3>2
    <2> QED
      BY <1>1, <1>2, <2>1 DEF FinalizerInv, TypeOK, NoCall, Operation
  <1>6. ~ worker'.stop
    BY <1>3 DEF NoWorker, FinalizerInv, StopMeansCall
  <1> QED
    BY <1>1, <1>2, <1>4, <1>5, <1>6
    DEF FinalizerInv, CallWellFormed, StopMeansCall, FinalizingHasWorker, ErrorExcludesResult,
        WorkerServesRequest, StoredResultIsCurrent, NoLostWakeup, Working, NoCall

\* A new worker starts with nothing stored and nobody asking it to stop.
LEMMA StartWorkerInv ==
    ASSUME FinalizerInv, StartWorker
    PROVE  FinalizerInv'
  <1>1. call.request \in Requests /\ call.request.generation \in Generations
    BY Constants DEF FinalizerInv, CallWellFormed, StartWorker, Finish
  <1>2. /\ call' = NoCall /\ result' = NoRequest /\ error' = FALSE
        /\ status' = "Finalizing" /\ requested' = call.request.generation
        /\ worker' = [at |-> "building", request |-> call.request, stop |-> FALSE, notify |-> FALSE]
        /\ UNCHANGED <<wakeup, wakeups, delivered>>
    BY DEF StartWorker, Finish, NoWorker
  <1>3. TypeOK'
    BY <1>1, <1>2 DEF FinalizerInv, TypeOK, NoCall, Operation, WorkerState, WorkerStage
  <1> QED
    BY <1>1, <1>2, <1>3
    DEF FinalizerInv, CallWellFormed, StopMeansCall, FinalizingHasWorker, ErrorExcludesResult,
        WorkerServesRequest, StoredResultIsCurrent, NoLostWakeup, Working, Answered, NoCall

\* Taking the publication ends the wait; a call posted for nothing changes nothing.
LEMMA ProcessWakeupInv ==
    ASSUME FinalizerInv, ProcessWakeup
    PROVE  FinalizerInv'
  <1>1. call = NoCall /\ wakeups > 0 /\ wakeups' = wakeups - 1
    BY DEF ProcessWakeup
  <1>2. wakeups' \in Nat
    BY <1>1 DEF FinalizerInv, TypeOK
  <1>3. CASE TakePublication
    <2>1. /\ status' \in {"Ready", "Failed"} /\ result' = NoRequest
          /\ delivered' \in Requests \cup {NoRequest}
          /\ UNCHANGED <<call, requested, error, wakeup, worker>>
      BY <1>3 DEF TakePublication, FinalizerInv, TypeOK
    <2>2. TypeOK'
      BY <1>2, <2>1 DEF FinalizerInv, TypeOK
    <2>3. ~ Working
      BY <1>3 DEF TakePublication, PublicationPending, FinalizerInv, WorkerServesRequest, Answered
    <2> QED
      BY <2>1, <2>2, <2>3
      DEF FinalizerInv, CallWellFormed, StopMeansCall, FinalizingHasWorker, ErrorExcludesResult,
          WorkerServesRequest, StoredResultIsCurrent, NoLostWakeup, Working
  <1>4. CASE /\ ~ PublicationPending
             /\ UNCHANGED <<call, status, requested, result, error, wakeup, worker, delivered>>
    <2>1. TypeOK'
      BY <1>2, <1>4 DEF FinalizerInv, TypeOK
    <2>2. status = "Finalizing" => ~ Answered
      BY <1>4 DEF PublicationPending, Answered
    <2> QED
      BY <1>4, <2>1, <2>2
      DEF FinalizerInv, CallWellFormed, StopMeansCall, FinalizingHasWorker, ErrorExcludesResult,
          WorkerServesRequest, StoredResultIsCurrent, NoLostWakeup, Working, Answered
  <1> QED
    BY <1>3, <1>4 DEF ProcessWakeup

LEMMA ClearWakeupInv ==
    ASSUME FinalizerInv, ClearWakeup
    PROVE  FinalizerInv'
  <1>1. TypeOK'
    BY DEF ClearWakeup, FinalizerInv, TypeOK
  <1> QED
    BY <1>1
    DEF ClearWakeup, FinalizerInv, CallWellFormed, StopMeansCall, FinalizingHasWorker, ErrorExcludesResult,
        WorkerServesRequest, StoredResultIsCurrent, NoLostWakeup, Working, Answered

\* The worker stores at most one outcome, while the client still waits for it, and wakes
\* the client after it.
LEMMA WorkerStepInv ==
    ASSUME FinalizerInv, WorkerStep
    PROVE  FinalizerInv'
  <1> USE DEF FinalizerInv
  <1>1. UNCHANGED <<call, status, requested, wakeup, delivered>>
    BY DEF WorkerStep, CheckStop, BuilderThrows, StoreResult, StoreError, Notify, workerView, clientView
  <1>2. TypeOK'
    <2>1. worker.request \in Requests \cup {NoRequest}
      BY DEF TypeOK, WorkerState
    <2>2. CASE CheckStop \/ BuilderThrows
      BY <1>1, <2>2 DEF TypeOK, CheckStop, BuilderThrows, WorkerState, WorkerStage, clientView, workerView
    <2>3. CASE StoreResult \/ StoreError
      BY <1>1, <2>1, <2>3 DEF TypeOK, StoreResult, StoreError, Stored, WorkerState, WorkerStage, clientView, workerView
    <2>4. CASE Notify
      BY <1>1, <2>4 DEF TypeOK, Notify, WorkerState, WorkerStage
    <2> QED
      BY <2>2, <2>3, <2>4 DEF WorkerStep
  <1>3. /\ worker'.request = worker.request /\ worker'.stop = worker.stop
        /\ worker.at # "none" /\ worker'.at # "none"
    BY DEF TypeOK, WorkerState, WorkerStep, CheckStop, BuilderThrows, StoreResult, StoreError, Stored, Notify
  <1>4. CallWellFormed' /\ StopMeansCall' /\ FinalizingHasWorker'
    BY <1>1, <1>3 DEF CallWellFormed, StopMeansCall, FinalizingHasWorker, TypeOK
  <1>5. ErrorExcludesResult' /\ WorkerServesRequest' /\ StoredResultIsCurrent' /\ NoLostWakeup'
    <2>1. CASE CheckStop
      <3>1. UNCHANGED <<result, error, wakeups>> /\ worker.at = "building"
        BY <2>1 DEF CheckStop, clientView
      <3>2. worker'.at = IF worker.stop THEN "returned" ELSE "deliver"
        BY <2>1 DEF CheckStop, TypeOK, WorkerState
      <3> QED
        BY <1>1, <1>3, <3>1, <3>2
        DEF ErrorExcludesResult, WorkerServesRequest, StoredResultIsCurrent, NoLostWakeup, Working,
            Answered, StopMeansCall
    <2>2. CASE BuilderThrows
      <3>1. UNCHANGED <<result, error, wakeups>> /\ worker.at = "building" /\ worker'.at = "raise"
        BY <2>2 DEF BuilderThrows, clientView, TypeOK, WorkerState
      <3> QED
        BY <1>1, <1>3, <3>1
        DEF ErrorExcludesResult, WorkerServesRequest, StoredResultIsCurrent, NoLostWakeup, Working,
            Answered, StopMeansCall
    <2>3. CASE StoreResult
      <3>1. /\ UNCHANGED <<error, wakeups>> /\ result' = worker.request /\ worker.at = "deliver"
            /\ worker'.at = "notify" /\ worker'.notify = wakeup
        BY <2>3 DEF StoreResult, Stored, clientView, TypeOK, WorkerState
      <3>2. status = "Finalizing" /\ requested = worker.request.generation /\ ~ error
            /\ worker.request \in Requests
        BY <3>1 DEF WorkerServesRequest, Working, Answered, FinalizingHasWorker
      <3> QED
        BY <1>1, <1>3, <3>1, <3>2, Constants
        DEF ErrorExcludesResult, WorkerServesRequest, StoredResultIsCurrent, NoLostWakeup, Working,
            Answered
    <2>4. CASE StoreError
      <3>1. /\ UNCHANGED <<result, wakeups>> /\ error' = TRUE /\ worker.at = "raise"
            /\ worker'.at = "notify" /\ worker'.notify = wakeup
        BY <2>4 DEF StoreError, Stored, clientView, TypeOK, WorkerState
      <3>2. status = "Finalizing" /\ result = NoRequest
        BY <3>1 DEF WorkerServesRequest, Working, Answered
      <3> QED
        BY <1>1, <1>3, <3>1, <3>2
        DEF ErrorExcludesResult, WorkerServesRequest, StoredResultIsCurrent, NoLostWakeup, Working,
            Answered
    <2>5. CASE Notify
      <3>1. /\ UNCHANGED <<result, error>> /\ worker.at = "notify" /\ worker'.at = "returned"
            /\ wakeups' = IF worker.notify THEN wakeups + 1 ELSE wakeups
        BY <2>5 DEF Notify, TypeOK, WorkerState
      <3>2. wakeups \in Nat
        BY DEF TypeOK
      <3> QED
        BY <1>1, <1>3, <3>1, <3>2
        DEF ErrorExcludesResult, WorkerServesRequest, StoredResultIsCurrent, NoLostWakeup, Working,
            Answered
    <2> QED
      BY <2>1, <2>2, <2>3, <2>4, <2>5 DEF WorkerStep
  <1> QED
    BY <1>2, <1>4, <1>5

-----------------------------------------------------------------------------
(* The theorems. *)

\* Every step of the finalizer and its client preserves the invariant.
LEMMA NextInv == FinalizerInv /\ [Next]_finalizerVars => FinalizerInv'
  <1> SUFFICES ASSUME FinalizerInv, [Next]_finalizerVars PROVE FinalizerInv'
    OBVIOUS
  <1>1. CASE \E r \in Requests : BeginCall("request", r)
    BY <1>1, BeginCallInv DEF Operation
  <1>2. CASE \E operation \in {"cancel", "reset"} : BeginCall(operation, NoRequest)
    BY <1>2, BeginCallInv DEF Operation
  <1>3. CASE FinishCall
    BY <1>3, QuietReturnInv, StartWorkerInv DEF FinishCall
  <1>4. CASE ProcessWakeup
    BY <1>4, ProcessWakeupInv
  <1>5. CASE ClearWakeup
    BY <1>5, ClearWakeupInv
  <1>6. CASE WorkerStep
    BY <1>6, WorkerStepInv
  <1>7. CASE UNCHANGED finalizerVars
    BY <1>7
    DEF finalizerVars, FinalizerInv, TypeOK, CallWellFormed, StopMeansCall, FinalizingHasWorker,
        ErrorExcludesResult, WorkerServesRequest, StoredResultIsCurrent, NoLostWakeup, Working, Answered
  <1> QED
    BY <1>1, <1>2, <1>3, <1>4, <1>5, <1>6, <1>7 DEF Next

LEMMA Invariance == Spec => []FinalizerInv
  BY InitInv, NextInv, PTL DEF Spec

\* Only the worker of the open request builds, for any generations and runs: no call returns
\* before the worker it replaces has ended (request(), cancel(), reset()).
THEOREM FinalizerSafety == Spec => []WorkerServesRequest
  <1>1. FinalizerInv => WorkerServesRequest
    BY DEF FinalizerInv
  <1> QED
    BY <1>1, Invariance, PTL

\* A stored result answers the latest request, and the client is never left waiting for
\* nobody, for any generations and runs (request(), cancel(), take_publication()).
THEOREM AnswersReachTheClient == Spec => []AnswersSound
  <1>1. FinalizerInv => AnswersSound
    BY DEF FinalizerInv, AnswersSound
  <1> QED
    BY <1>1, Invariance, PTL

\* A step of the client maps to a step of the service, or to none.
LEMMA ClientStepRefines ==
    ASSUME FinalizerInv,
           \/ \E r \in Requests : BeginCall("request", r)
           \/ \E operation \in {"cancel", "reset"} : BeginCall(operation, NoRequest)
           \/ FinishCall \/ ProcessWakeup \/ ClearWakeup
    PROVE  [Service!Next]_(Service!vars)
  <1>1. CASE \/ \E r \in Requests : BeginCall("request", r)
             \/ \E operation \in {"cancel", "reset"} : BeginCall(operation, NoRequest)
    <2>1. PICK operation \in Operation, request \in Requests \cup {NoRequest} : BeginCall(operation, request)
      BY <1>1 DEF Operation
    <2>2. worker'.request = worker.request /\ UNCHANGED <<status, delivered>>
      BY <2>1 DEF BeginCall, FinalizerInv, TypeOK, WorkerState
    <2> QED
      BY <2>2 DEF Service!vars, OpenRequest
  <1>2. CASE FinishCancel
    <2>1. status' = ClearedStatus /\ UNCHANGED delivered
      BY <1>2 DEF FinishCancel, Finish
    <2>2. CASE status = "Finalizing"
      <3>1. OpenRequest # NoRequest /\ OpenRequest' = NoRequest /\ status' = "Cancelled"
        BY <2>1, <2>2, Constants DEF OpenRequest, ClearedStatus, FinalizerInv, FinalizingHasWorker
      <3> QED
        BY <2>1, <3>1 DEF Service!Next, Service!Withdraw
    <2>3. CASE status # "Finalizing"
      BY <2>1, <2>3 DEF ClearedStatus, OpenRequest, Service!vars
    <2> QED
      BY <2>2, <2>3
  <1>3. CASE FinishReset
    <2>1. status' = "Idle" /\ UNCHANGED delivered /\ OpenRequest' = NoRequest
      BY <1>3 DEF FinishReset, Finish, OpenRequest
    <2> QED
      BY <2>1 DEF Service!Next, Service!Forget
  <1>4. CASE RequestRefused
    <2>1. status = "Ready" /\ status' = "Ready" /\ UNCHANGED delivered
      BY <1>4 DEF RequestRefused, AlreadyReady, ClearedStatus, Finish
    <2> QED
      BY <2>1 DEF Service!vars, OpenRequest
  <1>5. CASE StartWorker
    <2>1. call.request \in Requests /\ status' = "Finalizing" /\ UNCHANGED delivered
      BY <1>5 DEF StartWorker, Finish, FinalizerInv, CallWellFormed
    <2>2. OpenRequest' = call.request
      BY <1>5, <2>1 DEF StartWorker, NoWorker, OpenRequest
    <2> QED
      BY <2>1, <2>2 DEF Service!Next, Service!Ask
  <1>6. CASE ProcessWakeup /\ TakePublication
    <2>1. status = "Finalizing"
      BY <1>6 DEF TakePublication, PublicationPending, FinalizerInv, StoredResultIsCurrent
    <2>2. OpenRequest = worker.request /\ OpenRequest # NoRequest /\ OpenRequest' = NoRequest
      BY <1>6, <2>1, Constants
      DEF TakePublication, OpenRequest, FinalizerInv, FinalizingHasWorker
    <2>3. CASE result # NoRequest
      <3>1. status' = "Ready" /\ delivered' = OpenRequest
        BY <1>6, <2>2, <2>3 DEF TakePublication, FinalizerInv, StoredResultIsCurrent
      <3> QED
        BY <2>2, <3>1 DEF Service!Next, Service!Deliver
    <2>4. CASE result = NoRequest
      <3>1. status' = "Failed" /\ UNCHANGED delivered
        BY <1>6, <2>4 DEF TakePublication
      <3> QED
        BY <2>2, <3>1 DEF Service!Next, Service!Fail
    <2> QED
      BY <2>3, <2>4
  <1>7. CASE UNCHANGED <<status, worker, delivered>>
    BY <1>7 DEF Service!vars, OpenRequest
  <1> QED
    BY <1>1, <1>2, <1>3, <1>4, <1>5, <1>6, <1>7 DEF FinishCall, ProcessWakeup, ClearWakeup

\* The client sees nothing of the worker's own steps.
LEMMA WorkerStepRefines ==
    ASSUME FinalizerInv, WorkerStep
    PROVE  UNCHANGED Service!vars
  <1>1. UNCHANGED <<status, delivered>> /\ worker'.request = worker.request
    BY DEF FinalizerInv, TypeOK, WorkerState, WorkerStep, CheckStop, BuilderThrows, StoreResult,
           StoreError, Stored, Notify, workerView, clientView
  <1> QED
    BY <1>1 DEF Service!vars, OpenRequest

\* With all its threads, lock sections and wake-ups the finalizer is a service with at most
\* one open request, answered at most once and only with its own result.
THEOREM FinalizerRefinesService == Spec => ImplementsResultService
  <1>1. Init => Service!Init
    BY DEF Init, FinalizerInit, Service!Init, OpenRequest
  <1>2. FinalizerInv /\ [Next]_finalizerVars => [Service!Next]_(Service!vars)
    <2> SUFFICES ASSUME FinalizerInv, [Next]_finalizerVars PROVE [Service!Next]_(Service!vars)
      OBVIOUS
    <2>1. CASE WorkerStep
      BY <2>1, WorkerStepRefines
    <2>2. CASE UNCHANGED finalizerVars
      BY <2>2 DEF finalizerVars, Service!vars, OpenRequest
    <2> QED
      BY <2>1, <2>2, ClientStepRefines DEF Next
  <1> QED
    BY <1>1, <1>2, Invariance, PTL DEF Spec, ImplementsResultService, Service!Spec

-----------------------------------------------------------------------------
(* The document under edit: numbers, positions and rows. *)

\* A nonempty set of natural numbers has a least element.
LEMMA LeastNumber ==
  ASSUME NEW D \in SUBSET Nat, D # {}
  PROVE  \E n \in D : \A m \in D : n <= m
  <1>1. \E n \in D : \A m \in D : ~ (<<m, n>> \in OpToRel(<, Nat))
    BY NatLessThanWellFounded, WFMin
  <1>2. PICK n \in D : \A m \in D : ~ (<<m, n>> \in OpToRel(<, Nat))
    BY <1>1
  <1>3. ASSUME NEW m \in D PROVE n <= m
    <2>1. m \in Nat /\ n \in Nat
      OBVIOUS
    <2>2. ~ (m < n)
      BY <1>2, <2>1 DEF OpToRel
    <2> QED
      BY <2>1, <2>2
  <1> QED
    BY <1>3

\* A set that contains 0 and with a number below N the next one contains all of them.
LEMMA Counting ==
  ASSUME NEW N \in Nat, NEW S, 0 \in S, \A n \in 1 .. N : n - 1 \in S => n \in S
  PROVE  0 .. N \subseteq S
  <1> DEFINE T == (0 .. N) \ S
  <1>1. SUFFICES ASSUME T # {} PROVE FALSE
    OBVIOUS
  <1>2. PICK m \in T : \A n \in T : m <= n
    <2>1. T \in SUBSET Nat
      OBVIOUS
    <2> HIDE DEF T
    <2> QED
      BY <1>1, <2>1, LeastNumber
  <1>3. m \in 0 .. N /\ m \notin S /\ m # 0
    OBVIOUS
  <1>4. m - 1 \in 0 .. N /\ m - 1 \notin S
    BY <1>3
  <1> QED
    BY <1>2, <1>3, <1>4

\* The function f holds the results of the first k steps.
Steps(f, start, step, k) == f[0] = start /\ \A n \in 1 .. k : f[n] = step[n][f[n - 1]]

\* Whatever each step does to the values of V, the results of the first N steps are a function.
LEMMA Built ==
  ASSUME NEW V, NEW N \in Nat, NEW start \in V, NEW step \in [1 .. N -> [V -> V]]
  PROVE  \E f \in [0 .. N -> V] : Steps(f, start, step, N)
  <1> DEFINE S == {k \in 0 .. N : \E f \in [0 .. k -> V] : Steps(f, start, step, k)}
  <1>1. 0 \in S
    <2> DEFINE f == [k \in 0 .. 0 |-> start]
    <2>1. f \in [0 .. 0 -> V] /\ Steps(f, start, step, 0)
      BY DEF Steps
    <2> HIDE DEF f
    <2> QED
      BY <2>1
  <1>2. ASSUME NEW n \in 1 .. N, n - 1 \in S PROVE n \in S
    <2>1. PICK f \in [0 .. n - 1 -> V] : Steps(f, start, step, n - 1)
      BY <1>2
    <2> DEFINE g == [k \in 0 .. n |-> IF k = n THEN step[n][f[n - 1]] ELSE f[k]]
    <2>2. n - 1 \in 0 .. n - 1 /\ f[n - 1] \in V /\ step[n][f[n - 1]] \in V
      BY <2>1
    <2>3. g \in [0 .. n -> V]
      BY <2>1, <2>2
    <2>4. g[0] = start
      BY <2>1 DEF Steps
    <2>5. ASSUME NEW k \in 1 .. n PROVE g[k] = step[k][g[k - 1]]
      <3>1. g[k - 1] = f[k - 1]
        OBVIOUS
      <3>2. CASE k = n
        BY <3>1, <3>2
      <3>3. CASE k # n
        BY <2>1, <3>1, <3>3 DEF Steps
      <3> QED
        BY <3>2, <3>3
    <2> HIDE DEF g
    <2>6. Steps(g, start, step, n)
      BY <2>4, <2>5 DEF Steps
    <2> QED
      BY <2>3, <2>6
  <1>3. 0 .. N \subseteq S
    <2> HIDE DEF S
    <2> QED
      BY <1>1, <1>2, Counting
  <1>4. N \in S
    BY <1>3
  <1> QED
    BY <1>4

-----------------------------------------------------------------------------
(* Positions and rows. *)

\* A nonempty set of positions has a first one.
LEMMA First ==
  ASSUME NEW P \in SUBSET Nat, P # {}
  PROVE  Min(P) \in P /\ \A i \in P : Min(P) <= i
  <1>1. \E i \in P : \A j \in P : i <= j
    BY LeastNumber
  <1> QED
    BY <1>1 DEF Min

\* The first position of a set that has it alone.
LEMMA OnlyOne ==
  ASSUME NEW i \in Nat PROVE Min({i}) = i
  <1>1. Min({i}) \in {i}
    BY First
  <1> QED
    BY <1>1

\* The first row with an identifier.
LEMMA AtRow ==
  ASSUME NEW V, NEW rows \in Seq(V), NEW id, Has(rows, id)
  PROVE  At(rows, id) \in DOMAIN rows /\ rows[At(rows, id)].id = id
  <1> DEFINE P == {i \in DOMAIN rows : rows[i].id = id}
  <1>1. P \in SUBSET Nat /\ P # {}
    BY DEF Has
  <1>2. Min(P) \in P
    BY <1>1, First
  <1> QED
    BY <1>2 DEF At

\* Appending keeps the rows there are and adds one.
LEMMA Appended ==
  ASSUME NEW V, NEW rows \in Seq(V), NEW row \in V
  PROVE  /\ Append(rows, row) \in Seq(V) /\ DOMAIN Append(rows, row) = DOMAIN rows \cup {Len(rows) + 1}
         /\ \A i \in DOMAIN rows : i # Len(rows) + 1 /\ Append(rows, row)[i] = rows[i]
         /\ Append(rows, row)[Len(rows) + 1] = row
         /\ Len(Append(rows, row)) = Len(rows) + 1
  <1>1. Append(rows, row) \in Seq(V) /\ Len(Append(rows, row)) = Len(rows) + 1
    OBVIOUS
  <1>2. DOMAIN rows = 1 .. Len(rows) /\ DOMAIN Append(rows, row) = 1 .. Len(rows) + 1 /\ Len(rows) \in Nat
    BY <1>1
  <1> QED
    BY <1>1, <1>2

\* The rows that are left are some of the rows there were.
LEMMA Kept ==
  ASSUME NEW V, NEW rows \in Seq(V), NEW places
  PROVE  RowsAt(rows, places) \in Seq({rows[i] : i \in places \cap DOMAIN rows})
  <1> DEFINE W == {rows[i] : i \in places \cap DOMAIN rows}
             N == Len(rows)
             step == [n \in 1 .. N |-> [s \in Seq(W) |-> IF n \in places THEN Append(s, rows[n]) ELSE s]]
  <1>1. N \in Nat /\ DOMAIN rows = 1 .. N /\ <<>> \in Seq(W)
    OBVIOUS
  <1>2. step \in [1 .. N -> [Seq(W) -> Seq(W)]]
    <2>1. ASSUME NEW n \in 1 .. N, NEW s \in Seq(W), n \in places PROVE Append(s, rows[n]) \in Seq(W)
      <3>1. rows[n] \in W
        BY <1>1, <2>1
      <3> HIDE DEF W
      <3> QED
        BY <3>1
    <2> HIDE DEF W
    <2> QED
      BY <2>1
  <1>3. PICK f \in [0 .. N -> Seq(W)] : Steps(f, <<>>, step, N)
    <2> HIDE DEF step, W, N
    <2> QED
      BY <1>1, <1>2, Built
  <1>4. \A n \in 0 .. N : f[n] = IF n = 0 THEN <<>> ELSE IF n \in places THEN Append(f[n - 1], rows[n]) ELSE f[n - 1]
    <2>1. f[0] = <<>>
      BY <1>3 DEF Steps
    <2>2. ASSUME NEW n \in 1 .. N PROVE f[n] = IF n \in places THEN Append(f[n - 1], rows[n]) ELSE f[n - 1]
      <3>1. n - 1 \in 0 .. N /\ f[n - 1] \in Seq(W)
        <4> HIDE DEF W, N, step
        <4> QED
          BY <1>1, <1>3
      <3>2. f[n] = step[n][f[n - 1]]
        BY <1>3 DEF Steps
      <3> HIDE DEF W
      <3> QED
        BY <3>1, <3>2
    <2>3. \A n \in 0 .. N : n = 0 \/ n \in 1 .. N
      BY <1>1
    <2> QED
      BY <2>1, <2>2, <2>3
  <1> DEFINE Def(g) == g = [n \in 0 .. N |-> IF n = 0 THEN <<>>
                                              ELSE IF n \in places THEN Append(g[n - 1], rows[n]) ELSE g[n - 1]]
  <1>5. Def(f)
    BY <1>3, <1>4
  <1>6. ASSUME NEW g, Def(g) PROVE g[N] \in Seq(W)
    <2>1. \A n \in 0 .. N : g[n] = IF n = 0 THEN <<>> ELSE IF n \in places THEN Append(g[n - 1], rows[n]) ELSE g[n - 1]
      BY <1>6
    <2> DEFINE S == {n \in 0 .. N : g[n] \in Seq(W)}
    <2>2. 0 \in S
      <3>1. 0 \in 0 .. N
        BY <1>1
      <3>2. g[0] = <<>>
        BY <2>1, <3>1
      <3> HIDE DEF W
      <3> QED
        BY <1>1, <3>1, <3>2
    <2>3. ASSUME NEW n \in 1 .. N, n - 1 \in S PROVE n \in S
      <3>1. n \in places => rows[n] \in W
        BY <1>1
      <3>2. n \in 0 .. N /\ g[n] = IF n \in places THEN Append(g[n - 1], rows[n]) ELSE g[n - 1]
        BY <1>1, <2>1
      <3>3. g[n - 1] \in Seq(W)
        BY <2>3
      <3> HIDE DEF W, N
      <3>4. CASE n \in places
        <4>1. \A s \in Seq(W), w \in W : Append(s, w) \in Seq(W)
          OBVIOUS
        <4>2. Append(g[n - 1], rows[n]) \in Seq(W)
          BY <3>1, <3>3, <3>4, <4>1
        <4> QED
          BY <3>2, <3>4, <4>2
      <3>5. CASE n \notin places
        BY <3>2, <3>3, <3>5
      <3> QED
        BY <3>2, <3>4, <3>5
    <2>4. 0 .. N \subseteq S
      <3> HIDE DEF S
      <3> QED
        BY <1>1, <2>2, <2>3, Counting
    <2> QED
      BY <1>1, <2>4
  <1>7. Def(CHOOSE g : Def(g))
    <2> HIDE DEF Def
    <2> QED
      BY <1>5, Zenon
  <1>8. RowsAt(rows, places) = (CHOOSE g : Def(g))[N]
    BY DEF RowsAt
  <1> HIDE DEF Def
  <1> QED
    BY <1>6, <1>7, <1>8

\* Removing a row keeps the others.
LEMMA Removing ==
  ASSUME NEW V, NEW rows \in Seq(V), NEW i \in DOMAIN rows
  PROVE  /\ RemoveAt(rows, i) \in Seq(V)
         /\ \A j \in DOMAIN rows : j # i => \E k \in DOMAIN RemoveAt(rows, i) : RemoveAt(rows, i)[k] = rows[j]
  <1> DEFINE N == Len(rows)
             a == SubSeq(rows, 1, i - 1)
             b == SubSeq(rows, i + 1, N)
  <1>1. N \in Nat /\ i \in 1 .. N /\ DOMAIN rows = 1 .. N
    OBVIOUS
  <1>2. a \in Seq(V) /\ Len(a) = i - 1 /\ \A k \in 1 .. i - 1 : a[k] = rows[k]
    BY <1>1, SubSeqProperties
  <1>3. b \in Seq(V) /\ Len(b) = N - i /\ \A k \in 1 .. N - i : b[k] = rows[i + k]
    BY <1>1, SubSeqProperties
  <1>4. RemoveAt(rows, i) = a \o b
    BY DEF RemoveAt
  <1> HIDE DEF a, b
  <1> HIDE DEF N
  <1>5. a \o b \in Seq(V) /\ Len(a \o b) = N - 1
    <2>1. a \o b \in Seq(V) /\ Len(a \o b) = Len(a) + Len(b)
      BY <1>2, <1>3, ConcatProperties
    <2> QED
      BY <1>1, <1>2, <1>3, <2>1
  <1>6. /\ \A k \in 1 .. i - 1 : (a \o b)[k] = rows[k]
        /\ \A k \in i .. N - 1 : (a \o b)[k] = rows[k + 1]
    <2>1. \A k \in 1 .. Len(a) + Len(b) : (a \o b)[k] = IF k <= Len(a) THEN a[k] ELSE b[k - Len(a)]
      BY <1>2, <1>3, ConcatProperties
    <2>2. ASSUME NEW k \in 1 .. i - 1 PROVE (a \o b)[k] = rows[k]
      BY <1>1, <1>2, <1>3, <2>1
    <2>3. ASSUME NEW k \in i .. N - 1 PROVE (a \o b)[k] = rows[k + 1]
      <3>1. (a \o b)[k] = b[k - (i - 1)]
        BY <1>1, <1>2, <1>3, <2>1
      <3>2. k - (i - 1) \in 1 .. N - i /\ i + (k - (i - 1)) = k + 1
        BY <1>1
      <3> QED
        BY <1>3, <3>1, <3>2
    <2> QED
      BY <2>2, <2>3
  <1>7. ASSUME NEW j \in DOMAIN rows, j # i
        PROVE  \E k \in DOMAIN (a \o b) : (a \o b)[k] = rows[j]
    <2>1. DOMAIN (a \o b) = 1 .. N - 1
      BY <1>5
    <2>2. CASE j < i
      <3>1. j \in 1 .. i - 1 /\ j \in 1 .. N - 1
        BY <1>1, <2>2
      <3> QED
        BY <1>6, <2>1, <3>1
    <2>3. CASE j > i
      <3>1. j - 1 \in i .. N - 1 /\ j - 1 \in 1 .. N - 1 /\ j - 1 + 1 = j
        BY <1>1, <2>3
      <3>2. (a \o b)[j - 1] = rows[j - 1 + 1]
        BY <1>6, <3>1
      <3> QED
        BY <2>1, <3>1, <3>2
    <2> QED
      BY <1>1, <1>7, <2>2, <2>3
  <1> QED
    BY <1>4, <1>5, <1>7

-----------------------------------------------------------------------------
(* Fresh identifiers and names. *)

\* n rows cannot take all of 1 .. n + 1.
LEMMA Pigeonhole ==
  ASSUME NEW n \in Nat, NEW f
  PROVE  (1 .. n + 1) \ {f[i] : i \in 1 .. n} # {}
  <1> DEFINE S == {f[i] : i \in 1 .. n}
             g == [i \in 1 .. n |-> f[i]]
  <1>1. IsFiniteSet(1 .. n) /\ Cardinality(1 .. n) = n
    BY FS_Interval
  <1>2. IsFiniteSet(S) /\ Cardinality(S) <= n
    <2>1. g \in Surjection(1 .. n, S)
      BY DEF Surjection
    <2> HIDE DEF g, S
    <2> QED
      BY <1>1, <2>1, FS_Surjection
  <1>3. Cardinality(1 .. n + 1) = n + 1 /\ IsFiniteSet(1 .. n + 1)
    <2>1. n + 1 - 1 + 1 = n + 1 /\ n + 1 \in Int /\ 1 \in Int
      OBVIOUS
    <2> QED
      BY <2>1, FS_Interval
  <1>4. ASSUME 1 .. n + 1 \subseteq S PROVE FALSE
    <2> HIDE DEF S
    <2>1. Cardinality(1 .. n + 1) <= Cardinality(S)
      BY <1>2, <1>4, FS_Subset
    <2> QED
      BY <1>2, <1>3, <2>1, FS_CardinalityType
  <1> QED
    BY <1>4

\* The smallest unused identifier is a number.
LEMMA Unused ==
  ASSUME NEW V, NEW rows \in Seq(V)
  PROVE  SmallestUnused(rows) \in Nat
  <1> DEFINE f == [i \in 1 .. Len(rows) |-> rows[i].id]
             P == (1 .. Len(rows) + 1) \ Ids(rows)
  <1>1. Ids(rows) = {f[i] : i \in 1 .. Len(rows)}
    BY DEF Ids
  <1>2. P # {}
    <2> HIDE DEF f
    <2> QED
      BY <1>1, Pigeonhole
  <1>3. P \in SUBSET Nat
    OBVIOUS
  <1> HIDE DEF P
  <1>4. Min(P) \in Nat
    BY <1>2, <1>3, First
  <1> QED
    BY <1>4 DEF SmallestUnused, P

\* A copy gets a name.
LEMMA CopyNamed ==
  ASSUME NEW V, NEW rows \in Seq(V), NEW name \in Seq(Nat)
  PROVE  UniqueCopyName(rows, name) \in Seq(Nat)
  <1> DEFINE last(s) == s[Len(s)]
             f == [i \in 1 .. Len(rows) |-> last(rows[i].name)]
             P == {n \in 1 .. Len(rows) + 1 : Append(name, n) \notin Names(rows)}
  <1>1. PICK n \in 1 .. Len(rows) + 1 : n \notin {f[i] : i \in 1 .. Len(rows)}
    <2> HIDE DEF f
    <2>1. Len(rows) \in Nat
      OBVIOUS
    <2> QED
      BY <2>1, Pigeonhole
  <1>2. Append(name, n) \notin Names(rows)
    <2>1. ASSUME NEW i \in DOMAIN rows, rows[i].name = Append(name, n) PROVE FALSE
      <3>1. last(rows[i].name) = n
        <4>1. n \in Nat /\ Append(name, n) \in Seq(Nat) /\ Len(Append(name, n)) = Len(name) + 1
          OBVIOUS
        <4>2. Append(name, n)[Len(name) + 1] = n
          BY <4>1
        <4> QED
          BY <2>1, <4>1, <4>2
      <3>2. i \in 1 .. Len(rows)
        OBVIOUS
      <3> QED
        BY <1>1, <3>1, <3>2
    <2> QED
      BY <2>1 DEF Names
  <1>3. P # {} /\ P \in SUBSET Nat
    BY <1>2
  <1> HIDE DEF P
  <1>4. Min(P) \in Nat
    BY <1>3, First
  <1>5. Append(name, Min(P)) \in Seq(Nat)
    <2> HIDE DEF P
    <2> QED
      BY <1>4
  <1> QED
    BY <1>5 DEF UniqueCopyName, P

-----------------------------------------------------------------------------
(* Edits of a draft: every one keeps its rows well formed and its references within it. *)

\* The rows of the four tables.
ResourceRows == [id : Nat, name : Seq(Nat)]
TaskRows == [id : Nat, name : Seq(Nat), timing : Timings]
ProfileRows == [task : Nat, resource : Nat, time : Int]
RouteRows == [source : Nat, destination : Nat, kind : {Logical, Communication}, delay : Int]

\* The rows' identifiers are what they refer to each other by.
Closure(tasks, resources, profiles, routes) ==
    /\ \A n \in DOMAIN profiles : profiles[n].task \in Ids(tasks) /\ profiles[n].resource \in Ids(resources)
    /\ \A n \in DOMAIN routes : routes[n].source \in Ids(tasks) /\ routes[n].destination \in Ids(tasks)

\* A draft of the right form whose profiles and routes refer to rows of it.
Sound(d) == d \in Drafts /\ Closure(d.tasks, d.resources, d.profiles, d.routes)

\* The parts of a draft.
LEMMA Parts ==
  ASSUME NEW d, Sound(d)
  PROVE  /\ d.tick_period \in Int /\ d.resources \in Seq(ResourceRows) /\ d.tasks \in Seq(TaskRows)
         /\ d.profiles \in Seq(ProfileRows) /\ d.routes \in Seq(RouteRows)
         /\ Closure(d.tasks, d.resources, d.profiles, d.routes)
  BY DEF Sound, Drafts, ResourceRows, TaskRows, ProfileRows, RouteRows

\* Having an identifier is having it among the identifiers.
LEMMA IdsHas == \A rows, id : Has(rows, id) <=> id \in Ids(rows)
  BY DEF Has, Ids

\* More rows have more identifiers.
LEMMA IdsAppended ==
  ASSUME NEW V, NEW rows \in Seq(V), NEW row \in V
  PROVE  Ids(Append(rows, row)) = Ids(rows) \cup {row.id}
  <1>1. /\ DOMAIN Append(rows, row) = DOMAIN rows \cup {Len(rows) + 1}
        /\ \A i \in DOMAIN rows : i # Len(rows) + 1 /\ Append(rows, row)[i] = rows[i]
        /\ Append(rows, row)[Len(rows) + 1] = row
    BY Appended
  <1> DEFINE s == Append(rows, row)
  <1> HIDE DEF s
  <1> QED
    BY <1>1 DEF Ids, s

\* The references within a draft remain good when only other parts change.
LEMMA ClosureGrows ==
  ASSUME NEW T, NEW R, NEW P, NEW Q, Closure(T, R, P, Q), NEW T2, NEW R2,
         Ids(T) \subseteq Ids(T2), Ids(R) \subseteq Ids(R2)
  PROVE  Closure(T2, R2, P, Q)
  BY DEF Closure

\* Replacing a row without touching its identifier changes no identifier.
LEMMA IdsSame ==
  ASSUME NEW V, NEW rows \in Seq(V), NEW i \in DOMAIN rows, NEW row \in V, row.id = rows[i].id
  PROVE  Ids([rows EXCEPT ![i] = row]) = Ids(rows) /\ [rows EXCEPT ![i] = row] \in Seq(V)
  BY DEF Ids

\* Changing an identifier replaces it, unless another row has it too.
LEMMA IdsChanged ==
  ASSUME NEW V, NEW rows \in Seq(V), NEW i \in DOMAIN rows, NEW row \in V
  PROVE  /\ [rows EXCEPT ![i] = row] \in Seq(V)
         /\ Ids(rows) \ {rows[i].id} \subseteq Ids([rows EXCEPT ![i] = row])
         /\ row.id \in Ids([rows EXCEPT ![i] = row])
  BY DEF Ids

\* A draft with more resources, or with other names for them.
LEMMA MoreResources ==
  ASSUME NEW d, Sound(d), NEW R \in Seq(ResourceRows),
         Ids(d.resources) \subseteq Ids(R)
  PROVE  LET e == [d EXCEPT !.resources = R]
         IN  Sound(e) /\ e.tasks = d.tasks /\ e.resources = R /\ e.profiles = d.profiles /\ e.routes = d.routes
  <1> DEFINE e == [d EXCEPT !.resources = R]
  <1>1. e \in Drafts /\ e.tasks = d.tasks /\ e.resources = R /\ e.profiles = d.profiles /\ e.routes = d.routes
    BY DEF Sound, Drafts, ResourceRows, TaskRows, ProfileRows, RouteRows
  <1>2. Closure(d.tasks, R, d.profiles, d.routes)
    BY Parts, ClosureGrows
  <1> QED
    BY <1>1, <1>2 DEF Sound

\* A draft with more tasks, or with other names or timings for them.
LEMMA MoreTasks ==
  ASSUME NEW d, Sound(d), NEW T \in Seq(TaskRows),
         Ids(d.tasks) \subseteq Ids(T)
  PROVE  LET e == [d EXCEPT !.tasks = T]
         IN  Sound(e) /\ e.tasks = T /\ e.resources = d.resources /\ e.profiles = d.profiles /\ e.routes = d.routes
  <1> DEFINE e == [d EXCEPT !.tasks = T]
  <1>1. e \in Drafts /\ e.tasks = T /\ e.resources = d.resources /\ e.profiles = d.profiles /\ e.routes = d.routes
    BY DEF Sound, Drafts, ResourceRows, TaskRows, ProfileRows, RouteRows
  <1>2. Closure(T, d.resources, d.profiles, d.routes)
    BY Parts, ClosureGrows
  <1> QED
    BY <1>1, <1>2 DEF Sound

\* A draft with other profiles.
LEMMA OtherProfiles ==
  ASSUME NEW d, Sound(d), NEW P \in Seq(ProfileRows),
         Closure(d.tasks, d.resources, P, d.routes)
  PROVE  LET e == [d EXCEPT !.profiles = P]
         IN  Sound(e) /\ e.tasks = d.tasks /\ e.resources = d.resources /\ e.profiles = P /\ e.routes = d.routes
  <1> DEFINE e == [d EXCEPT !.profiles = P]
  <1>1. e \in Drafts /\ e.tasks = d.tasks /\ e.resources = d.resources /\ e.profiles = P /\ e.routes = d.routes
    BY DEF Sound, Drafts, ResourceRows, TaskRows, ProfileRows, RouteRows
  <1>2. Closure(d.tasks, d.resources, P, d.routes)
    BY Parts, ClosureGrows
  <1> QED
    BY <1>1, <1>2 DEF Sound

\* A draft with other routes.
LEMMA OtherRoutes ==
  ASSUME NEW d, Sound(d), NEW Q \in Seq(RouteRows),
         Closure(d.tasks, d.resources, d.profiles, Q)
  PROVE  LET e == [d EXCEPT !.routes = Q]
         IN  Sound(e) /\ e.tasks = d.tasks /\ e.resources = d.resources /\ e.profiles = d.profiles /\ e.routes = Q
  <1> DEFINE e == [d EXCEPT !.routes = Q]
  <1>1. e \in Drafts /\ e.tasks = d.tasks /\ e.resources = d.resources /\ e.profiles = d.profiles /\ e.routes = Q
    BY DEF Sound, Drafts, ResourceRows, TaskRows, ProfileRows, RouteRows
  <1>2. Closure(d.tasks, d.resources, d.profiles, Q)
    BY Parts, ClosureGrows
  <1> QED
    BY <1>1, <1>2 DEF Sound

\* A draft with other resources and profiles, written the way each edit writes it.
WithoutResource(d, P, R) == [d EXCEPT !.profiles = P, !.resources = R]
\* A draft with other profiles and resources.
LEMMA FewerResources ==
  ASSUME NEW d, Sound(d), NEW P \in Seq(ProfileRows), NEW R \in Seq(ResourceRows),
         Closure(d.tasks, R, P, d.routes)
  PROVE  LET e == WithoutResource(d, P, R)
         IN  Sound(e) /\ e.tasks = d.tasks /\ e.resources = R /\ e.profiles = P /\ e.routes = d.routes
  <1> DEFINE e == WithoutResource(d, P, R)
  <1>1. e \in Drafts /\ e.tasks = d.tasks /\ e.resources = R /\ e.profiles = P /\ e.routes = d.routes
    BY DEF WithoutResource, Sound, Drafts, ResourceRows, TaskRows, ProfileRows, RouteRows
  <1>2. Closure(d.tasks, R, P, d.routes)
    BY Parts, ClosureGrows
  <1> QED
    BY <1>1, <1>2 DEF Sound

\* The same when a resource is edited.
ResourceEdited(d, R, P) == [d EXCEPT !.resources = R, !.profiles = P]
\* A draft with other resources and profiles.
LEMMA OtherResources ==
  ASSUME NEW d, Sound(d), NEW R \in Seq(ResourceRows), NEW P \in Seq(ProfileRows),
         Closure(d.tasks, R, P, d.routes)
  PROVE  LET e == ResourceEdited(d, R, P)
         IN  Sound(e) /\ e.tasks = d.tasks /\ e.resources = R /\ e.profiles = P /\ e.routes = d.routes
  <1> DEFINE e == ResourceEdited(d, R, P)
  <1>1. e \in Drafts /\ e.tasks = d.tasks /\ e.resources = R /\ e.profiles = P /\ e.routes = d.routes
    BY DEF ResourceEdited, Sound, Drafts, ResourceRows, TaskRows, ProfileRows, RouteRows
  <1>2. Closure(d.tasks, R, P, d.routes)
    BY Parts, ClosureGrows
  <1> QED
    BY <1>1, <1>2 DEF Sound

\* A draft with other tasks, profiles and routes.
WithoutTask(d, P, Q, T) == [d EXCEPT !.profiles = P, !.routes = Q, !.tasks = T]
\* A draft with other profiles, routes and tasks.
LEMMA FewerTasks ==
  ASSUME NEW d, Sound(d), NEW P \in Seq(ProfileRows), NEW Q \in Seq(RouteRows), NEW T \in Seq(TaskRows),
         Closure(T, d.resources, P, Q)
  PROVE  LET e == WithoutTask(d, P, Q, T)
         IN  Sound(e) /\ e.tasks = T /\ e.resources = d.resources /\ e.profiles = P /\ e.routes = Q
  <1> DEFINE e == WithoutTask(d, P, Q, T)
  <1>1. e \in Drafts /\ e.tasks = T /\ e.resources = d.resources /\ e.profiles = P /\ e.routes = Q
    BY DEF WithoutTask, Sound, Drafts, ResourceRows, TaskRows, ProfileRows, RouteRows
  <1>2. Closure(T, d.resources, P, Q)
    BY Parts, ClosureGrows
  <1> QED
    BY <1>1, <1>2 DEF Sound

\* The same when a task is edited.
TaskEdited(d, T, P, Q) == [d EXCEPT !.tasks = T, !.profiles = P, !.routes = Q]
\* A draft with other tasks, profiles and routes.
LEMMA OtherTasks ==
  ASSUME NEW d, Sound(d), NEW T \in Seq(TaskRows), NEW P \in Seq(ProfileRows), NEW Q \in Seq(RouteRows),
         Closure(T, d.resources, P, Q)
  PROVE  LET e == TaskEdited(d, T, P, Q)
         IN  Sound(e) /\ e.tasks = T /\ e.resources = d.resources /\ e.profiles = P /\ e.routes = Q
  <1> DEFINE e == TaskEdited(d, T, P, Q)
  <1>1. e \in Drafts /\ e.tasks = T /\ e.resources = d.resources /\ e.profiles = P /\ e.routes = Q
    BY DEF TaskEdited, Sound, Drafts, ResourceRows, TaskRows, ProfileRows, RouteRows
  <1>2. Closure(T, d.resources, P, Q)
    BY Parts, ClosureGrows
  <1> QED
    BY <1>1, <1>2 DEF Sound

\* What is left when a new row comes last.
LEMMA Newest ==
  ASSUME NEW V, NEW rows \in Seq(V), NEW row \in V
  PROVE  /\ Append(rows, row) \in Seq(V) /\ Append(rows, row) # <<>>
         /\ Last(Append(rows, row)) = row /\ row.id \in Ids(Append(rows, row))
         /\ Ids(rows) \subseteq Ids(Append(rows, row))
  <1>1. Append(rows, row) \in Seq(V) /\ Len(Append(rows, row)) = Len(rows) + 1
        /\ Append(rows, row)[Len(rows) + 1] = row
    BY Appended
  <1>2. Append(rows, row) # <<>>
    <2>1. Len(<<>>) = 0 /\ Len(rows) \in Nat
      OBVIOUS
    <2> QED
      BY <1>1, <2>1
  <1> QED
    BY <1>1, <1>2, IdsAppended DEF Last

\* A new resource has an identifier of its own; nothing else changes.
LEMMA AddResourceSound ==
  ASSUME NEW d, Sound(d)
  PROVE  LET e == AddResource(d)
         IN  /\ Sound(e) /\ Ids(d.resources) \subseteq Ids(e.resources) /\ e.resources # <<>>
             /\ Last(e.resources).id \in Ids(e.resources) /\ Last(e.resources).id \in Nat
             /\ e.tasks = d.tasks /\ e.profiles = d.profiles /\ e.routes = d.routes
  <1> DEFINE row == [id |-> SmallestUnused(d.resources), name |-> <<SmallestUnused(d.resources)>>]
             new == Append(d.resources, row)
  <1>1. row \in ResourceRows
    BY Parts, Unused DEF ResourceRows
  <1>2. AddResource(d) = [d EXCEPT !.resources = new]
    BY DEF AddResource
  <1> HIDE DEF row
  <1>3. new \in Seq(ResourceRows) /\ new # <<>> /\ Last(new) = row /\ row.id \in Ids(new) /\ Ids(d.resources) \subseteq Ids(new)
    BY <1>1, Parts, Newest
  <1>4. row.id \in Nat
    BY <1>1 DEF ResourceRows
  <1> HIDE DEF new
  <1> QED
    BY <1>2, <1>3, <1>4, MoreResources

\* The copy of a resource is another row.
LEMMA DuplicateResourceSound ==
  ASSUME NEW d, Sound(d), NEW i \in DOMAIN d.resources
  PROVE  LET e == DuplicateResource(d, i)
         IN  /\ Sound(e) /\ Ids(d.resources) \subseteq Ids(e.resources) /\ e.resources # <<>>
             /\ Last(e.resources).id \in Ids(e.resources) /\ Last(e.resources).id \in Nat
             /\ e.tasks = d.tasks /\ e.profiles = d.profiles /\ e.routes = d.routes
  <1> DEFINE row == [id |-> SmallestUnused(d.resources), name |-> UniqueCopyName(d.resources, d.resources[i].name)]
             new == Append(d.resources, row)
  <1>1. row \in ResourceRows
    <2>1. d.resources \in Seq(ResourceRows) /\ d.resources[i] \in ResourceRows
      BY Parts
    <2>2. d.resources[i].name \in Seq(Nat)
      BY <2>1 DEF ResourceRows
    <2> QED
      BY <2>1, <2>2, Unused, CopyNamed DEF ResourceRows
  <1>2. DuplicateResource(d, i) = [d EXCEPT !.resources = new]
    BY DEF DuplicateResource
  <1> HIDE DEF row
  <1>3. new \in Seq(ResourceRows) /\ new # <<>> /\ Last(new) = row /\ row.id \in Ids(new) /\ Ids(d.resources) \subseteq Ids(new)
    BY <1>1, Parts, Newest
  <1>4. row.id \in Nat
    BY <1>1 DEF ResourceRows
  <1> HIDE DEF new
  <1> QED
    BY <1>2, <1>3, <1>4, MoreResources

\* A new task has an identifier of its own; nothing else changes.
LEMMA AddTaskSound ==
  ASSUME NEW d, Sound(d)
  PROVE  LET e == AddTask(d)
         IN  /\ Sound(e) /\ Ids(d.tasks) \subseteq Ids(e.tasks) /\ e.tasks # <<>>
             /\ Last(e.tasks).id \in Ids(e.tasks) /\ Last(e.tasks).id \in Nat
             /\ e.resources = d.resources /\ e.profiles = d.profiles /\ e.routes = d.routes
  <1> DEFINE row == [id |-> SmallestUnused(d.tasks), name |-> <<SmallestUnused(d.tasks)>>, timing |-> DefaultTiming]
             new == Append(d.tasks, row)
  <1>1. row \in TaskRows
    BY Parts, Unused DEF TaskRows, DefaultTiming, Timings
  <1>2. AddTask(d) = [d EXCEPT !.tasks = new]
    BY DEF AddTask
  <1> HIDE DEF row
  <1>3. new \in Seq(TaskRows) /\ new # <<>> /\ Last(new) = row /\ row.id \in Ids(new) /\ Ids(d.tasks) \subseteq Ids(new)
    BY <1>1, Parts, Newest
  <1>4. row.id \in Nat
    BY <1>1 DEF TaskRows
  <1> HIDE DEF new
  <1> QED
    BY <1>2, <1>3, <1>4, MoreTasks

\* The copy of a task is another row.
LEMMA DuplicateTaskSound ==
  ASSUME NEW d, Sound(d), NEW i \in DOMAIN d.tasks
  PROVE  LET e == DuplicateTask(d, i)
         IN  /\ Sound(e) /\ Ids(d.tasks) \subseteq Ids(e.tasks) /\ e.tasks # <<>>
             /\ Last(e.tasks).id \in Ids(e.tasks) /\ Last(e.tasks).id \in Nat
             /\ e.resources = d.resources /\ e.profiles = d.profiles /\ e.routes = d.routes
  <1> DEFINE row == [id |-> SmallestUnused(d.tasks), name |-> UniqueCopyName(d.tasks, d.tasks[i].name),
                     timing |-> d.tasks[i].timing]
             new == Append(d.tasks, row)
  <1>1. row \in TaskRows
    <2>1. d.tasks \in Seq(TaskRows) /\ d.tasks[i] \in TaskRows
      BY Parts
    <2>2. d.tasks[i].name \in Seq(Nat) /\ d.tasks[i].timing \in Timings
      BY <2>1 DEF TaskRows
    <2> QED
      BY <2>1, <2>2, Unused, CopyNamed DEF TaskRows
  <1>2. DuplicateTask(d, i) = [d EXCEPT !.tasks = new]
    BY DEF DuplicateTask
  <1> HIDE DEF row
  <1>3. new \in Seq(TaskRows) /\ new # <<>> /\ Last(new) = row /\ row.id \in Ids(new) /\ Ids(d.tasks) \subseteq Ids(new)
    BY <1>1, Parts, Newest
  <1>4. row.id \in Nat
    BY <1>1 DEF TaskRows
  <1> HIDE DEF new
  <1> QED
    BY <1>2, <1>3, <1>4, MoreTasks

\* The rows that are left, one by one.
LEMMA KeptRows ==
  ASSUME NEW V, NEW rows \in Seq(V), NEW places
  PROVE  /\ RowsAt(rows, places) \in Seq(V)
         /\ \A n \in DOMAIN RowsAt(rows, places) :
                \E i \in DOMAIN rows : i \in places /\ RowsAt(rows, places)[n] = rows[i]
  <1> DEFINE W == {rows[i] : i \in places \cap DOMAIN rows}
             s == RowsAt(rows, places)
  <1>1. s \in Seq(W)
    BY Kept
  <1>2. W \subseteq V
    OBVIOUS
  <1> HIDE DEF s
  <1>3. ASSUME NEW n \in DOMAIN s PROVE \E i \in DOMAIN rows : i \in places /\ s[n] = rows[i]
    <2>1. s[n] \in W
      <3> HIDE DEF W
      <3> QED
        BY <1>1
    <2> QED
      BY <2>1
  <1>4. s \in Seq(V)
    <2> HIDE DEF W
    <2> QED
      BY <1>1, <1>2
  <1> QED
    BY <1>3, <1>4 DEF s

\* Removing a row keeps the identifiers of the others.
LEMMA IdsLeft ==
  ASSUME NEW V, NEW rows \in Seq(V), NEW i \in DOMAIN rows
  PROVE  /\ RemoveAt(rows, i) \in Seq(V)
         /\ \A j \in DOMAIN rows : j # i => rows[j].id \in Ids(RemoveAt(rows, i))
  <1> DEFINE s == RemoveAt(rows, i)
  <1>1. /\ s \in Seq(V)
        /\ \A j \in DOMAIN rows : j # i => \E k \in DOMAIN s : s[k] = rows[j]
    BY Removing
  <1> HIDE DEF s
  <1> QED
    BY <1>1 DEF Ids, s

\* Deleting a resource deletes its profiles.
LEMMA CascadeRemoveResourceSound ==
  ASSUME NEW d, Sound(d), NEW id, Has(d.resources, id)
  PROVE  LET e == CascadeRemoveResource(d, id)
         IN  /\ Sound(e) /\ e.tasks = d.tasks /\ e.routes = d.routes
             /\ \A j \in DOMAIN d.resources : j # At(d.resources, id) => d.resources[j].id \in Ids(e.resources)
  <1> DEFINE a == At(d.resources, id)
             R == RemoveAt(d.resources, a)
             kept == {i \in DOMAIN d.profiles : d.profiles[i].resource # id}
             P == RowsAt(d.profiles, kept)
  <1>1. d.resources \in Seq(ResourceRows) /\ d.profiles \in Seq(ProfileRows) /\ Closure(d.tasks, d.resources, d.profiles, d.routes)
    BY Parts
  <1>2. a \in DOMAIN d.resources /\ d.resources[a].id = id
    BY <1>1, AtRow
  <1>3. CascadeRemoveResource(d, id) = WithoutResource(d, P, R)
    BY DEF CascadeRemoveResource, WithoutResource
  <1>4. /\ P \in Seq(ProfileRows)
        /\ \A n \in DOMAIN P : \E i \in DOMAIN d.profiles : d.profiles[i].resource # id /\ P[n] = d.profiles[i]
    <2>1. /\ P \in Seq(ProfileRows)
          /\ \A n \in DOMAIN P : \E i \in DOMAIN d.profiles : i \in kept /\ P[n] = d.profiles[i]
      <3> HIDE DEF kept
      <3> QED
        BY <1>1, KeptRows
    <2> HIDE DEF P
    <2> QED
      BY <2>1
  <1> HIDE DEF a, P
  <1>5. R \in Seq(ResourceRows) /\ \A j \in DOMAIN d.resources : j # a => d.resources[j].id \in Ids(R)
    BY <1>1, <1>2, IdsLeft
  <1> HIDE DEF R
  <1>6. Ids(d.resources) \ {id} \subseteq Ids(R)
    BY <1>2, <1>5 DEF Ids
  <1>7. Closure(d.tasks, R, P, d.routes)
    BY <1>1, <1>4, <1>6 DEF Closure
  <1> QED
    <2>1. LET e == WithoutResource(d, P, R)
          IN  Sound(e) /\ e.tasks = d.tasks /\ e.resources = R /\ e.profiles = P /\ e.routes = d.routes
      BY <1>4, <1>5, <1>7, FewerResources
    <2> QED
      BY <1>3, <1>5, <2>1 DEF a

\* Deleting a task deletes its profiles and its routes.
LEMMA CascadeRemoveTaskSound ==
  ASSUME NEW d, Sound(d), NEW id, Has(d.tasks, id)
  PROVE  LET e == CascadeRemoveTask(d, id)
         IN  /\ Sound(e) /\ e.resources = d.resources
             /\ \A j \in DOMAIN d.tasks : j # At(d.tasks, id) => d.tasks[j].id \in Ids(e.tasks)
  <1> DEFINE a == At(d.tasks, id)
             T == RemoveAt(d.tasks, a)
             kept == {i \in DOMAIN d.profiles : d.profiles[i].task # id}
             P == RowsAt(d.profiles, kept)
             carried == {i \in DOMAIN d.routes : d.routes[i].source # id /\ d.routes[i].destination # id}
             Q == RowsAt(d.routes, carried)
  <1>1. /\ d.tasks \in Seq(TaskRows) /\ d.profiles \in Seq(ProfileRows) /\ d.routes \in Seq(RouteRows)
        /\ Closure(d.tasks, d.resources, d.profiles, d.routes)
    BY Parts
  <1>2. a \in DOMAIN d.tasks /\ d.tasks[a].id = id
    BY <1>1, AtRow
  <1>3. CascadeRemoveTask(d, id) = WithoutTask(d, P, Q, T)
    BY DEF CascadeRemoveTask, WithoutTask
  <1>4. /\ P \in Seq(ProfileRows)
        /\ \A n \in DOMAIN P : \E i \in DOMAIN d.profiles : d.profiles[i].task # id /\ P[n] = d.profiles[i]
    <2>1. /\ P \in Seq(ProfileRows)
          /\ \A n \in DOMAIN P : \E i \in DOMAIN d.profiles : i \in kept /\ P[n] = d.profiles[i]
      <3> HIDE DEF kept
      <3> QED
        BY <1>1, KeptRows
    <2> HIDE DEF P
    <2> QED
      BY <2>1
  <1>5. /\ Q \in Seq(RouteRows)
        /\ \A n \in DOMAIN Q : \E i \in DOMAIN d.routes :
               d.routes[i].source # id /\ d.routes[i].destination # id /\ Q[n] = d.routes[i]
    <2>1. /\ Q \in Seq(RouteRows)
          /\ \A n \in DOMAIN Q : \E i \in DOMAIN d.routes : i \in carried /\ Q[n] = d.routes[i]
      <3> HIDE DEF carried
      <3> QED
        BY <1>1, KeptRows
    <2> HIDE DEF Q
    <2> QED
      BY <2>1
  <1> HIDE DEF a, P, Q
  <1>6. T \in Seq(TaskRows) /\ \A j \in DOMAIN d.tasks : j # a => d.tasks[j].id \in Ids(T)
    BY <1>1, <1>2, IdsLeft
  <1> HIDE DEF T
  <1>7. Ids(d.tasks) \ {id} \subseteq Ids(T)
    BY <1>2, <1>6 DEF Ids
  <1>8. Closure(T, d.resources, P, Q)
    BY <1>1, <1>4, <1>5, <1>7 DEF Closure
  <1> QED
    <2>1. LET e == WithoutTask(d, P, Q, T)
          IN  Sound(e) /\ e.tasks = T /\ e.resources = d.resources /\ e.profiles = P /\ e.routes = Q
      BY <1>4, <1>5, <1>6, <1>8, FewerTasks
    <2> QED
      BY <1>3, <1>6, <2>1 DEF a

\* Editing one row.
LEMMA ResourceRow ==
  ASSUME NEW r \in ResourceRows, NEW id \in Nat, NEW name \in Seq(Nat)
  PROVE  /\ [r EXCEPT !.id = id] \in ResourceRows /\ [r EXCEPT !.id = id].id = id
         /\ [r EXCEPT !.name = name] \in ResourceRows /\ [r EXCEPT !.name = name].id = r.id
  BY DEF ResourceRows

\* A function of 1 .. N is a sequence.
LEMMA Sequence ==
  ASSUME NEW V, NEW N \in Nat, NEW s, s = [n \in 1 .. N |-> s[n]], \A n \in 1 .. N : s[n] \in V
  PROVE  s \in Seq(V) /\ DOMAIN s = 1 .. N /\ Len(s) = N
  OBVIOUS

\* A renamed identifier.
LEMMA RenamedValue ==
  ASSUME NEW value \in Nat, NEW old, NEW new \in Nat
  PROVE  Renamed(value, old, new) \in Nat /\ (value = old => Renamed(value, old, new) = new)
         /\ (value # old => Renamed(value, old, new) = value)
  BY DEF Renamed

\* Renaming a resource renames it in the profiles.
LEMMA SetResourceIdSound ==
  ASSUME NEW d, Sound(d), NEW i \in DOMAIN d.resources, NEW id \in Nat
  PROVE  LET e == SetResourceId(d, i, id)
         IN  /\ Sound(e) /\ e.tasks = d.tasks /\ e.routes = d.routes
             /\ id \in Ids(e.resources) /\ Ids(d.resources) \ {d.resources[i].id} \subseteq Ids(e.resources)
  <1> DEFINE old == d.resources[i].id
             row == [d.resources[i] EXCEPT !.id = id]
             R == [d.resources EXCEPT ![i] = row]
             P == ResourceRenamed(d.profiles, old, id)
  <1>1. /\ d.resources \in Seq(ResourceRows) /\ d.profiles \in Seq(ProfileRows)
        /\ Closure(d.tasks, d.resources, d.profiles, d.routes)
    BY Parts
  <1>2. SetResourceId(d, i, id) = ResourceEdited(d, R, P)
    BY DEF SetResourceId, ResourceEdited
  <1>3. row \in ResourceRows /\ row.id = id
    <2>1. d.resources[i] \in ResourceRows /\ <<>> \in Seq(Nat)
      BY <1>1
    <2> QED
      BY <2>1, ResourceRow
  <1>4. R \in Seq(ResourceRows) /\ Ids(d.resources) \ {old} \subseteq Ids(R) /\ id \in Ids(R)
    <2> HIDE DEF row
    <2> QED
      BY <1>1, <1>3, IdsChanged
  <1>5. \A n \in DOMAIN d.profiles :
            /\ P[n] \in ProfileRows /\ P[n].task = d.profiles[n].task
            /\ P[n].resource = Renamed(d.profiles[n].resource, old, id)
    <2> SUFFICES ASSUME NEW n \in DOMAIN d.profiles
                 PROVE  /\ P[n] \in ProfileRows /\ P[n].task = d.profiles[n].task
                        /\ P[n].resource = Renamed(d.profiles[n].resource, old, id)
      OBVIOUS
    <2>1. d.profiles[n] \in ProfileRows
      BY <1>1
    <2>2. P[n] = [d.profiles[n] EXCEPT !.resource = Renamed(d.profiles[n].resource, old, id)]
      BY DEF ResourceRenamed
    <2> DEFINE r == d.profiles[n]
    <2> HIDE DEF r, P, old
    <2>3. r \in ProfileRows /\ P[n] = [r EXCEPT !.resource = Renamed(r.resource, old, id)]
      BY <2>1, <2>2 DEF r
    <2>4. Renamed(r.resource, old, id) \in Nat
      BY <2>3, RenamedValue DEF ProfileRows
    <2>5. P[n] \in ProfileRows /\ P[n].task = r.task /\ P[n].resource = Renamed(r.resource, old, id)
      BY <2>3, <2>4 DEF ProfileRows
    <2> QED
      BY <2>5 DEF r
  <1>6. P \in Seq(ProfileRows) /\ DOMAIN P = DOMAIN d.profiles
    <2>1. P = [n \in 1 .. Len(d.profiles) |-> P[n]]
      BY <1>1 DEF ResourceRenamed
    <2>2. DOMAIN d.profiles = 1 .. Len(d.profiles) /\ Len(d.profiles) \in Nat
      BY <1>1
    <2> HIDE DEF P
    <2> QED
      BY <1>5, <2>1, <2>2, Sequence
  <1> HIDE DEF P, R
  <1>7. Closure(d.tasks, R, P, d.routes)
    BY <1>1, <1>4, <1>5, <1>6 DEF Closure, Renamed
  <1> QED
    <2>1. LET e == ResourceEdited(d, R, P)
          IN  Sound(e) /\ e.tasks = d.tasks /\ e.resources = R /\ e.profiles = P /\ e.routes = d.routes
      BY <1>4, <1>6, <1>7, OtherResources
    <2> QED
      BY <1>2, <1>4, <2>1

\* Renaming a task renames it in the profiles and the routes.
LEMMA SetTaskIdSound ==
  ASSUME NEW d, Sound(d), NEW i \in DOMAIN d.tasks, NEW id \in Nat
  PROVE  LET e == SetTaskId(d, i, id)
         IN  Sound(e) /\ e.resources = d.resources /\ id \in Ids(e.tasks)
  <1> DEFINE old == d.tasks[i].id
             row == [d.tasks[i] EXCEPT !.id = id]
             T == [d.tasks EXCEPT ![i] = row]
             P == TaskRenamed(d.profiles, old, id)
             Q == [n \in DOMAIN d.routes |-> [d.routes[n] EXCEPT !.source = Renamed(@, old, id),
                                                                 !.destination = Renamed(@, old, id)]]
  <1>1. /\ d.tasks \in Seq(TaskRows) /\ d.profiles \in Seq(ProfileRows) /\ d.routes \in Seq(RouteRows)
        /\ Closure(d.tasks, d.resources, d.profiles, d.routes)
    BY Parts
  <1>2. SetTaskId(d, i, id) = TaskEdited(d, T, P, Q)
    BY DEF SetTaskId, TaskEdited
  <1>3. row \in TaskRows /\ row.id = id
    <2>1. d.tasks[i] \in TaskRows
      BY <1>1
    <2> QED
      BY <2>1 DEF TaskRows
  <1>4. T \in Seq(TaskRows) /\ Ids(d.tasks) \ {old} \subseteq Ids(T) /\ id \in Ids(T)
    <2> HIDE DEF row
    <2> QED
      BY <1>1, <1>3, IdsChanged
  <1>5. \A n \in DOMAIN d.profiles :
            /\ P[n] \in ProfileRows /\ P[n].resource = d.profiles[n].resource
            /\ P[n].task = Renamed(d.profiles[n].task, old, id)
    <2> SUFFICES ASSUME NEW n \in DOMAIN d.profiles
                 PROVE  /\ P[n] \in ProfileRows /\ P[n].resource = d.profiles[n].resource
                        /\ P[n].task = Renamed(d.profiles[n].task, old, id)
      OBVIOUS
    <2>1. d.profiles[n] \in ProfileRows
      BY <1>1
    <2>2. P[n] = [d.profiles[n] EXCEPT !.task = Renamed(d.profiles[n].task, old, id)]
      BY DEF TaskRenamed
    <2> DEFINE r == d.profiles[n]
    <2> HIDE DEF r, P, old
    <2>3. r \in ProfileRows /\ P[n] = [r EXCEPT !.task = Renamed(r.task, old, id)]
      BY <2>1, <2>2 DEF r
    <2>4. Renamed(r.task, old, id) \in Nat
      BY <2>3, RenamedValue DEF ProfileRows
    <2>5. P[n] \in ProfileRows /\ P[n].resource = r.resource /\ P[n].task = Renamed(r.task, old, id)
      BY <2>3, <2>4 DEF ProfileRows
    <2> QED
      BY <2>5 DEF r
  <1>6. \A n \in DOMAIN d.routes :
            /\ Q[n] \in RouteRows /\ Q[n].source = Renamed(d.routes[n].source, old, id)
            /\ Q[n].destination = Renamed(d.routes[n].destination, old, id)
    <2> SUFFICES ASSUME NEW n \in DOMAIN d.routes
                 PROVE  /\ Q[n] \in RouteRows /\ Q[n].source = Renamed(d.routes[n].source, old, id)
                        /\ Q[n].destination = Renamed(d.routes[n].destination, old, id)
      OBVIOUS
    <2>1. d.routes[n] \in RouteRows
      BY <1>1
    <2>2. Q[n] = [d.routes[n] EXCEPT !.source = Renamed(d.routes[n].source, old, id),
                                     !.destination = Renamed(d.routes[n].destination, old, id)]
      OBVIOUS
    <2> DEFINE r == d.routes[n]
    <2> HIDE DEF r, Q, old
    <2>3. r \in RouteRows /\ Q[n] = [r EXCEPT !.source = Renamed(r.source, old, id),
                                             !.destination = Renamed(r.destination, old, id)]
      BY <2>1, <2>2 DEF r
    <2>4. Renamed(r.source, old, id) \in Nat /\ Renamed(r.destination, old, id) \in Nat
      BY <2>3, RenamedValue DEF RouteRows
    <2>5. /\ Q[n] \in RouteRows /\ Q[n].source = Renamed(r.source, old, id)
          /\ Q[n].destination = Renamed(r.destination, old, id)
      BY <2>3, <2>4 DEF RouteRows
    <2> QED
      BY <2>5 DEF r
  <1>7. P \in Seq(ProfileRows) /\ DOMAIN P = DOMAIN d.profiles
    <2>1. P = [n \in 1 .. Len(d.profiles) |-> P[n]]
      BY <1>1 DEF TaskRenamed
    <2>2. DOMAIN d.profiles = 1 .. Len(d.profiles) /\ Len(d.profiles) \in Nat
      BY <1>1
    <2> HIDE DEF P
    <2> QED
      BY <1>5, <2>1, <2>2, Sequence
  <1>8. Q \in Seq(RouteRows) /\ DOMAIN Q = DOMAIN d.routes
    <2>1. Q = [n \in 1 .. Len(d.routes) |-> Q[n]]
      <3>1. DOMAIN d.routes = 1 .. Len(d.routes)
        BY <1>1
      <3> QED
        BY <3>1
    <2>2. DOMAIN d.routes = 1 .. Len(d.routes) /\ Len(d.routes) \in Nat
      BY <1>1
    <2> HIDE DEF Q
    <2> QED
      BY <1>6, <2>1, <2>2, Sequence
  <1> HIDE DEF P, Q, T
  <1>9. Closure(T, d.resources, P, Q)
    BY <1>1, <1>4, <1>5, <1>6, <1>7, <1>8 DEF Closure, Renamed
  <1> QED
    <2>1. LET e == TaskEdited(d, T, P, Q)
          IN  Sound(e) /\ e.tasks = T /\ e.resources = d.resources /\ e.profiles = P /\ e.routes = Q
      BY <1>4, <1>7, <1>8, <1>9, OtherTasks
    <2> QED
      BY <1>2, <1>4, <2>1

\* A name or a timing changes no identifier.
LEMMA SetNamesSound ==
  ASSUME NEW d, Sound(d)
  PROVE  /\ \A i \in DOMAIN d.resources, name \in Seq(Nat) :
                LET e == SetResourceName(d, i, name)
                IN  Sound(e) /\ e.tasks = d.tasks /\ Ids(e.resources) = Ids(d.resources)
         /\ \A i \in DOMAIN d.tasks, name \in Seq(Nat) :
                LET e == SetTaskName(d, i, name)
                IN  Sound(e) /\ e.resources = d.resources /\ Ids(e.tasks) = Ids(d.tasks)
         /\ \A i \in DOMAIN d.tasks, timing \in Timings :
                LET e == SetTaskTiming(d, i, timing)
                IN  Sound(e) /\ e.resources = d.resources /\ Ids(e.tasks) = Ids(d.tasks)
  <1>1. d.resources \in Seq(ResourceRows) /\ d.tasks \in Seq(TaskRows)
    BY Parts
  <1>2. ASSUME NEW i \in DOMAIN d.resources, NEW name \in Seq(Nat)
        PROVE  LET e == SetResourceName(d, i, name)
               IN  Sound(e) /\ e.tasks = d.tasks /\ Ids(e.resources) = Ids(d.resources)
    <2> DEFINE row == [d.resources[i] EXCEPT !.name = name]
               R == [d.resources EXCEPT ![i] = row]
    <2>1. row \in ResourceRows /\ row.id = d.resources[i].id
      <3>1. d.resources[i] \in ResourceRows /\ 0 \in Nat
        BY <1>1
      <3> QED
        BY <3>1, ResourceRow
    <2>2. SetResourceName(d, i, name) = [d EXCEPT !.resources = R]
      BY DEF SetResourceName
    <2> HIDE DEF row
    <2>3. R \in Seq(ResourceRows) /\ Ids(R) = Ids(d.resources)
      <3> HIDE DEF R
      <3>1. i \in DOMAIN d.resources /\ d.resources \in Seq(ResourceRows)
        BY <1>1
      <3>2. Ids([d.resources EXCEPT ![i] = row]) = Ids(d.resources) /\ [d.resources EXCEPT ![i] = row] \in Seq(ResourceRows)
        BY <2>1, <3>1, IdsSame, ZenonT(30)
      <3> QED
        BY <3>2 DEF R
    <2> HIDE DEF R
    <2> QED
      BY <2>2, <2>3, MoreResources
  <1>3. ASSUME NEW i \in DOMAIN d.tasks, NEW name \in Seq(Nat)
        PROVE  LET e == SetTaskName(d, i, name)
               IN  Sound(e) /\ e.resources = d.resources /\ Ids(e.tasks) = Ids(d.tasks)
    <2> DEFINE row == [d.tasks[i] EXCEPT !.name = name]
               T == [d.tasks EXCEPT ![i] = row]
    <2>1. row \in TaskRows /\ row.id = d.tasks[i].id
      <3>1. d.tasks[i] \in TaskRows
        BY <1>1
      <3> QED
        BY <3>1 DEF TaskRows
    <2>2. SetTaskName(d, i, name) = [d EXCEPT !.tasks = T]
      BY DEF SetTaskName
    <2> HIDE DEF row
    <2>3. T \in Seq(TaskRows) /\ Ids(T) = Ids(d.tasks)
      BY <1>1, <2>1, IdsSame
    <2> HIDE DEF T
    <2> QED
      BY <2>2, <2>3, MoreTasks
  <1>4. ASSUME NEW i \in DOMAIN d.tasks, NEW timing \in Timings
        PROVE  LET e == SetTaskTiming(d, i, timing)
               IN  Sound(e) /\ e.resources = d.resources /\ Ids(e.tasks) = Ids(d.tasks)
    <2> DEFINE row == [d.tasks[i] EXCEPT !.timing = timing]
               T == [d.tasks EXCEPT ![i] = row]
    <2>1. row \in TaskRows /\ row.id = d.tasks[i].id
      <3>1. d.tasks[i] \in TaskRows
        BY <1>1
      <3> QED
        BY <3>1 DEF TaskRows
    <2>2. SetTaskTiming(d, i, timing) = [d EXCEPT !.tasks = T]
      BY DEF SetTaskTiming
    <2> HIDE DEF row
    <2>3. T \in Seq(TaskRows) /\ Ids(T) = Ids(d.tasks)
      BY <1>1, <2>1, IdsSame
    <2> HIDE DEF T
    <2> QED
      BY <2>2, <2>3, MoreTasks
  <1> QED
    BY <1>2, <1>3, <1>4

-----------------------------------------------------------------------------
(* Profiles and routes of a draft. *)

\* Identifiers are numbers.
LEMMA IdsNumbers ==
  ASSUME NEW d, Sound(d)
  PROVE  Ids(d.tasks) \subseteq Nat /\ Ids(d.resources) \subseteq Nat
  <1>1. d.resources \in Seq(ResourceRows) /\ d.tasks \in Seq(TaskRows)
    BY Parts
  <1>2. \A i \in DOMAIN d.resources : d.resources[i].id \in Nat
    <2>1. ASSUME NEW r \in ResourceRows PROVE r.id \in Nat
      BY DEF ResourceRows
    <2> QED
      BY <1>1, <2>1
  <1>3. \A i \in DOMAIN d.tasks : d.tasks[i].id \in Nat
    <2>1. ASSUME NEW r \in TaskRows PROVE r.id \in Nat
      BY DEF TaskRows
    <2> QED
      BY <1>1, <2>1
  <1> QED
    BY <1>2, <1>3 DEF Ids

\* A profile is found at a place of the table, with a time.
LEMMA ProfilePlace ==
  ASSUME NEW d, Sound(d), NEW task, NEW resource, HasProfile(d, task, resource)
  PROVE  LET i == Min(ProfileAt(d, task, resource))
         IN  /\ i \in DOMAIN d.profiles /\ d.profiles[i].task = task /\ d.profiles[i].resource = resource
             /\ d.profiles[i] \in ProfileRows /\ ExecutionTime(d, task, resource) \in Int
  <1> DEFINE S == ProfileAt(d, task, resource)
  <1>1. d.profiles \in Seq(ProfileRows)
    BY Parts
  <1>2. S \in SUBSET Nat /\ S # {}
    BY <1>1 DEF HasProfile, ProfileAt
  <1>3. Min(S) \in S
    <2> HIDE DEF S
    <2> QED
      BY <1>2, First
  <1>4. Min(S) \in DOMAIN d.profiles /\ d.profiles[Min(S)].task = task /\ d.profiles[Min(S)].resource = resource
    BY <1>3 DEF ProfileAt
  <1> HIDE DEF S
  <1>5. d.profiles[Min(S)] \in ProfileRows
    BY <1>1, <1>4
  <1>6. d.profiles[Min(S)].time \in Int
    BY <1>5 DEF ProfileRows
  <1> QED
    BY <1>4, <1>5, <1>6 DEF ExecutionTime, S

\* Setting a profile of a task on a resource of the draft.
LEMMA SetProfileSound ==
  ASSUME NEW d, Sound(d), NEW task \in Ids(d.tasks), NEW resource \in Ids(d.resources), NEW time \in Int
  PROVE  LET e == SetProfile(d, task, resource, time)
         IN  /\ Sound(e) /\ e.tasks = d.tasks /\ e.resources = d.resources /\ e.routes = d.routes
             /\ HasProfile(e, task, resource)
  <1>1. d.profiles \in Seq(ProfileRows) /\ Closure(d.tasks, d.resources, d.profiles, d.routes)
    BY Parts
  <1>2. task \in Nat /\ resource \in Nat
    BY IdsNumbers
  <1>3. CASE HasProfile(d, task, resource)
    <2> DEFINE i == Min(ProfileAt(d, task, resource))
               row == [d.profiles[i] EXCEPT !.time = time]
               P == [d.profiles EXCEPT ![i] = row]
    <2>1. i \in DOMAIN d.profiles /\ d.profiles[i] \in ProfileRows /\ d.profiles[i].task = task /\ d.profiles[i].resource = resource
      BY <1>3, ProfilePlace
    <2>2. SetProfile(d, task, resource, time) = [d EXCEPT !.profiles = P]
      BY <1>3 DEF SetProfile
    <2> HIDE DEF i
    <2>3. row \in ProfileRows /\ row.task = task /\ row.resource = resource
      BY <2>1 DEF ProfileRows
    <2> HIDE DEF row
    <2>4. P \in Seq(ProfileRows) /\ DOMAIN P = DOMAIN d.profiles /\ \A n \in DOMAIN P : P[n] = IF n = i THEN row ELSE d.profiles[n]
      BY <1>1, <2>1, <2>3
    <2> HIDE DEF P
    <2>5. Closure(d.tasks, d.resources, P, d.routes)
      BY <1>1, <2>3, <2>4 DEF Closure
    <2>6. \A e : e.profiles = P => HasProfile(e, task, resource)
      BY <2>1, <2>3, <2>4 DEF HasProfile, ProfileAt
    <2> DEFINE e == SetProfile(d, task, resource, time)
    <2>7. Sound(e) /\ e.tasks = d.tasks /\ e.resources = d.resources /\ e.profiles = P /\ e.routes = d.routes
      BY <2>2, <2>4, <2>5, OtherProfiles
    <2> HIDE DEF e
    <2>8. HasProfile(e, task, resource)
      BY <2>6, <2>7
    <2> QED
      BY <2>7, <2>8 DEF e
  <1>4. CASE ~ HasProfile(d, task, resource)
    <2> DEFINE row == [task |-> task, resource |-> resource, time |-> time]
               P == Append(d.profiles, row)
    <2>1. SetProfile(d, task, resource, time) = [d EXCEPT !.profiles = P]
      BY <1>4 DEF SetProfile
    <2>2. row \in ProfileRows /\ row.task = task /\ row.resource = resource
      BY <1>2 DEF ProfileRows
    <2> HIDE DEF row
    <2>3. /\ P \in Seq(ProfileRows) /\ DOMAIN P = DOMAIN d.profiles \cup {Len(d.profiles) + 1}
          /\ \A n \in DOMAIN d.profiles : P[n] = d.profiles[n]
          /\ P[Len(d.profiles) + 1] = row
      BY <1>1, <2>2, Appended
    <2> HIDE DEF P
    <2>4. Closure(d.tasks, d.resources, P, d.routes)
      BY <1>1, <2>2, <2>3 DEF Closure
    <2>5. \A e : e.profiles = P => HasProfile(e, task, resource)
      BY <2>2, <2>3 DEF HasProfile, ProfileAt
    <2> DEFINE e == SetProfile(d, task, resource, time)
    <2>6. Sound(e) /\ e.tasks = d.tasks /\ e.resources = d.resources /\ e.profiles = P /\ e.routes = d.routes
      BY <2>1, <2>3, <2>4, OtherProfiles
    <2> HIDE DEF e
    <2>7. HasProfile(e, task, resource)
      BY <2>5, <2>6
    <2> QED
      BY <2>6, <2>7 DEF e
  <1> QED
    BY <1>3, <1>4

\* Removing a profile.
LEMMA RemoveProfileSound ==
  ASSUME NEW d, Sound(d), NEW task, NEW resource
  PROVE  LET e == RemoveProfile(d, task, resource)
         IN  Sound(e) /\ e.tasks = d.tasks /\ e.resources = d.resources /\ e.routes = d.routes
  <1> DEFINE kept == {i \in DOMAIN d.profiles : d.profiles[i].task # task \/ d.profiles[i].resource # resource}
             P == RowsAt(d.profiles, kept)
  <1>1. d.profiles \in Seq(ProfileRows) /\ Closure(d.tasks, d.resources, d.profiles, d.routes)
    BY Parts
  <1>2. RemoveProfile(d, task, resource) = [d EXCEPT !.profiles = P]
    BY DEF RemoveProfile
  <1> HIDE DEF kept
  <1>3. P \in Seq(ProfileRows) /\ \A n \in DOMAIN P : \E i \in DOMAIN d.profiles : i \in kept /\ P[n] = d.profiles[i]
    BY <1>1, KeptRows
  <1> HIDE DEF P
  <1>4. Closure(d.tasks, d.resources, P, d.routes)
    BY <1>1, <1>3 DEF Closure
  <1> QED
    BY <1>2, <1>3, <1>4, OtherProfiles

\* Changing, adding and removing a route.
LEMMA SetRouteSound ==
  ASSUME NEW d, Sound(d), NEW i \in DOMAIN d.routes, NEW route \in RouteRows,
         route.source \in Ids(d.tasks), route.destination \in Ids(d.tasks)
  PROVE  LET e == SetRoute(d, i, route)
         IN  Sound(e) /\ e.tasks = d.tasks /\ e.resources = d.resources /\ HasRoute(e, route.source, route.destination)
  <1> DEFINE Q == [d.routes EXCEPT ![i] = route]
  <1>1. d.routes \in Seq(RouteRows) /\ Closure(d.tasks, d.resources, d.profiles, d.routes)
    BY Parts
  <1>2. SetRoute(d, i, route) = [d EXCEPT !.routes = Q]
    BY DEF SetRoute
  <1>3. Q \in Seq(RouteRows) /\ DOMAIN Q = DOMAIN d.routes /\ \A n \in DOMAIN Q : Q[n] = IF n = i THEN route ELSE d.routes[n]
    BY <1>1
  <1> HIDE DEF Q
  <1>4. Closure(d.tasks, d.resources, d.profiles, Q)
    BY <1>1, <1>3 DEF Closure
  <1>5. \A e : e.routes = Q => HasRoute(e, route.source, route.destination)
    BY <1>3 DEF HasRoute, RouteAt
  <1> DEFINE e == SetRoute(d, i, route)
  <1>6. Sound(e) /\ e.tasks = d.tasks /\ e.resources = d.resources /\ e.routes = Q
    BY <1>2, <1>3, <1>4, OtherRoutes
  <1> HIDE DEF e
  <1>7. HasRoute(e, route.source, route.destination)
    BY <1>5, <1>6
  <1> QED
    BY <1>6, <1>7 DEF e

\* A route between two tasks of the draft.
LEMMA AddRouteSound ==
  ASSUME NEW d, Sound(d), NEW source \in Ids(d.tasks), NEW destination \in Ids(d.tasks), NEW k \in {Logical, Communication}
  PROVE  LET e == AddRoute(d, source, destination, k)
         IN  Sound(e) /\ e.tasks = d.tasks /\ e.resources = d.resources /\ HasRoute(e, source, destination)
  <1> DEFINE route == [source |-> source, destination |-> destination, kind |-> k, delay |-> IF k = Logical THEN 0 ELSE 1]
             Q == Append(d.routes, route)
  <1>1. d.routes \in Seq(RouteRows) /\ Closure(d.tasks, d.resources, d.profiles, d.routes)
    BY Parts
  <1>2. AddRoute(d, source, destination, k) = [d EXCEPT !.routes = Q]
    BY DEF AddRoute
  <1>3. route \in RouteRows /\ route.source = source /\ route.destination = destination
    BY IdsNumbers DEF RouteRows
  <1> HIDE DEF route
  <1>4. /\ Q \in Seq(RouteRows) /\ DOMAIN Q = DOMAIN d.routes \cup {Len(d.routes) + 1}
        /\ \A n \in DOMAIN d.routes : Q[n] = d.routes[n]
        /\ Q[Len(d.routes) + 1] = route
    BY <1>1, <1>3, Appended
  <1> HIDE DEF Q
  <1>5. Closure(d.tasks, d.resources, d.profiles, Q)
    BY <1>1, <1>3, <1>4 DEF Closure
  <1>6. \A e : e.routes = Q => HasRoute(e, source, destination)
    BY <1>3, <1>4 DEF HasRoute, RouteAt
  <1> DEFINE e == AddRoute(d, source, destination, k)
  <1>7. Sound(e) /\ e.tasks = d.tasks /\ e.resources = d.resources /\ e.routes = Q
    BY <1>2, <1>4, <1>5, OtherRoutes
  <1> HIDE DEF e
  <1>8. HasRoute(e, source, destination)
    BY <1>6, <1>7
  <1> QED
    BY <1>7, <1>8 DEF e

\* Removing routes leaves the other rows as they are.
LEMMA RemoveRouteSound ==
  ASSUME NEW d, Sound(d), NEW key
  PROVE  Sound(RemoveRoute(d, key)) /\ RemoveRoute(d, key).resources = d.resources
  <1> DEFINE kept == {i \in DOMAIN d.routes : d.routes[i].source # key[1] \/ d.routes[i].destination # key[2]}
             Q == RowsAt(d.routes, kept)
  <1>1. d.routes \in Seq(RouteRows) /\ Closure(d.tasks, d.resources, d.profiles, d.routes)
    BY Parts
  <1>2. RemoveRoute(d, key) = [d EXCEPT !.routes = Q]
    BY DEF RemoveRoute
  <1> HIDE DEF kept
  <1>3. Q \in Seq(RouteRows) /\ \A n \in DOMAIN Q : \E i \in DOMAIN d.routes : i \in kept /\ Q[n] = d.routes[i]
    BY <1>1, KeptRows
  <1> HIDE DEF Q
  <1>4. Closure(d.tasks, d.resources, d.profiles, Q)
    BY <1>1, <1>3 DEF Closure
  <1> QED
    BY <1>2, <1>3, <1>4, OtherRoutes

\* A set of pairs of positions has an earliest one.
LEMMA EarliestPair ==
  ASSUME NEW S \in SUBSET (Nat \X Nat), S # {}
  PROVE  Earliest(S) \in S
  <1> DEFINE A == {p[1] : p \in S}
  <1>1. A \in SUBSET Nat /\ A # {}
    OBVIOUS
  <1>2. PICK a \in A : \A n \in A : a <= n
    <2> HIDE DEF A
    <2> QED
      BY <1>1, LeastNumber
  <1> DEFINE B == {p[2] : p \in {q \in S : q[1] = a}}
  <1>3. B \in SUBSET Nat /\ B # {}
    BY <1>2
  <1>4. PICK b \in B : \A n \in B : b <= n
    <2> HIDE DEF A, B
    <2> QED
      BY <1>3, LeastNumber
  <1>5. PICK p \in S : p[1] = a /\ p[2] = b
    BY <1>4
  <1>6. \A q \in S : p[1] < q[1] \/ (p[1] = q[1] /\ p[2] <= q[2])
    <2> SUFFICES ASSUME NEW q \in S PROVE p[1] < q[1] \/ (p[1] = q[1] /\ p[2] <= q[2])
      OBVIOUS
    <2>1. q[1] \in Nat /\ a \in Nat /\ a <= q[1]
      BY <1>1, <1>2
    <2>2. q[1] = a => b <= q[2]
      BY <1>4
    <2> QED
      BY <1>5, <2>1, <2>2
  <1> QED
    BY <1>6 DEF Earliest

\* The next free pair of a task and a resource, and of two tasks.
LEMMA NextPairs ==
  ASSUME NEW d, Sound(d)
  PROVE  /\ FreeProfiles(d) # {} => NextProfile(d)[1] \in Ids(d.tasks) /\ NextProfile(d)[2] \in Ids(d.resources)
                                    /\ NextProfile(d) = <<NextProfile(d)[1], NextProfile(d)[2]>>
         /\ FreeRoutes(d) # {} => NextRoute(d)[1] \in Ids(d.tasks) /\ NextRoute(d)[2] \in Ids(d.tasks)
                                  /\ NextRoute(d) = <<NextRoute(d)[1], NextRoute(d)[2]>>
  <1>1. DOMAIN d.tasks \subseteq Nat /\ DOMAIN d.resources \subseteq Nat
    BY Parts
  <1>2. ASSUME FreeProfiles(d) # {}
        PROVE  NextProfile(d)[1] \in Ids(d.tasks) /\ NextProfile(d)[2] \in Ids(d.resources)
               /\ NextProfile(d) = <<NextProfile(d)[1], NextProfile(d)[2]>>
    <2>1. FreeProfiles(d) \in SUBSET (Nat \X Nat) /\ FreeProfiles(d) \subseteq (DOMAIN d.tasks) \X (DOMAIN d.resources)
      BY <1>1 DEF FreeProfiles
    <2> DEFINE p == Earliest(FreeProfiles(d))
    <2>2. p \in (DOMAIN d.tasks) \X (DOMAIN d.resources)
      BY <1>2, <2>1, EarliestPair
    <2> HIDE DEF p
    <2>3. p[1] \in DOMAIN d.tasks /\ p[2] \in DOMAIN d.resources
      BY <2>2
    <2> QED
      BY <2>3 DEF NextProfile, Ids, p
  <1>3. ASSUME FreeRoutes(d) # {}
        PROVE  NextRoute(d)[1] \in Ids(d.tasks) /\ NextRoute(d)[2] \in Ids(d.tasks)
               /\ NextRoute(d) = <<NextRoute(d)[1], NextRoute(d)[2]>>
    <2>1. FreeRoutes(d) \in SUBSET (Nat \X Nat) /\ FreeRoutes(d) \subseteq (DOMAIN d.tasks) \X (DOMAIN d.tasks)
      BY <1>1 DEF FreeRoutes
    <2> DEFINE p == Earliest(FreeRoutes(d))
    <2>2. p \in (DOMAIN d.tasks) \X (DOMAIN d.tasks)
      BY <1>3, <2>1, EarliestPair
    <2> HIDE DEF p
    <2>3. p[1] \in DOMAIN d.tasks /\ p[2] \in DOMAIN d.tasks
      BY <2>2
    <2> QED
      BY <2>3 DEF NextRoute, Ids, p
  <1> QED
    BY <1>2, <1>3

-----------------------------------------------------------------------------
(* Edits made of several profile edits. *)

\* Drafts with the tasks, resources and routes of d.
Siblings(d) == {e \in Drafts : Sound(e) /\ e.tasks = d.tasks /\ e.resources = d.resources /\ e.routes = d.routes}

\* The new resource inherits profiles, and nothing else changes.
LEMMA InheritedSound ==
  ASSUME NEW d, Sound(d), NEW previous, Last(d.resources).id \in Ids(d.resources)
  PROVE  LET e == Inherited(d, previous)
         IN  Sound(e) /\ e.tasks = d.tasks /\ e.resources = d.resources /\ e.routes = d.routes
  <1> DEFINE W == Siblings(d)
             N == Len(d.tasks)
             new == Last(d.resources).id
             Made(e, t) == IF HasProfile(e, t, previous) THEN SetProfile(e, t, new, ExecutionTime(e, t, previous)) ELSE e
             step == [n \in 1 .. N |-> [e \in W |-> Made(e, d.tasks[n].id)]]
  <1>1. N \in Nat /\ d \in W /\ \A n \in 1 .. N : d.tasks[n].id \in Ids(d.tasks)
    BY Parts DEF Siblings, Sound, Ids
  <1>2. ASSUME NEW e \in W, NEW t \in Ids(d.tasks) PROVE Made(e, t) \in W
    <2>1. Sound(e) /\ e.tasks = d.tasks /\ e.resources = d.resources /\ e.routes = d.routes
      BY DEF Siblings
    <2>2. CASE HasProfile(e, t, previous)
      <3>1. ExecutionTime(e, t, previous) \in Int
        BY <2>1, <2>2, ProfilePlace
      <3> DEFINE f == SetProfile(e, t, new, ExecutionTime(e, t, previous))
      <3>2. Sound(f) /\ f.tasks = e.tasks /\ f.resources = e.resources /\ f.routes = e.routes
        BY <2>1, <3>1, SetProfileSound
      <3> HIDE DEF f
      <3>3. f \in W
        BY <2>1, <3>2 DEF Siblings, Sound
      <3> QED
        BY <2>2, <3>3 DEF f
    <2> QED
      BY <2>2
  <1> HIDE DEF W, Made, new
  <1>3. step \in [1 .. N -> [W -> W]]
    BY <1>1, <1>2
  <1>4. PICK f \in [0 .. N -> W] : Steps(f, d, step, N)
    <2> HIDE DEF step, N
    <2> QED
      BY <1>1, <1>3, Built
  <1> DEFINE Def(g) == g = [n \in 0 .. N |-> IF n = 0 THEN d ELSE Made(g[n - 1], d.tasks[n].id)]
  <1>5. Def(f)
    <2>1. f[0] = d
      BY <1>4 DEF Steps
    <2>2. ASSUME NEW n \in 1 .. N PROVE f[n] = Made(f[n - 1], d.tasks[n].id)
      <3>1. n - 1 \in 0 .. N /\ f[n - 1] \in W
        <4>1. N \in Nat /\ n \in 1 .. N /\ f \in [0 .. N -> W]
          BY <1>1, <1>4
        <4> HIDE DEF N, step
        <4>2. n - 1 \in 0 .. N
          BY <4>1
        <4> QED
          BY <4>1, <4>2
      <3>2. f[n] = step[n][f[n - 1]]
        BY <1>4 DEF Steps
      <3> QED
        BY <3>1, <3>2
    <2>3. \A n \in 0 .. N : n = 0 \/ n \in 1 .. N
      BY <1>1
    <2> QED
      BY <1>4, <2>1, <2>2, <2>3
  <1>6. ASSUME NEW g, Def(g) PROVE g[N] \in W
    <2>1. \A n \in 0 .. N : g[n] = IF n = 0 THEN d ELSE Made(g[n - 1], d.tasks[n].id)
      BY <1>6
    <2> DEFINE S == {n \in 0 .. N : g[n] \in W}
    <2>2. 0 \in S
      BY <1>1, <2>1
    <2>3. ASSUME NEW n \in 1 .. N, n - 1 \in S PROVE n \in S
      <3>1. n \in 0 .. N /\ n # 0 /\ g[n - 1] \in W
        BY <1>1, <2>3
      <3>2. g[n] = Made(g[n - 1], d.tasks[n].id)
        BY <2>1, <3>1
      <3> QED
        BY <1>1, <1>2, <3>1, <3>2
    <2>4. 0 .. N \subseteq S
      <3> HIDE DEF S
      <3> QED
        BY <1>1, <2>2, <2>3, Counting
    <2> QED
      BY <1>1, <2>4
  <1>7. Def(CHOOSE g : Def(g))
    <2> HIDE DEF Def
    <2> QED
      BY <1>5, Zenon
  <1>8. Inherited(d, previous) = (CHOOSE g : Def(g))[N]
    BY DEF Inherited, Made, new
  <1> HIDE DEF Def
  <1>9. Inherited(d, previous) \in W
    BY <1>6, <1>7, <1>8
  <1> QED
    BY <1>9 DEF Siblings, W

\* The profile dialog changes profiles only.
LEMMA ProfiledSound ==
  ASSUME NEW d, Sound(d), NEW task \in Ids(d.tasks), NEW T \in SUBSET Int,
         NEW times \in [Ids(d.resources) -> T \cup {Unassigned}]
  PROVE  LET e == ProfilesEdited(d, task, times)
         IN  Sound(e) /\ e.tasks = d.tasks /\ e.resources = d.resources /\ e.routes = d.routes
  <1> DEFINE W == Siblings(d)
             N == Len(d.resources)
             Made(e, r) == IF times[r] = Unassigned THEN RemoveProfile(e, task, r) ELSE SetProfile(e, task, r, times[r])
             step == [n \in 1 .. N |-> [e \in W |-> Made(e, d.resources[n].id)]]
  <1>1. N \in Nat /\ d \in W /\ \A n \in 1 .. N : d.resources[n].id \in Ids(d.resources)
    BY Parts DEF Siblings, Sound, Ids
  <1>2. ASSUME NEW e \in W, NEW r \in Ids(d.resources) PROVE Made(e, r) \in W
    <2>1. Sound(e) /\ e.tasks = d.tasks /\ e.resources = d.resources /\ e.routes = d.routes
      BY DEF Siblings
    <2>2. CASE times[r] = Unassigned
      <3> DEFINE f == RemoveProfile(e, task, r)
      <3>1. Sound(f) /\ f.tasks = e.tasks /\ f.resources = e.resources /\ f.routes = e.routes
        BY <2>1, RemoveProfileSound
      <3> HIDE DEF f
      <3>2. f \in W
        BY <2>1, <3>1 DEF Siblings, Sound
      <3> QED
        BY <2>2, <3>2 DEF f
    <2>3. CASE times[r] # Unassigned
      <3> DEFINE f == SetProfile(e, task, r, times[r])
      <3>1. times[r] \in Int
        BY <2>3
      <3>2. Sound(f) /\ f.tasks = e.tasks /\ f.resources = e.resources /\ f.routes = e.routes
        BY <2>1, <3>1, SetProfileSound
      <3> HIDE DEF f
      <3>3. f \in W
        BY <2>1, <3>2 DEF Siblings, Sound
      <3> QED
        BY <2>3, <3>3 DEF f
    <2> QED
      BY <2>2, <2>3
  <1> HIDE DEF W, Made
  <1>3. step \in [1 .. N -> [W -> W]]
    BY <1>1, <1>2
  <1>4. PICK f \in [0 .. N -> W] : Steps(f, d, step, N)
    <2> HIDE DEF step, N
    <2> QED
      BY <1>1, <1>3, Built
  <1> DEFINE Def(g) == g = [n \in 0 .. N |-> IF n = 0 THEN d ELSE Made(g[n - 1], d.resources[n].id)]
  <1>5. Def(f)
    <2>1. f[0] = d
      BY <1>4 DEF Steps
    <2>2. ASSUME NEW n \in 1 .. N PROVE f[n] = Made(f[n - 1], d.resources[n].id)
      <3>1. n - 1 \in 0 .. N /\ f[n - 1] \in W
        <4>1. N \in Nat /\ n \in 1 .. N /\ f \in [0 .. N -> W]
          BY <1>1, <1>4
        <4> HIDE DEF N, step
        <4>2. n - 1 \in 0 .. N
          BY <4>1
        <4> QED
          BY <4>1, <4>2
      <3>2. f[n] = step[n][f[n - 1]]
        BY <1>4 DEF Steps
      <3> QED
        BY <3>1, <3>2
    <2>3. \A n \in 0 .. N : n = 0 \/ n \in 1 .. N
      BY <1>1
    <2> QED
      BY <1>4, <2>1, <2>2, <2>3
  <1>6. ASSUME NEW g, Def(g) PROVE g[N] \in W
    <2>1. \A n \in 0 .. N : g[n] = IF n = 0 THEN d ELSE Made(g[n - 1], d.resources[n].id)
      BY <1>6
    <2> DEFINE S == {n \in 0 .. N : g[n] \in W}
    <2>2. 0 \in S
      BY <1>1, <2>1
    <2>3. ASSUME NEW n \in 1 .. N, n - 1 \in S PROVE n \in S
      <3>1. n \in 0 .. N /\ n # 0 /\ g[n - 1] \in W
        BY <1>1, <2>3
      <3>2. g[n] = Made(g[n - 1], d.resources[n].id)
        BY <2>1, <3>1
      <3> QED
        BY <1>1, <1>2, <3>1, <3>2
    <2>4. 0 .. N \subseteq S
      <3> HIDE DEF S
      <3> QED
        BY <1>1, <2>2, <2>3, Counting
    <2> QED
      BY <1>1, <2>4
  <1>7. Def(CHOOSE g : Def(g))
    <2> HIDE DEF Def
    <2> QED
      BY <1>5, Zenon
  <1>8. ProfilesEdited(d, task, times) = (CHOOSE g : Def(g))[N]
    BY DEF ProfilesEdited, Made
  <1> HIDE DEF Def
  <1>9. ProfilesEdited(d, task, times) \in W
    BY <1>6, <1>7, <1>8
  <1> QED
    BY <1>9 DEF Siblings, W

-----------------------------------------------------------------------------
(* The diagnostics and the constructors decide alike. *)

\* As many values as places: no value occurs twice.
LEMMA AllDifferent ==
  ASSUME NEW n \in Nat, NEW f
  PROVE  Cardinality({f[i] : i \in 1 .. n}) = n <=> \A i, j \in 1 .. n : f[i] = f[j] => i = j
  <1> DEFINE S == {f[i] : i \in 1 .. n}
             g == [i \in 1 .. n |-> f[i]]
  <1>1. IsFiniteSet(1 .. n) /\ Cardinality(1 .. n) = n
    BY FS_Interval
  <1>2. g \in Surjection(1 .. n, S)
    BY DEF Surjection
  <1>3. Cardinality(S) = n <=> g \in Injection(1 .. n, S)
    <2> HIDE DEF g, S
    <2> QED
      BY <1>1, <1>2, FS_Surjection
  <1>4. g \in Injection(1 .. n, S) <=> \A i, j \in 1 .. n : f[i] = f[j] => i = j
    BY DEF Injection, IsInjective
  <1> QED
    BY <1>3, <1>4

\* A count that is the number of rows says that their identifiers differ.
LEMMA DifferentIds ==
  ASSUME NEW V, NEW rows \in Seq(V)
  PROVE  Cardinality({rows[i].id : i \in DOMAIN rows}) = Len(rows)
         <=> \A i, j \in DOMAIN rows : rows[i].id = rows[j].id => i = j
  <1> DEFINE n == Len(rows)
             f == [i \in 1 .. n |-> rows[i].id]
  <1>1. n \in Nat /\ DOMAIN rows = 1 .. n
    OBVIOUS
  <1>2. {rows[i].id : i \in DOMAIN rows} = {f[i] : i \in 1 .. n}
    BY <1>1
  <1>3. \A i \in 1 .. n : f[i] = rows[i].id
    OBVIOUS
  <1> HIDE DEF f, n
  <1>4. Cardinality({f[i] : i \in 1 .. n}) = n <=> \A i, j \in 1 .. n : f[i] = f[j] => i = j
    BY <1>1, AllDifferent
  <1> QED
    BY <1>1, <1>2, <1>3, <1>4 DEF n

\* The same for names.
LEMMA DifferentNames ==
  ASSUME NEW V, NEW rows \in Seq(V)
  PROVE  Cardinality({rows[i].name : i \in DOMAIN rows}) = Len(rows)
         <=> \A i, j \in DOMAIN rows : rows[i].name = rows[j].name => i = j
  <1> DEFINE n == Len(rows)
             f == [i \in 1 .. n |-> rows[i].name]
  <1>1. n \in Nat /\ DOMAIN rows = 1 .. n
    OBVIOUS
  <1>2. {rows[i].name : i \in DOMAIN rows} = {f[i] : i \in 1 .. n}
    BY <1>1
  <1>3. \A i \in 1 .. n : f[i] = rows[i].name
    OBVIOUS
  <1> HIDE DEF f, n
  <1>4. Cardinality({f[i] : i \in 1 .. n}) = n <=> \A i, j \in 1 .. n : f[i] = f[j] => i = j
    BY <1>1, AllDifferent
  <1> QED
    BY <1>1, <1>2, <1>3, <1>4 DEF n

\* The same for the pairs that profiles are for.
LEMMA DifferentProfiles ==
  ASSUME NEW V, NEW rows \in Seq(V)
  PROVE  Cardinality({<<rows[i].task, rows[i].resource>> : i \in DOMAIN rows}) = Len(rows)
         <=> \A i, j \in DOMAIN rows : rows[i].task = rows[j].task /\ rows[i].resource = rows[j].resource => i = j
  <1> DEFINE n == Len(rows)
             f == [i \in 1 .. n |-> <<rows[i].task, rows[i].resource>>]
  <1>1. n \in Nat /\ DOMAIN rows = 1 .. n
    OBVIOUS
  <1>2. {<<rows[i].task, rows[i].resource>> : i \in DOMAIN rows} = {f[i] : i \in 1 .. n}
    BY <1>1
  <1>3. \A i \in 1 .. n : f[i] = <<rows[i].task, rows[i].resource>>
    OBVIOUS
  <1>5. \A i, j \in 1 .. n : f[i] = f[j] <=> rows[i].task = rows[j].task /\ rows[i].resource = rows[j].resource
    OBVIOUS
  <1> HIDE DEF f, n
  <1>4. Cardinality({f[i] : i \in 1 .. n}) = n <=> \A i, j \in 1 .. n : f[i] = f[j] => i = j
    BY <1>1, AllDifferent
  <1>6. (\A i, j \in 1 .. n : f[i] = f[j] => i = j)
        <=> \A i, j \in DOMAIN rows : rows[i].task = rows[j].task /\ rows[i].resource = rows[j].resource => i = j
    BY <1>1, <1>5
  <1> QED
    BY <1>2, <1>4, <1>6 DEF n

\* The same for the pairs that routes connect.
LEMMA DifferentRoutes ==
  ASSUME NEW V, NEW rows \in Seq(V)
  PROVE  Cardinality({<<rows[i].source, rows[i].destination>> : i \in DOMAIN rows}) = Len(rows)
         <=> \A i, j \in DOMAIN rows : rows[i].source = rows[j].source /\ rows[i].destination = rows[j].destination => i = j
  <1> DEFINE n == Len(rows)
             f == [i \in 1 .. n |-> <<rows[i].source, rows[i].destination>>]
  <1>1. n \in Nat /\ DOMAIN rows = 1 .. n
    OBVIOUS
  <1>2. {<<rows[i].source, rows[i].destination>> : i \in DOMAIN rows} = {f[i] : i \in 1 .. n}
    BY <1>1
  <1>3. \A i \in 1 .. n : f[i] = <<rows[i].source, rows[i].destination>>
    OBVIOUS
  <1>5. \A i, j \in 1 .. n : f[i] = f[j] <=> rows[i].source = rows[j].source /\ rows[i].destination = rows[j].destination
    OBVIOUS
  <1> HIDE DEF f, n
  <1>4. Cardinality({f[i] : i \in 1 .. n}) = n <=> \A i, j \in 1 .. n : f[i] = f[j] => i = j
    BY <1>1, AllDifferent
  <1>6. (\A i, j \in 1 .. n : f[i] = f[j] => i = j)
        <=> \A i, j \in DOMAIN rows : rows[i].source = rows[j].source /\ rows[i].destination = rows[j].destination => i = j
    BY <1>1, <1>5
  <1> QED
    BY <1>2, <1>4, <1>6 DEF n

\* What the diagnostics of one table ask.
RowsFine(rows) ==
    /\ rows # <<>>
    /\ \A i \in DOMAIN rows : rows[i].id # 0 /\ rows[i].name # <<>>
    /\ \A i, j \in DOMAIN rows : (rows[i].id = rows[j].id \/ rows[i].name = rows[j].name) => i = j

\* A table has no diagnostics exactly when it is fine.
LEMMA RowsDecided ==
  ASSUME NEW V, NEW rows \in Seq(V), NEW what
  PROVE  RowDiagnostics(what, rows) = {} <=> RowsFine(rows)
  <1> DEFINE Twice == {i \in DOMAIN rows : \E j \in 1 .. i - 1 : rows[i].id = rows[j].id}
             Named == {i \in DOMAIN rows : \E j \in 1 .. i - 1 : rows[i].name = rows[j].name}
             A == IF rows = <<>> THEN {<<"Required", "System", 0>>} ELSE {}
             B == {<<"NonPositive", what, i>> : i \in {n \in DOMAIN rows : rows[n].id = 0}}
             C == {<<"RequiredName", what, i>> : i \in {n \in DOMAIN rows : rows[n].name = <<>>}}
             D == {<<"Duplicate", what, i>> : i \in Twice}
             E == {<<"DuplicateName", what, i>> : i \in {n \in Named : rows[n].name # <<>>}}
  <1>1. RowDiagnostics(what, rows) = A \cup B \cup C \cup D \cup E
    BY DEF RowDiagnostics, Repeated
  <1>2. A = {} <=> rows # <<>>
    OBVIOUS
  <1>3. B = {} <=> \A i \in DOMAIN rows : rows[i].id # 0
    OBVIOUS
  <1>4. C = {} <=> \A i \in DOMAIN rows : rows[i].name # <<>>
    OBVIOUS
  <1>5. D = {} <=> \A i \in DOMAIN rows : \A j \in 1 .. i - 1 : rows[i].id # rows[j].id
    OBVIOUS
  <1>6. E = {} <=> \A i \in DOMAIN rows : \A j \in 1 .. i - 1 : rows[i].name = rows[j].name => rows[i].name = <<>>
    OBVIOUS
  <1>7. RowDiagnostics(what, rows) = {} <=> A = {} /\ B = {} /\ C = {} /\ D = {} /\ E = {}
    <2> HIDE DEF A, B, C, D, E
    <2> QED
      BY <1>1
  <1> HIDE DEF A, B, C, D, E, Twice, Named
  <1>8. ASSUME NEW i \in DOMAIN rows, NEW j \in DOMAIN rows, i # j
        PROVE  i \in 1 .. j - 1 \/ j \in 1 .. i - 1
    <2>1. i \in Nat /\ j \in Nat /\ i >= 1 /\ j >= 1
      OBVIOUS
    <2> QED
      BY <1>8, <2>1
  <1>9. \A i \in DOMAIN rows : \A j \in 1 .. i - 1 : j \in DOMAIN rows /\ i # j
    OBVIOUS
  <1>10. ASSUME RowDiagnostics(what, rows) = {} PROVE RowsFine(rows)
    <2>1. \A i \in DOMAIN rows : rows[i].name # <<>>
      BY <1>4, <1>7, <1>10
    <2>2. \A i \in DOMAIN rows : \A j \in 1 .. i - 1 : rows[i].id # rows[j].id /\ rows[i].name # rows[j].name
      BY <1>5, <1>6, <1>7, <1>10, <2>1
    <2>3. \A i, j \in DOMAIN rows : (rows[i].id = rows[j].id \/ rows[i].name = rows[j].name) => i = j
      BY <1>8, <2>2
    <2> QED
      BY <1>2, <1>3, <1>7, <1>10, <2>1, <2>3 DEF RowsFine
  <1>11. ASSUME RowsFine(rows) PROVE RowDiagnostics(what, rows) = {}
    <2>1. \A i, j \in DOMAIN rows : (rows[i].id = rows[j].id \/ rows[i].name = rows[j].name) => i = j
      BY <1>11 DEF RowsFine
    <2>2. \A i \in DOMAIN rows : \A j \in 1 .. i - 1 : rows[i].id # rows[j].id /\ rows[i].name # rows[j].name
      BY <1>9, <2>1
    <2> QED
      BY <1>2, <1>3, <1>4, <1>5, <1>6, <1>7, <1>11, <2>2 DEF RowsFine
  <1> QED
    BY <1>10, <1>11

\* What the diagnostics ask of the timings, the profiles and the routes.
TimingsFine(tasks) ==
    \A i \in DOMAIN tasks :
        LET t == tasks[i].timing IN t.period > 0 /\ t.deadline > 0 /\ t.offset >= 0 /\ t.priority >= 0

\* What the diagnostics of the profiles ask.
ProfilesFine(d) ==
    /\ \A n \in DOMAIN d.profiles :
           LET p == d.profiles[n]
           IN  Has(d.tasks, p.task) /\ Has(d.resources, p.resource) /\ p.time > 0
               /\ p.time <= d.tasks[At(d.tasks, p.task)].timing.deadline
    /\ \A i, j \in DOMAIN d.profiles :
           d.profiles[i].task = d.profiles[j].task /\ d.profiles[i].resource = d.profiles[j].resource => i = j
    /\ \A n \in DOMAIN d.tasks : \E k \in DOMAIN d.profiles : d.profiles[k].task = d.tasks[n].id

\* What the diagnostics of the routes ask.
RoutesFine(d) ==
    /\ \A n \in DOMAIN d.routes :
           LET r == d.routes[n]
           IN  Has(d.tasks, r.source) /\ Has(d.tasks, r.destination) /\ r.delay >= 0 /\ (r.kind = Logical => r.delay = 0)
    /\ \A i, j \in DOMAIN d.routes :
           d.routes[i].source = d.routes[j].source /\ d.routes[i].destination = d.routes[j].destination => i = j

\* No timing is diagnosed exactly when every timing is fine.
LEMMA TimingsDecided ==
  ASSUME NEW tasks \in Seq(TaskRows)
  PROVE  TimingDiagnostics(tasks) = {} <=> TimingsFine(tasks)
  <1> DEFINE Bad(t) == t.period <= 0 \/ t.deadline <= 0 \/ t.offset < 0 \/ t.priority < 0
  <1>1. TimingDiagnostics(tasks) = {} <=> \A n \in DOMAIN tasks : ~ Bad(tasks[n].timing)
    BY DEF TimingDiagnostics
  <1>2. ASSUME NEW t \in Timings PROVE ~ Bad(t) <=> t.period > 0 /\ t.deadline > 0 /\ t.offset >= 0 /\ t.priority >= 0
    BY DEF Timings
  <1>3. ASSUME NEW n \in DOMAIN tasks PROVE tasks[n].timing \in Timings
    <2>1. ASSUME NEW r \in TaskRows PROVE r.timing \in Timings
      BY DEF TaskRows
    <2> QED
      BY <2>1
  <1> HIDE DEF Bad
  <1> QED
    BY <1>1, <1>2, <1>3 DEF TimingsFine

\* No profile is diagnosed exactly when all are fine.
LEMMA ProfilesDecided ==
  ASSUME NEW d, Sound(d), d.tasks # <<>>
  PROVE  ProfileDiagnostics(d) = {} <=> ProfilesFine(d)
  <1> DEFINE profiles == d.profiles
             A == {n \in DOMAIN profiles : ~ Has(d.tasks, profiles[n].task) \/ ~ Has(d.resources, profiles[n].resource)}
             B == {n \in DOMAIN profiles : profiles[n].time <= 0}
             C == {n \in DOMAIN profiles : Has(d.tasks, profiles[n].task)
                                           /\ profiles[n].time > d.tasks[At(d.tasks, profiles[n].task)].timing.deadline}
             D == {i \in DOMAIN profiles : \E j \in 1 .. i - 1 :
                       <<profiles[i].task, profiles[i].resource>> = <<profiles[j].task, profiles[j].resource>>}
             E == {n \in DOMAIN d.tasks : \A k \in DOMAIN profiles : profiles[k].task # d.tasks[n].id}
  <1>1. ProfileDiagnostics(d) = {<<"Unknown", "ExecutionProfile", i>> : i \in A}
            \cup {<<"NonPositive", "ExecutionProfile", i>> : i \in B}
            \cup {<<"ExceedsDeadline", "ExecutionProfile", i>> : i \in C}
            \cup {<<"Duplicate", "ExecutionProfile", i>> : i \in D}
            \cup {<<"RequiredProfile", "Task", i>> : i \in E}
    BY DEF ProfileDiagnostics, Repeated
  <1>2. ProfileDiagnostics(d) = {} <=> A = {} /\ B = {} /\ C = {} /\ D = {} /\ E = {}
    <2> HIDE DEF A, B, C, D, E
    <2> QED
      BY <1>1
  <1>3. profiles \in Seq(ProfileRows) /\ d.tasks \in Seq(TaskRows)
    BY Parts
  <1>4. A = {} <=> \A n \in DOMAIN profiles : Has(d.tasks, profiles[n].task) /\ Has(d.resources, profiles[n].resource)
    OBVIOUS
  <1>5. B = {} <=> \A n \in DOMAIN profiles : profiles[n].time > 0
    <2>1. ASSUME NEW n \in DOMAIN profiles PROVE profiles[n].time \in Int
      <3>1. ASSUME NEW r \in ProfileRows PROVE r.time \in Int
        BY DEF ProfileRows
      <3> QED
        BY <1>3, <3>1
    <2>2. \A n \in DOMAIN profiles : profiles[n].time <= 0 <=> ~ (profiles[n].time > 0)
      BY <2>1
    <2> HIDE DEF profiles
    <2> QED
      BY <2>2
  <1>6. (\A n \in DOMAIN profiles : Has(d.tasks, profiles[n].task))
        => (C = {} <=> \A n \in DOMAIN profiles : profiles[n].time <= d.tasks[At(d.tasks, profiles[n].task)].timing.deadline)
    <2> SUFFICES ASSUME \A n \in DOMAIN profiles : Has(d.tasks, profiles[n].task)
                 PROVE  C = {} <=> \A n \in DOMAIN profiles :
                                       profiles[n].time <= d.tasks[At(d.tasks, profiles[n].task)].timing.deadline
      OBVIOUS
    <2>1. ASSUME NEW n \in DOMAIN profiles
          PROVE  profiles[n].time > d.tasks[At(d.tasks, profiles[n].task)].timing.deadline
                 <=> ~ (profiles[n].time <= d.tasks[At(d.tasks, profiles[n].task)].timing.deadline)
      <3> DEFINE a == At(d.tasks, profiles[n].task)
                 p == profiles[n]
      <3>1. a \in DOMAIN d.tasks
        BY <1>3, AtRow
      <3> HIDE DEF a
      <3>2. d.tasks[a] \in TaskRows /\ p \in ProfileRows
        BY <1>3, <3>1
      <3> HIDE DEF p
      <3>3. p.time \in Int /\ d.tasks[a].timing.deadline \in Int
        <4>1. ASSUME NEW r \in TaskRows PROVE r.timing.deadline \in Int
          BY DEF TaskRows, Timings
        <4>2. p.time \in Int
          BY <3>2 DEF ProfileRows
        <4> QED
          BY <3>2, <4>1, <4>2
      <3>4. p.time > d.tasks[a].timing.deadline <=> ~ (p.time <= d.tasks[a].timing.deadline)
        BY <3>3
      <3> QED
        BY <3>4 DEF a, p
    <2> HIDE DEF profiles
    <2> QED
      BY <2>1
  <1>7. D = {} <=> \A i, j \in DOMAIN profiles :
                       profiles[i].task = profiles[j].task /\ profiles[i].resource = profiles[j].resource => i = j
    <2>1. ASSUME NEW i \in DOMAIN profiles, NEW j \in DOMAIN profiles, i # j
          PROVE  i \in 1 .. j - 1 \/ j \in 1 .. i - 1
      <3>1. i \in Nat /\ j \in Nat /\ i >= 1 /\ j >= 1
        BY <1>3
      <3> QED
        BY <2>1, <3>1
    <2>2. \A i \in DOMAIN profiles : \A j \in 1 .. i - 1 : j \in DOMAIN profiles /\ i # j
      BY <1>3
    <2>3. \A i, j : <<profiles[i].task, profiles[i].resource>> = <<profiles[j].task, profiles[j].resource>>
                    <=> profiles[i].task = profiles[j].task /\ profiles[i].resource = profiles[j].resource
      OBVIOUS
    <2>4. D = {} <=> \A i \in DOMAIN profiles : \A j \in 1 .. i - 1 :
                         ~ (profiles[i].task = profiles[j].task /\ profiles[i].resource = profiles[j].resource)
      BY <2>3
    <2> HIDE DEF D, profiles
    <2> QED
      BY <2>1, <2>2, <2>4
  <1>8. E = {} <=> \A n \in DOMAIN d.tasks : \E k \in DOMAIN profiles : profiles[k].task = d.tasks[n].id
    OBVIOUS
  <1>9. ProfilesFine(d) <=>
            /\ \A n \in DOMAIN profiles : Has(d.tasks, profiles[n].task) /\ Has(d.resources, profiles[n].resource)
            /\ \A n \in DOMAIN profiles : profiles[n].time > 0
            /\ \A n \in DOMAIN profiles : profiles[n].time <= d.tasks[At(d.tasks, profiles[n].task)].timing.deadline
            /\ \A i, j \in DOMAIN profiles :
                   profiles[i].task = profiles[j].task /\ profiles[i].resource = profiles[j].resource => i = j
            /\ \A n \in DOMAIN d.tasks : \E k \in DOMAIN profiles : profiles[k].task = d.tasks[n].id
    BY DEF ProfilesFine
  <1> HIDE DEF A, B, C, D, E, profiles
  <1> QED
    BY <1>2, <1>4, <1>5, <1>6, <1>7, <1>8, <1>9

\* No route is diagnosed exactly when all are fine.
LEMMA RoutesDecided ==
  ASSUME NEW d, Sound(d)
  PROVE  RouteDiagnostics(d) = {} <=> RoutesFine(d)
  <1> DEFINE routes == d.routes
             A == {n \in DOMAIN routes : ~ Has(d.tasks, routes[n].source) \/ ~ Has(d.tasks, routes[n].destination)}
             B == {n \in DOMAIN routes : IF routes[n].kind = Logical THEN routes[n].delay # 0 ELSE routes[n].delay < 0}
             C == {i \in DOMAIN routes : \E j \in 1 .. i - 1 :
                       <<routes[i].source, routes[i].destination>> = <<routes[j].source, routes[j].destination>>}
  <1>1. RouteDiagnostics(d) = {<<"Unknown", "MessageRoute", i>> : i \in A}
            \cup {<<"Delay", "MessageRoute", i>> : i \in B} \cup {<<"Duplicate", "MessageRoute", i>> : i \in C}
    BY DEF RouteDiagnostics, Repeated
  <1>2. RouteDiagnostics(d) = {} <=> A = {} /\ B = {} /\ C = {}
    <2> HIDE DEF A, B, C
    <2> QED
      BY <1>1
  <1>3. routes \in Seq(RouteRows)
    BY Parts
  <1>4. A = {} <=> \A n \in DOMAIN routes : Has(d.tasks, routes[n].source) /\ Has(d.tasks, routes[n].destination)
    OBVIOUS
  <1>5. B = {} <=> \A n \in DOMAIN routes : routes[n].delay >= 0 /\ (routes[n].kind = Logical => routes[n].delay = 0)
    <2>1. ASSUME NEW n \in DOMAIN routes PROVE routes[n].delay \in Int
      <3>1. ASSUME NEW r \in RouteRows PROVE r.delay \in Int
        BY DEF RouteRows
      <3> QED
        BY <1>3, <3>1
    <2>2. \A n \in DOMAIN routes : (IF routes[n].kind = Logical THEN routes[n].delay # 0 ELSE routes[n].delay < 0)
                                   <=> ~ (routes[n].delay >= 0 /\ (routes[n].kind = Logical => routes[n].delay = 0))
      BY <2>1
    <2> HIDE DEF routes
    <2> QED
      BY <2>2
  <1>6. C = {} <=> \A i, j \in DOMAIN routes :
                       routes[i].source = routes[j].source /\ routes[i].destination = routes[j].destination => i = j
    <2>1. ASSUME NEW i \in DOMAIN routes, NEW j \in DOMAIN routes, i # j
          PROVE  i \in 1 .. j - 1 \/ j \in 1 .. i - 1
      <3>1. i \in Nat /\ j \in Nat /\ i >= 1 /\ j >= 1
        BY <1>3
      <3> QED
        BY <2>1, <3>1
    <2>2. \A i \in DOMAIN routes : \A j \in 1 .. i - 1 : j \in DOMAIN routes /\ i # j
      BY <1>3
    <2>3. \A i, j : <<routes[i].source, routes[i].destination>> = <<routes[j].source, routes[j].destination>>
                    <=> routes[i].source = routes[j].source /\ routes[i].destination = routes[j].destination
      OBVIOUS
    <2>4. C = {} <=> \A i \in DOMAIN routes : \A j \in 1 .. i - 1 :
                         ~ (routes[i].source = routes[j].source /\ routes[i].destination = routes[j].destination)
      BY <2>3
    <2> HIDE DEF C, routes
    <2> QED
      BY <2>1, <2>2, <2>4
  <1>7. RoutesFine(d) <=>
            /\ \A n \in DOMAIN routes : Has(d.tasks, routes[n].source) /\ Has(d.tasks, routes[n].destination)
            /\ \A n \in DOMAIN routes : routes[n].delay >= 0 /\ (routes[n].kind = Logical => routes[n].delay = 0)
            /\ \A i, j \in DOMAIN routes :
                   routes[i].source = routes[j].source /\ routes[i].destination = routes[j].destination => i = j
    BY DEF RoutesFine
  <1> HIDE DEF A, B, C, routes
  <1> QED
    BY <1>2, <1>4, <1>5, <1>6, <1>7

\* A draft without diagnostics.
Fine(d) ==
    /\ d.tick_period > 0 /\ RowsFine(d.resources) /\ RowsFine(d.tasks)
    /\ TimingsFine(d.tasks) /\ ProfilesFine(d) /\ RoutesFine(d)

\* All diagnostics together.
LEMMA DiagnosticsDecided ==
  ASSUME NEW d, Sound(d)
  PROVE  Diagnostics(d) = {} <=> Fine(d)
  <1> DEFINE A == IF d.tick_period <= 0 THEN {<<"NonPositive", "System", 0>>} ELSE {}
  <1>1. d.tick_period \in Int /\ d.resources \in Seq(ResourceRows) /\ d.tasks \in Seq(TaskRows)
    BY Parts
  <1>2. A = {} <=> d.tick_period > 0
    <2>1. d.tick_period <= 0 <=> ~ (d.tick_period > 0)
      BY <1>1
    <2>2. <<"NonPositive", "System", 0>> \in A <=> d.tick_period <= 0
      OBVIOUS
    <2>3. \A x \in A : d.tick_period <= 0
      OBVIOUS
    <2> QED
      BY <2>1, <2>2, <2>3
  <1>3. /\ RowDiagnostics("Resource", d.resources) = {} <=> RowsFine(d.resources)
        /\ RowDiagnostics("Task", d.tasks) = {} <=> RowsFine(d.tasks)
        /\ TimingDiagnostics(d.tasks) = {} <=> TimingsFine(d.tasks)
        /\ RouteDiagnostics(d) = {} <=> RoutesFine(d)
    BY <1>1, RowsDecided, TimingsDecided, RoutesDecided
  <1>4. RowsFine(d.tasks) => (ProfileDiagnostics(d) = {} <=> ProfilesFine(d))
    BY ProfilesDecided DEF RowsFine
  <1>5. Diagnostics(d) = A \cup RowDiagnostics("Resource", d.resources) \cup RowDiagnostics("Task", d.tasks)
                         \cup TimingDiagnostics(d.tasks) \cup ProfileDiagnostics(d) \cup RouteDiagnostics(d)
    BY DEF Diagnostics
  <1> HIDE DEF A
  <1>6. Diagnostics(d) = {} <=> /\ A = {} /\ RowDiagnostics("Resource", d.resources) = {}
                                /\ RowDiagnostics("Task", d.tasks) = {} /\ TimingDiagnostics(d.tasks) = {}
                                /\ ProfileDiagnostics(d) = {} /\ RouteDiagnostics(d) = {}
    BY <1>5
  <1> QED
    BY <1>2, <1>3, <1>4, <1>6 DEF Fine

\* What the constructors ask of one table.
Tables(rows) ==
    /\ Cardinality({rows[i].id : i \in DOMAIN rows}) = Len(rows)
    /\ Cardinality({rows[i].name : i \in DOMAIN rows}) = Len(rows)
    /\ <<>> \notin Names(rows)

\* What the constructors ask of a table, and that no identifier is 0, is what its diagnostics ask.
LEMMA TableDecided ==
  ASSUME NEW V, NEW rows \in Seq(V)
  PROVE  rows # <<>> /\ Tables(rows) /\ 0 \notin Ids(rows) <=> RowsFine(rows)
  <1>1. Cardinality({rows[i].id : i \in DOMAIN rows}) = Len(rows)
        <=> \A i, j \in DOMAIN rows : rows[i].id = rows[j].id => i = j
    BY DifferentIds
  <1>2. Cardinality({rows[i].name : i \in DOMAIN rows}) = Len(rows)
        <=> \A i, j \in DOMAIN rows : rows[i].name = rows[j].name => i = j
    BY DifferentNames
  <1>3. <<>> \notin Names(rows) <=> \A i \in DOMAIN rows : rows[i].name # <<>>
    BY DEF Names
  <1>4. 0 \notin Ids(rows) <=> \A i \in DOMAIN rows : rows[i].id # 0
    BY DEF Ids
  <1> QED
    BY <1>1, <1>2, <1>3, <1>4 DEF Tables, RowsFine

\* The other things the constructors ask.
TasksTaken(d) ==
    \A i \in DOMAIN d.tasks :
        LET task == d.tasks[i]
        IN  /\ task.timing.period > 0 /\ task.timing.deadline > 0
            /\ task.timing.offset >= 0 /\ task.timing.priority >= 0
            /\ \E n \in DOMAIN d.profiles : d.profiles[n].task = task.id
            /\ \A n \in DOMAIN d.profiles :
                   d.profiles[n].task = task.id => d.profiles[n].time <= task.timing.deadline

\* What the constructors ask of the profiles.
ProfilesTaken(d) ==
    /\ Cardinality({<<d.profiles[i].task, d.profiles[i].resource>> : i \in DOMAIN d.profiles}) = Len(d.profiles)
    /\ \A n \in DOMAIN d.profiles : d.profiles[n].task \in Ids(d.tasks) /\ d.profiles[n].resource \in Ids(d.resources)
                                    /\ d.profiles[n].time > 0

\* What the constructors ask of the routes.
RoutesTaken(d) ==
    /\ Cardinality({<<d.routes[i].source, d.routes[i].destination>> : i \in DOMAIN d.routes}) = Len(d.routes)
    /\ \A n \in DOMAIN d.routes :
           LET r == d.routes[n]
           IN  {r.source, r.destination} \subseteq Ids(d.tasks) /\ r.delay >= 0 /\ (r.kind = Logical => r.delay = 0)

\* The constructors ask it part by part.
LEMMA ConfigParts ==
  ASSUME NEW d, Sound(d)
  PROVE  ConfigAccepts(d) <=> /\ d.tick_period > 0 /\ d.resources # <<>> /\ d.tasks # <<>> /\ d.profiles # <<>>
                              /\ Tables(d.resources) /\ Tables(d.tasks)
                              /\ TasksTaken(d) /\ ProfilesTaken(d) /\ RoutesTaken(d)
  <1> DEFINE brief == [i \in DOMAIN d.tasks |-> [id |-> d.tasks[i].id, name |-> d.tasks[i].name]]
  <1>1. ConfigAccepts(d) <=> /\ d.tick_period > 0 /\ d.resources # <<>> /\ d.tasks # <<>> /\ d.profiles # <<>>
                             /\ Tables(d.resources) /\ Tables(brief)
                             /\ TasksTaken(d) /\ ProfilesTaken(d) /\ RoutesTaken(d)
    BY DEF ConfigAccepts, Distinct, Tables, TasksTaken, ProfilesTaken, RoutesTaken
  <1>2. DOMAIN d.tasks = 1 .. Len(d.tasks) /\ Len(d.tasks) \in Nat
    BY Parts
  <1>3. DOMAIN brief = DOMAIN d.tasks /\ Len(brief) = Len(d.tasks)
    BY <1>2
  <1>4. \A i \in DOMAIN d.tasks : brief[i].id = d.tasks[i].id /\ brief[i].name = d.tasks[i].name
    OBVIOUS
  <1> HIDE DEF brief
  <1>5. {brief[i].id : i \in DOMAIN brief} = {d.tasks[i].id : i \in DOMAIN d.tasks}
    BY <1>3, <1>4
  <1>6. {brief[i].name : i \in DOMAIN brief} = {d.tasks[i].name : i \in DOMAIN d.tasks}
    BY <1>3, <1>4
  <1>7. Tables(brief) <=> Tables(d.tasks)
    BY <1>3, <1>5, <1>6 DEF Tables, Names
  <1> QED
    BY <1>1, <1>7

\* Where no identifier occurs twice, the first row with it is the only one.
LEMMA AtOnly ==
  ASSUME NEW V, NEW rows \in Seq(V), \A i, j \in DOMAIN rows : rows[i].id = rows[j].id => i = j, NEW n \in DOMAIN rows
  PROVE  At(rows, rows[n].id) = n
  <1>1. Has(rows, rows[n].id)
    BY DEF Has
  <1>2. At(rows, rows[n].id) \in DOMAIN rows /\ rows[At(rows, rows[n].id)].id = rows[n].id
    BY <1>1, AtRow
  <1> QED
    BY <1>2

\* The drafts without diagnostics are the ones the constructors take, with positive identifiers.
LEMMA DiagnosticsAgree ==
  ASSUME NEW d, Sound(d)
  PROVE  Diagnostics(d) = {} <=> ConfigAccepts(d) /\ 0 \notin Ids(d.tasks) \cup Ids(d.resources)
  <1>1. /\ d.resources \in Seq(ResourceRows) /\ d.tasks \in Seq(TaskRows)
        /\ d.profiles \in Seq(ProfileRows) /\ d.routes \in Seq(RouteRows)
    BY Parts
  <1>2. /\ d.resources # <<>> /\ Tables(d.resources) /\ 0 \notin Ids(d.resources) <=> RowsFine(d.resources)
    BY <1>1, TableDecided
  <1>3. d.tasks # <<>> /\ Tables(d.tasks) /\ 0 \notin Ids(d.tasks) <=> RowsFine(d.tasks)
    BY <1>1, TableDecided
  <1>4. RoutesTaken(d) <=> RoutesFine(d)
    <2>1. Cardinality({<<d.routes[i].source, d.routes[i].destination>> : i \in DOMAIN d.routes}) = Len(d.routes)
          <=> \A i, j \in DOMAIN d.routes :
                  d.routes[i].source = d.routes[j].source /\ d.routes[i].destination = d.routes[j].destination => i = j
      BY <1>1, DifferentRoutes
    <2>2. ASSUME NEW r
          PROVE  {r.source, r.destination} \subseteq Ids(d.tasks) <=> Has(d.tasks, r.source) /\ Has(d.tasks, r.destination)
      BY IdsHas
    <2> QED
      BY <2>1, <2>2 DEF RoutesTaken, RoutesFine
  <1>5. ProfilesTaken(d) <=>
            /\ \A i, j \in DOMAIN d.profiles :
                   d.profiles[i].task = d.profiles[j].task /\ d.profiles[i].resource = d.profiles[j].resource => i = j
            /\ \A n \in DOMAIN d.profiles : Has(d.tasks, d.profiles[n].task) /\ Has(d.resources, d.profiles[n].resource)
                                            /\ d.profiles[n].time > 0
    <2>1. Cardinality({<<d.profiles[i].task, d.profiles[i].resource>> : i \in DOMAIN d.profiles}) = Len(d.profiles)
          <=> \A i, j \in DOMAIN d.profiles :
                  d.profiles[i].task = d.profiles[j].task /\ d.profiles[i].resource = d.profiles[j].resource => i = j
      BY <1>1, DifferentProfiles
    <2> QED
      BY <2>1, IdsHas DEF ProfilesTaken
  <1>6. ASSUME \A i, j \in DOMAIN d.tasks : d.tasks[i].id = d.tasks[j].id => i = j
        PROVE  TasksTaken(d) /\ ProfilesTaken(d) <=> TimingsFine(d.tasks) /\ ProfilesFine(d)
    <2>1. \A i \in DOMAIN d.tasks : At(d.tasks, d.tasks[i].id) = i
      BY <1>1, <1>6, AtOnly
    <2>2. ASSUME ProfilesTaken(d), TasksTaken(d) PROVE ProfilesFine(d) /\ TimingsFine(d.tasks)
      <3>1. ASSUME NEW n \in DOMAIN d.profiles
            PROVE  d.profiles[n].time <= d.tasks[At(d.tasks, d.profiles[n].task)].timing.deadline
        <4>1. PICK i \in DOMAIN d.tasks : d.tasks[i].id = d.profiles[n].task
          BY <1>5, <2>2 DEF Has
        <4> QED
          BY <2>1, <2>2, <4>1 DEF TasksTaken
      <3>2. \A i \in DOMAIN d.tasks : \E k \in DOMAIN d.profiles : d.profiles[k].task = d.tasks[i].id
        BY <2>2 DEF TasksTaken
      <3> QED
        BY <1>5, <2>2, <3>1, <3>2 DEF ProfilesFine, TimingsFine, TasksTaken
    <2>3. ASSUME ProfilesFine(d), TimingsFine(d.tasks) PROVE ProfilesTaken(d) /\ TasksTaken(d)
      <3>1. ProfilesTaken(d)
        BY <1>5, <2>3 DEF ProfilesFine
      <3>2. ASSUME NEW i \in DOMAIN d.tasks, NEW n \in DOMAIN d.profiles, d.profiles[n].task = d.tasks[i].id
            PROVE  d.profiles[n].time <= d.tasks[i].timing.deadline
        <4>1. d.profiles[n].time <= d.tasks[At(d.tasks, d.profiles[n].task)].timing.deadline
          BY <2>3 DEF ProfilesFine
        <4> QED
          BY <2>1, <3>2, <4>1
      <3>3. \A i \in DOMAIN d.tasks : \E k \in DOMAIN d.profiles : d.profiles[k].task = d.tasks[i].id
        BY <2>3 DEF ProfilesFine
      <3> QED
        BY <2>3, <3>1, <3>2, <3>3 DEF TimingsFine, TasksTaken
    <2> QED
      BY <2>2, <2>3
  <1>7. RowsFine(d.tasks) => \A i, j \in DOMAIN d.tasks : d.tasks[i].id = d.tasks[j].id => i = j
    BY DEF RowsFine
  <1>8. d.tasks # <<>> /\ ProfilesFine(d) => d.profiles # <<>>
    <2> SUFFICES ASSUME d.tasks # <<>>, ProfilesFine(d) PROVE d.profiles # <<>>
      OBVIOUS
    <2>1. 1 \in DOMAIN d.tasks
      BY <1>1
    <2>2. \E k \in DOMAIN d.profiles : d.profiles[k].task = d.tasks[1].id
      BY <2>1 DEF ProfilesFine
    <2> QED
      BY <1>1, <2>2
  <1>9. ASSUME Fine(d) PROVE ConfigAccepts(d) /\ 0 \notin Ids(d.tasks) \cup Ids(d.resources)
    <2>1. RowsFine(d.tasks) /\ RowsFine(d.resources) /\ TimingsFine(d.tasks) /\ ProfilesFine(d) /\ RoutesFine(d) /\ d.tick_period > 0
      BY <1>9 DEF Fine
    <2>2. TasksTaken(d) /\ ProfilesTaken(d)
      BY <1>6, <1>7, <2>1
    <2> QED
      BY <1>2, <1>3, <1>4, <1>8, <2>1, <2>2, ConfigParts
  <1>10. ASSUME ConfigAccepts(d), 0 \notin Ids(d.tasks) \cup Ids(d.resources) PROVE Fine(d)
    <2>1. /\ d.tick_period > 0 /\ d.resources # <<>> /\ d.tasks # <<>> /\ Tables(d.resources) /\ Tables(d.tasks)
          /\ TasksTaken(d) /\ ProfilesTaken(d) /\ RoutesTaken(d)
      BY <1>10, ConfigParts
    <2>2. RowsFine(d.tasks) /\ RowsFine(d.resources)
      BY <1>2, <1>3, <1>10, <2>1
    <2>3. TimingsFine(d.tasks) /\ ProfilesFine(d)
      BY <1>6, <1>7, <2>1, <2>2
    <2> QED
      BY <1>4, <2>1, <2>2, <2>3 DEF Fine
  <1> QED
    BY <1>9, <1>10, DiagnosticsDecided

-----------------------------------------------------------------------------
(* Plans: what is built of a draft can run. *)

\* The rows of the assignments.
AssignmentRows == [task : Nat, resource : Nat \cup {Unassigned}]

\* The row a plan keeps for a task.
LEMMA ChosenRow ==
  ASSUME NEW d, Sound(d), NEW A \in Seq(AssignmentRows), PlanAccepts(d, A), NEW i \in DOMAIN d.tasks
  PROVE  LET m == Min(Chosen(A, d.tasks[i].id))
         IN  /\ m \in DOMAIN A /\ A[m].task = d.tasks[i].id /\ A[m].resource # Unassigned
             /\ Has(d.resources, A[m].resource) /\ HasProfile(d, d.tasks[i].id, A[m].resource)
  <1> DEFINE S == Chosen(A, d.tasks[i].id)
  <1>1. d.tasks[i].id \in Ids(d.tasks)
    BY DEF Ids
  <1>2. Cardinality(S) = 1 /\ \A n \in S : Has(d.resources, A[n].resource) /\ HasProfile(d, d.tasks[i].id, A[n].resource)
    BY <1>1 DEF PlanAccepts
  <1>3. S # {}
    <2> HIDE DEF S
    <2>1. Cardinality({}) = 0
      BY FS_EmptySet
    <2>2. S = {} => Cardinality(S) = Cardinality({})
      OBVIOUS
    <2> QED
      BY <1>2, <2>1, <2>2
  <1>4. S \in SUBSET Nat
    BY DEF Chosen, RowsOf
  <1>5. Min(S) \in S
    <2> HIDE DEF S
    <2> QED
      BY <1>3, <1>4, First
  <1>6. \A n \in S : n \in DOMAIN A /\ A[n].task = d.tasks[i].id /\ A[n].resource # Unassigned
    BY DEF Chosen, RowsOf
  <1> HIDE DEF S
  <1> QED
    BY <1>2, <1>5, <1>6 DEF S

\* The tasks of an accepted configuration have different identifiers.
LEMMA TasksDifferent ==
  ASSUME NEW d, Sound(d), ConfigAccepts(d), NEW i \in DOMAIN d.tasks, NEW j \in DOMAIN d.tasks, d.tasks[i].id = d.tasks[j].id
  PROVE  i = j
  <1>1. d.tasks \in Seq(TaskRows)
    BY Parts
  <1>2. Cardinality({d.tasks[k].id : k \in DOMAIN d.tasks}) = Len(d.tasks)
    BY ConfigParts DEF Tables
  <1> QED
    BY <1>1, <1>2, DifferentIds

\* The plan made of complete assignments is complete, and in the order of the tasks.
LEMMA CanonicalRuns ==
  ASSUME NEW d, Sound(d), ConfigAccepts(d), NEW A \in Seq(AssignmentRows), PlanAccepts(d, A)
  PROVE  Canonical(d, A) \in Seq(AssignmentRows) /\ Runnable(d, Canonical(d, A))
  <1> DEFINE C == Canonical(d, A)
             N == Len(d.tasks)
  <1>1. N \in Nat /\ DOMAIN d.tasks = 1 .. N
    BY Parts
  <1>2. C = [i \in 1 .. N |-> C[i]] /\ \A i \in 1 .. N : C[i] = A[Min(Chosen(A, d.tasks[i].id))]
    BY <1>1 DEF Canonical
  <1> HIDE DEF C, N
  <1>3. ASSUME NEW i \in 1 .. N
        PROVE  /\ C[i] \in AssignmentRows /\ C[i].task = d.tasks[i].id /\ C[i].resource # Unassigned
               /\ Has(d.resources, C[i].resource) /\ HasProfile(d, d.tasks[i].id, C[i].resource)
    <2> DEFINE m == Min(Chosen(A, d.tasks[i].id))
    <2>1. /\ m \in DOMAIN A /\ A[m].task = d.tasks[i].id /\ A[m].resource # Unassigned
          /\ Has(d.resources, A[m].resource) /\ HasProfile(d, d.tasks[i].id, A[m].resource)
      BY <1>1, ChosenRow
    <2>2. C[i] = A[m]
      BY <1>2
    <2> HIDE DEF m
    <2>3. A[m] \in AssignmentRows
      BY <2>1
    <2> QED
      BY <2>1, <2>2, <2>3
  <1>4. C \in Seq(AssignmentRows) /\ DOMAIN C = 1 .. N
    BY <1>1, <1>2, <1>3, Sequence
  <1>5. ASSUME NEW i \in 1 .. N PROVE Chosen(C, d.tasks[i].id) = {i}
    <2>1. \A j \in 1 .. N : j \in Chosen(C, d.tasks[i].id) <=> d.tasks[j].id = d.tasks[i].id
      BY <1>3, <1>4 DEF Chosen, RowsOf
    <2>2. Chosen(C, d.tasks[i].id) \subseteq 1 .. N
      BY <1>4 DEF Chosen, RowsOf
    <2>3. \A j \in 1 .. N : d.tasks[j].id = d.tasks[i].id => j = i
      BY <1>1, TasksDifferent
    <2> QED
      BY <2>1, <2>2, <2>3
  <1>6. PlanAccepts(d, C)
    <2>1. \A i \in DOMAIN C : Has(d.tasks, C[i].task)
      BY <1>1, <1>3, <1>4 DEF Has
    <2>2. ASSUME NEW task \in Ids(d.tasks)
          PROVE  /\ Cardinality(Chosen(C, task)) = 1
                 /\ \A i \in Chosen(C, task) : Has(d.resources, C[i].resource) /\ HasProfile(d, task, C[i].resource)
      <3>1. PICK i \in 1 .. N : d.tasks[i].id = task
        BY <1>1 DEF Ids
      <3>2. Chosen(C, task) = {i}
        BY <1>5, <3>1
      <3>3. Cardinality({i}) = 1
        BY FS_Singleton
      <3> QED
        BY <1>3, <3>1, <3>2, <3>3
    <2> QED
      BY <2>1, <2>2 DEF PlanAccepts
  <1>7. Canonical(d, C) = C
    <2>1. \A i \in 1 .. N : C[Min(Chosen(C, d.tasks[i].id))] = C[i]
      <3> SUFFICES ASSUME NEW i \in 1 .. N PROVE C[Min(Chosen(C, d.tasks[i].id))] = C[i]
        OBVIOUS
      <3>1. Min({i}) = i
        <4>1. i \in Nat
          BY <1>1
        <4> QED
          BY <4>1, OnlyOne
      <3> QED
        BY <1>5, <3>1
    <2>2. Canonical(d, C) = [i \in 1 .. N |-> C[Min(Chosen(C, d.tasks[i].id))]]
      BY <1>1 DEF Canonical
    <2> QED
      BY <1>2, <2>1, <2>2
  <1> QED
    BY <1>4, <1>6, <1>7 DEF Runnable, C

\* A plan that runs lists the tasks in their order, on resources that exist.
LEMMA RunnableOrdered ==
  ASSUME NEW d, Sound(d), NEW A \in Seq(AssignmentRows), Runnable(d, A)
  PROVE  /\ Len(A) = Len(d.tasks)
         /\ \A i \in DOMAIN d.tasks : A[i].task = d.tasks[i].id
         /\ \A i \in DOMAIN A : A[i].resource \in Ids(d.resources)
  <1> DEFINE N == Len(d.tasks)
  <1>1. N \in Nat /\ DOMAIN d.tasks = 1 .. N
    BY Parts
  <1>2. PlanAccepts(d, A) /\ A = Canonical(d, A)
    BY DEF Runnable
  <1>3. DOMAIN A = 1 .. N /\ \A i \in 1 .. N : A[i] = A[Min(Chosen(A, d.tasks[i].id))]
    <2> DEFINE C == Canonical(d, A)
    <2>1. DOMAIN C = 1 .. N /\ \A i \in 1 .. N : C[i] = A[Min(Chosen(A, d.tasks[i].id))]
      BY <1>1 DEF Canonical
    <2> HIDE DEF C
    <2>2. A = C
      BY <1>2 DEF C
    <2> QED
      BY <2>1, <2>2
  <1>4. Len(A) = N
    BY <1>1, <1>3
  <1>5. ASSUME NEW i \in 1 .. N PROVE A[i].task = d.tasks[i].id /\ A[i].resource \in Ids(d.resources)
    <2> DEFINE m == Min(Chosen(A, d.tasks[i].id))
    <2>1. A[m].task = d.tasks[i].id /\ Has(d.resources, A[m].resource)
      BY <1>1, <1>2, ChosenRow
    <2>2. A[i] = A[m]
      BY <1>3
    <2> HIDE DEF m
    <2> QED
      BY <2>1, <2>2, IdsHas
  <1> QED
    BY <1>1, <1>3, <1>4, <1>5

-----------------------------------------------------------------------------
(* Snapshots: what the undo stack holds and restoring makes of it. *)

\* Assignments name resources of a table, or none.
Fits(rows, resources) ==
    rows \in Seq(AssignmentRows) /\ \A n \in DOMAIN rows : rows[n].resource \in Ids(resources) \cup {Unassigned}

\* What can be selected.
Kinds == {"System", "Resource", "Resources", "Task", "Tasks", "Profile", "Profiles", Logical, Communication, "Routes"}
Selections == [kind : Kinds, key : Seq(Nat)]

\* Snapshots of a sound draft whose assignments fit; a draft with changes has a selection that
\* exists.  After an edit it exists in any case.
Snapshots ==
    {s \in [draft : Drafts, baseline : Drafts, assignments : Seq(AssignmentRows), selection : Selections] :
        /\ Sound(s.draft) /\ Fits(s.assignments, s.draft.resources)
        /\ s.draft # s.baseline => Resolves(s.selection, s.draft)}
Edited == {s \in Snapshots : Resolves(s.selection, s.draft)}

\* The assignments list the tasks in order.
InOrder(s) ==
    /\ Len(s.assignments) = Len(s.draft.tasks)
    /\ \A i \in DOMAIN s.draft.tasks : s.assignments[i].task = s.draft.tasks[i].id

\* The resource of a task, or none.
LEMMA AssignmentFits ==
  ASSUME NEW rows, NEW resources, Fits(rows, resources), NEW task
  PROVE  AssignmentOf(rows, task) \in Ids(resources) \cup {Unassigned}
  <1> DEFINE S == RowsOf(rows, task)
  <1>1. S \in SUBSET Nat /\ S \subseteq DOMAIN rows
    BY DEF Fits, RowsOf
  <1>2. CASE S = {}
    BY <1>2 DEF AssignmentOf
  <1>3. CASE S # {}
    <2>1. Min(S) \in S
      <3> HIDE DEF S
      <3> QED
        BY <1>1, <1>3, First
    <2>2. rows[Min(S)].resource \in Ids(resources) \cup {Unassigned}
      <3> HIDE DEF S
      <3> QED
        BY <1>1, <2>1 DEF Fits
    <2> QED
      BY <1>3, <2>2 DEF AssignmentOf
  <1> QED
    BY <1>2, <1>3

\* Synchronized assignments fit and are in the order of the tasks.
LEMMA SynchronizedFits ==
  ASSUME NEW d, Sound(d), NEW rows, Fits(rows, d.resources)
  PROVE  LET A == Synchronized(d, rows)
         IN  /\ Fits(A, d.resources) /\ Len(A) = Len(d.tasks)
             /\ \A i \in DOMAIN d.tasks : A[i].task = d.tasks[i].id
  <1> DEFINE A == Synchronized(d, rows)
             N == Len(d.tasks)
  <1>1. N \in Nat /\ DOMAIN d.tasks = 1 .. N
    BY Parts
  <1>2. A = [i \in 1 .. N |-> A[i]]
        /\ \A i \in 1 .. N : A[i] = [task |-> d.tasks[i].id, resource |-> AssignmentOf(rows, d.tasks[i].id)]
    BY <1>1 DEF Synchronized
  <1>3. ASSUME NEW i \in 1 .. N
        PROVE  A[i] \in AssignmentRows /\ A[i].task = d.tasks[i].id /\ A[i].resource \in Ids(d.resources) \cup {Unassigned}
    <2>1. AssignmentOf(rows, d.tasks[i].id) \in Ids(d.resources) \cup {Unassigned}
      BY AssignmentFits
    <2>2. d.tasks[i].id \in Nat /\ Ids(d.resources) \subseteq Nat
      BY <1>1, IdsNumbers DEF Ids
    <2>3. A[i] = [task |-> d.tasks[i].id, resource |-> AssignmentOf(rows, d.tasks[i].id)]
      BY <1>2
    <2> HIDE DEF A
    <2> QED
      BY <2>1, <2>2, <2>3 DEF AssignmentRows
  <1> HIDE DEF A, N
  <1>4. A \in Seq(AssignmentRows) /\ DOMAIN A = 1 .. N /\ Len(A) = N
    BY <1>1, <1>2, <1>3, Sequence
  <1> QED
    BY <1>1, <1>3, <1>4 DEF Fits, A, N

\* Restoring a snapshot.
LEMMA RestoredInOrder ==
  ASSUME NEW s \in Snapshots
  PROVE  Restored(s) \in Snapshots /\ InOrder(Restored(s))
  <1> DEFINE A == Synchronized(s.draft, s.assignments)
             r == [s EXCEPT !.assignments = A]
  <1>1. /\ Sound(s.draft) /\ Fits(s.assignments, s.draft.resources)
        /\ s.draft # s.baseline => Resolves(s.selection, s.draft)
    BY DEF Snapshots
  <1>2. Fits(A, s.draft.resources) /\ Len(A) = Len(s.draft.tasks) /\ \A i \in DOMAIN s.draft.tasks : A[i].task = s.draft.tasks[i].id
    BY <1>1, SynchronizedFits
  <1>3. A \in Seq(AssignmentRows)
    BY <1>2 DEF Fits
  <1>4. Restored(s) = r
    BY DEF Restored
  <1> HIDE DEF A
  <1>5. /\ r \in [draft : Drafts, baseline : Drafts, assignments : Seq(AssignmentRows), selection : Selections]
        /\ r.draft = s.draft /\ r.assignments = A /\ r.selection = s.selection /\ r.baseline = s.baseline
    BY <1>3 DEF Snapshots
  <1> HIDE DEF r
  <1> QED
    BY <1>1, <1>2, <1>4, <1>5 DEF Snapshots, InOrder

\* A project that runs opens in a snapshot.
LEMMA InitializedInOrder ==
  ASSUME NEW a, a.system \in Drafts, a.plan.assignments \in Seq(AssignmentRows), Runnable(a.system, a.plan.assignments)
  PROVE  /\ Initialized(a) \in Snapshots /\ InOrder(Initialized(a)) /\ Sound(a.system)
         /\ Initialized(a).draft = Initialized(a).baseline
  <1> DEFINE d == a.system
             A == a.plan.assignments
             s == Initialized(a)
  <1>1. Sound(d)
    <2>1. ConfigAccepts(d)
      BY DEF Runnable
    <2>2. \A n \in DOMAIN d.profiles : d.profiles[n].task \in Ids(d.tasks) /\ d.profiles[n].resource \in Ids(d.resources)
      BY <2>1 DEF ConfigAccepts
    <2>3. \A n \in DOMAIN d.routes : d.routes[n].source \in Ids(d.tasks) /\ d.routes[n].destination \in Ids(d.tasks)
      BY <2>1 DEF ConfigAccepts
    <2> QED
      BY <2>2, <2>3 DEF Sound, Closure
  <1>2. /\ Len(A) = Len(d.tasks) /\ \A i \in DOMAIN d.tasks : A[i].task = d.tasks[i].id
        /\ \A i \in DOMAIN A : A[i].resource \in Ids(d.resources)
    BY <1>1, RunnableOrdered
  <1>3. /\ s \in [draft : Drafts, baseline : Drafts, assignments : Seq(AssignmentRows), selection : Selections]
        /\ s.draft = d /\ s.baseline = d /\ s.assignments = A /\ s.selection = SelectSystem
    <2>1. SelectSystem \in Selections
      BY DEF SelectSystem, Select, Selections, Kinds
    <2> HIDE DEF s, d, A
    <2>2. s = [draft |-> d, baseline |-> d, assignments |-> A, selection |-> SelectSystem] /\ d \in Drafts
          /\ A \in Seq(AssignmentRows)
      BY DEF Initialized, s, d, A
    <2> QED
      BY <2>1, <2>2
  <1>4. Resolves(SelectSystem, d)
    BY DEF Resolves, SelectSystem, Select, Communication
  <1> HIDE DEF s, A, d
  <1>5. Fits(A, d.resources)
    BY <1>2 DEF Fits, A
  <1> QED
    BY <1>1, <1>2, <1>3, <1>4, <1>5 DEF Snapshots, InOrder, s, d

\* It may have any selection then: there are no changes.
LEMMA SelectionKept ==
  ASSUME NEW a, a.system \in Drafts, a.plan.assignments \in Seq(AssignmentRows), Runnable(a.system, a.plan.assignments),
         NEW selection \in Selections
  PROVE  LET s == [Initialized(a) EXCEPT !.selection = selection] IN s \in Snapshots /\ InOrder(s)
  <1> DEFINE i == Initialized(a)
             s == [i EXCEPT !.selection = selection]
  <1>1. i \in Snapshots /\ InOrder(i) /\ i.draft = i.baseline
    BY InitializedInOrder
  <1> HIDE DEF i
  <1>2. /\ s \in [draft : Drafts, baseline : Drafts, assignments : Seq(AssignmentRows), selection : Selections]
        /\ s.draft = i.draft /\ s.baseline = i.baseline /\ s.assignments = i.assignments
    BY <1>1 DEF Snapshots
  <1>3. Sound(i.draft) /\ Fits(i.assignments, i.draft.resources)
    BY <1>1 DEF Snapshots
  <1> HIDE DEF s
  <1>4. s \in Snapshots /\ InOrder(s)
    BY <1>1, <1>2, <1>3 DEF Snapshots, InOrder
  <1> QED
    BY <1>4 DEF s, i

\* Assignments fit a draft with at least the same resources.
LEMMA FitsMore ==
  ASSUME NEW rows, NEW R, NEW S, Fits(rows, R), Ids(R) \subseteq Ids(S)
  PROVE  Fits(rows, S)
  BY DEF Fits

\* Selections that need no row, and what the others need.
LEMMA Selected ==
  ASSUME NEW k \in Kinds, NEW a \in Nat, NEW b \in Nat
  PROVE  Select(k, <<>>) \in Selections /\ Select(k, <<a>>) \in Selections /\ Select(k, <<a, b>>) \in Selections
  BY DEF Select, Selections

\* A section of the Explorer is always there.
LEMMA SectionResolves ==
  ASSUME NEW k \in {"System", "Resources", "Tasks", "Profiles", "Routes", Logical}, NEW key, NEW d
  PROVE  Resolves(Select(k, key), d)
  BY DEF Resolves, Select, Logical, Communication

\* The selection of a row needs the row.
LEMMA RowResolves ==
  ASSUME NEW a, NEW b, NEW d
  PROVE  /\ Resolves(Select("Resource", <<a>>), d) <=> a \in Ids(d.resources)
         /\ Resolves(Select("Task", <<a>>), d) <=> a \in Ids(d.tasks)
         /\ Resolves(Select("Profile", <<a, b>>), d) <=> HasProfile(d, a, b)
         /\ Resolves(Select(Communication, <<a, b>>), d) <=> HasRoute(d, a, b)
  BY IdsHas DEF Resolves, Select, Communication

\* A snapshot with another draft, another selection, other assignments.
Redrawn(s, d, A, selection) == [s EXCEPT !.draft = d, !.assignments = A, !.selection = selection]
Turned(s, d, selection) == [s EXCEPT !.draft = d, !.selection = selection]

\* What is known of a snapshot.
LEMMA SnapshotParts ==
  ASSUME NEW s \in Snapshots
  PROVE  /\ Sound(s.draft) /\ s.baseline \in Drafts /\ Fits(s.assignments, s.draft.resources)
         /\ s.selection \in Selections /\ (s.draft # s.baseline => Resolves(s.selection, s.draft))
         /\ s.assignments \in Seq(AssignmentRows)
  BY DEF Snapshots

\* It is a snapshot when what it is given fits.
LEMMA RedrawnSnapshot ==
  ASSUME NEW s \in Snapshots, NEW d, Sound(d), NEW A, Fits(A, d.resources), NEW selection \in Selections, Resolves(selection, d)
  PROVE  Redrawn(s, d, A, selection) \in Edited
  <1> DEFINE r == Redrawn(s, d, A, selection)
  <1>1. d \in Drafts /\ A \in Seq(AssignmentRows)
    BY DEF Sound, Fits
  <1>2. /\ r \in [draft : Drafts, baseline : Drafts, assignments : Seq(AssignmentRows), selection : Selections]
        /\ r.draft = d /\ r.assignments = A /\ r.selection = selection
    BY <1>1 DEF Redrawn, Snapshots
  <1> HIDE DEF r
  <1> QED
    BY <1>2 DEF Snapshots, Edited, r

\* The same with the assignments it has.
LEMMA TurnedSnapshot ==
  ASSUME NEW s \in Snapshots, NEW d, Sound(d), Fits(s.assignments, d.resources), NEW selection \in Selections, Resolves(selection, d)
  PROVE  Turned(s, d, selection) \in Edited
  <1> DEFINE r == Turned(s, d, selection)
  <1>1. d \in Drafts
    BY DEF Sound
  <1>2. /\ r \in [draft : Drafts, baseline : Drafts, assignments : Seq(AssignmentRows), selection : Selections]
        /\ r.draft = d /\ r.assignments = s.assignments /\ r.selection = selection
    BY <1>1 DEF Turned, Snapshots
  <1> HIDE DEF r
  <1> QED
    BY <1>2 DEF Snapshots, Edited, r

\* A snapshot with only another draft, only other assignments, only another selection.
LEMMA PartSnapshot ==
  ASSUME NEW s \in Snapshots
  PROVE  /\ \A d : Sound(d) /\ Fits(s.assignments, d.resources) /\ Resolves(s.selection, d) => [s EXCEPT !.draft = d] \in Edited
         /\ s \in Edited => \A A : Fits(A, s.draft.resources) => [s EXCEPT !.assignments = A] \in Edited
         /\ \A selection \in Selections : Resolves(selection, s.draft) =>
                LET r == [s EXCEPT !.selection = selection]
                IN  r \in Edited /\ r.draft = s.draft /\ r.assignments = s.assignments /\ r.baseline = s.baseline
                    /\ r.selection = selection
  <1>1. ASSUME NEW d, Sound(d), Fits(s.assignments, d.resources), Resolves(s.selection, d) PROVE [s EXCEPT !.draft = d] \in Edited
    <2> DEFINE r == [s EXCEPT !.draft = d]
    <2>1. d \in Drafts
      BY <1>1 DEF Sound
    <2>2. /\ r \in [draft : Drafts, baseline : Drafts, assignments : Seq(AssignmentRows), selection : Selections]
          /\ r.draft = d /\ r.assignments = s.assignments /\ r.selection = s.selection
      BY <2>1 DEF Snapshots
    <2> HIDE DEF r
    <2>3. r \in Edited
      BY <1>1, <2>2 DEF Snapshots, Edited
    <2> QED
      BY <2>3 DEF r
  <1>2. ASSUME s \in Edited, NEW A, Fits(A, s.draft.resources) PROVE [s EXCEPT !.assignments = A] \in Edited
    <2> DEFINE r == [s EXCEPT !.assignments = A]
    <2>1. A \in Seq(AssignmentRows)
      BY <1>2 DEF Fits
    <2>2. /\ r \in [draft : Drafts, baseline : Drafts, assignments : Seq(AssignmentRows), selection : Selections]
          /\ r.draft = s.draft /\ r.assignments = A /\ r.selection = s.selection
      BY <2>1 DEF Snapshots
    <2> HIDE DEF r
    <2>3. r \in Edited
      BY <1>2, <2>2, SnapshotParts DEF Snapshots, Edited
    <2> QED
      BY <2>3 DEF r
  <1>3. ASSUME NEW selection \in Selections, Resolves(selection, s.draft)
        PROVE  LET r == [s EXCEPT !.selection = selection]
               IN  r \in Edited /\ r.draft = s.draft /\ r.assignments = s.assignments /\ r.baseline = s.baseline
                   /\ r.selection = selection
    <2> DEFINE r == [s EXCEPT !.selection = selection]
    <2>1. /\ r \in [draft : Drafts, baseline : Drafts, assignments : Seq(AssignmentRows), selection : Selections]
          /\ r.draft = s.draft /\ r.assignments = s.assignments /\ r.selection = selection /\ r.baseline = s.baseline
      BY DEF Snapshots
    <2> HIDE DEF r
    <2>2. r \in Edited
      BY <1>3, <2>1, SnapshotParts DEF Snapshots, Edited
    <2> QED
      BY <2>1, <2>2 DEF r
  <1> QED
    BY <1>1, <1>2, <1>3

-----------------------------------------------------------------------------
(* The inductive invariant. *)

\* An entry of the undo stack.
Pushed == [before : Snapshots, after : Edited]

\* A project that runs, and that a Bosch project may be.
Proper(k, a) ==
    /\ a.system \in Drafts /\ a.plan.assignments \in Seq(AssignmentRows)
    /\ Runnable(a.system, a.plan.assignments)
    /\ k = "generic" \/ KeepsInterface(a.system)

\* An open document is a snapshot with the assignments in order, both projects can run, and
\* undoing and redoing can only lead to snapshots.
DocumentInv ==
    /\ Open => document \in Snapshots /\ InOrder(document)
    /\ Proper(kind, applied) /\ Proper(kind, stored)
    /\ history \in Seq(Pushed) /\ position \in 0 .. Len(history)

\* Pushing two snapshots cuts what could be redone and restores the second.
LEMMA PushKeeps ==
  ASSUME DocumentInv, NEW before \in Snapshots, NEW after \in Edited, Push(before, after)
  PROVE  DocumentInv'
  <1> DEFINE entry == [before |-> before, after |-> after]
             top == SubSeq(history, 1, position)
  <1>1. history \in Seq(Pushed) /\ position \in 0 .. Len(history) /\ Len(history) \in Nat
    BY DEF DocumentInv
  <1>2. entry \in Pushed
    BY DEF Pushed
  <1>3. top \in Seq(Pushed) /\ Len(top) = position
    <2>1. position = 0 => top = <<>>
      BY <1>1
    <2>2. position # 0 => top \in Seq(Pushed) /\ Len(top) = position
      BY <1>1, SubSeqProperties
    <2> QED
      BY <1>1, <2>1, <2>2
  <1>4. /\ history' = Append(top, entry) /\ position' = position + 1 /\ document' = Restored(after)
        /\ kind' = kind /\ applied' = applied /\ stored' = stored
    BY DEF Push
  <1> HIDE DEF entry, top
  <1>5. Append(top, entry) \in Seq(Pushed) /\ Len(Append(top, entry)) = Len(top) + 1
    BY <1>2, <1>3
  <1>6. history' \in Seq(Pushed) /\ position' \in 0 .. Len(history')
    BY <1>1, <1>3, <1>4, <1>5
  <1>7. document' \in Snapshots /\ InOrder(document')
    BY <1>4, RestoredInOrder DEF Edited
  <1> QED
    BY <1>4, <1>6, <1>7 DEF DocumentInv, Open

-----------------------------------------------------------------------------
(* Edits keep the invariant. *)

\* What is known of an open document.
LEMMA OpenDocument ==
  ASSUME DocumentInv, Open
  PROVE  /\ document \in Snapshots /\ Sound(Draft) /\ Fits(document.assignments, Draft.resources)
         /\ document.selection \in Selections
         /\ document.assignments \in Seq(AssignmentRows) /\ document.baseline \in Drafts /\ document.draft = Draft
         /\ Len(document.assignments) = Len(Draft.tasks)
         /\ \A i \in DOMAIN Draft.tasks : document.assignments[i].task = Draft.tasks[i].id
  BY SnapshotParts DEF DocumentInv, InOrder, Draft

\* Selecting changes nothing else.
LEMMA OnSelection ==
  ASSUME DocumentInv, Open, NEW selection \in Selections, Resolves(selection, Draft)
  PROVE  /\ On(selection) \in Edited /\ On(selection) \in Snapshots /\ On(selection).draft = Draft /\ On(selection).selection = selection
         /\ On(selection).assignments = document.assignments /\ On(selection).baseline = document.baseline
  <1>1. document \in Snapshots /\ document.draft = Draft
    BY OpenDocument
  <1> QED
    BY <1>1, PartSnapshot DEF On, Edited

\* The user selects a row, then changes the draft.
LEMMA EditDraftKeeps ==
  ASSUME DocumentInv, Open, NEW selection \in Selections, Resolves(selection, Draft),
         NEW d, Sound(d), Ids(Draft.resources) \subseteq Ids(d.resources), Resolves(selection, d), EditDraft(selection, d)
  PROVE  DocumentInv'
  <1> DEFINE before == On(selection)
             after == [before EXCEPT !.draft = d]
  <1>1. /\ before \in Snapshots /\ before.selection = selection /\ before.assignments = document.assignments
    BY OnSelection
  <1>2. Fits(document.assignments, d.resources)
    BY OpenDocument, FitsMore
  <1>3. Push(before, after)
    BY DEF EditDraft
  <1> HIDE DEF before
  <1>4. after \in Edited
    BY <1>1, <1>2, PartSnapshot
  <1> HIDE DEF after
  <1> QED
    BY <1>1, <1>3, <1>4, PushKeeps

\* The user selects a row, or keeps the selection, then changes the draft, and another row is
\* selected.
LEMMA EditAndSelectKeeps ==
  ASSUME DocumentInv, Open, NEW selection \in Selections, Resolves(selection, Draft) \/ selection = document.selection,
         NEW d, Sound(d), Ids(Draft.resources) \subseteq Ids(d.resources),
         NEW next \in Selections, Resolves(next, d), EditAndSelect(selection, d, next)
  PROVE  DocumentInv'
  <1> DEFINE before == On(selection)
             after == Turned(before, d, next)
  <1>1. /\ before \in Snapshots /\ before.assignments = document.assignments
    <2>1. CASE Resolves(selection, Draft)
      BY <2>1, OnSelection
    <2>2. CASE selection = document.selection
      BY <2>2, OpenDocument DEF On, Snapshots
    <2> QED
      BY <2>1, <2>2
  <1>2. Fits(document.assignments, d.resources)
    BY OpenDocument, FitsMore
  <1>3. Push(before, after)
    BY DEF EditAndSelect, Turned
  <1> HIDE DEF before
  <1>4. after \in Edited
    BY <1>1, <1>2, TurnedSnapshot
  <1> HIDE DEF after
  <1> QED
    BY <1>1, <1>3, <1>4, PushKeeps

\* The assignments of what was created are complete.
LEMMA WithRowsFits ==
  ASSUME NEW d, Sound(d), NEW A, NEW R, Fits(A, R), Ids(R) \subseteq Ids(d.resources)
  PROVE  Fits(WithRows(d, A), d.resources)
  <1> DEFINE all == [i \in DOMAIN d.tasks |-> [task |-> d.tasks[i].id, resource |-> Unassigned]]
             places == {i \in DOMAIN d.tasks : RowsOf(A, d.tasks[i].id) = {}}
             b == RowsAt(all, places)
             N == Len(d.tasks)
  <1>1. N \in Nat /\ DOMAIN d.tasks = 1 .. N
    BY Parts
  <1>2. all = [i \in 1 .. N |-> all[i]]
    BY <1>1
  <1>3. \A i \in 1 .. N : all[i] \in AssignmentRows /\ all[i].resource = Unassigned
    <2>1. \A i \in 1 .. N : d.tasks[i].id \in Nat
      BY <1>1, IdsNumbers DEF Ids
    <2> QED
      BY <1>1, <2>1 DEF AssignmentRows
  <1> HIDE DEF all, places, N
  <1>4. all \in Seq(AssignmentRows) /\ DOMAIN all = 1 .. N
    BY <1>1, <1>2, <1>3, Sequence
  <1>5. b \in Seq(AssignmentRows) /\ \A n \in DOMAIN b : \E i \in DOMAIN all : i \in places /\ b[n] = all[i]
    <2>1. all \in Seq(AssignmentRows)
      BY <1>4
    <2> QED
      BY <2>1, KeptRows
  <1>6. WithRows(d, A) = A \o b
    BY DEF WithRows, all, places
  <1> HIDE DEF b
  <1>7. A \in Seq(AssignmentRows) /\ \A n \in DOMAIN A : A[n].resource \in Ids(d.resources) \cup {Unassigned}
    BY DEF Fits
  <1>8. \A n \in DOMAIN b : b[n].resource = Unassigned
    BY <1>3, <1>4, <1>5
  <1>9. /\ A \o b \in Seq(AssignmentRows) /\ Len(A \o b) = Len(A) + Len(b)
        /\ \A n \in 1 .. Len(A) + Len(b) : (A \o b)[n] = IF n <= Len(A) THEN A[n] ELSE b[n - Len(A)]
    BY <1>5, <1>7, ConcatProperties
  <1>10. ASSUME NEW n \in DOMAIN (A \o b) PROVE (A \o b)[n].resource \in Ids(d.resources) \cup {Unassigned}
    <2>1. Len(A) \in Nat /\ Len(b) \in Nat /\ n \in 1 .. Len(A) + Len(b) /\ DOMAIN A = 1 .. Len(A) /\ DOMAIN b = 1 .. Len(b)
      BY <1>5, <1>7, <1>9
    <2>2. CASE n <= Len(A)
      BY <1>7, <1>9, <2>1, <2>2
    <2>3. CASE ~ (n <= Len(A))
      <3>1. n - Len(A) \in DOMAIN b
        BY <2>1, <2>3
      <3> QED
        BY <1>8, <1>9, <2>1, <2>3, <3>1
    <2> QED
      BY <2>2, <2>3
  <1> QED
    BY <1>6, <1>9, <1>10 DEF Fits

\* What was created is selected.
LEMMA PushCreatedKeeps ==
  ASSUME DocumentInv, Open, NEW before \in Snapshots, before.draft = Draft, NEW d, Sound(d),
         Ids(Draft.resources) \subseteq Ids(d.resources),
         NEW selection \in Selections, Resolves(selection, d), PushCreated(before, d, selection)
  PROVE  DocumentInv'
  <1> DEFINE A == WithRows(d, before.assignments)
             after == Redrawn(before, d, A, selection)
  <1>1. Fits(before.assignments, Draft.resources)
    BY SnapshotParts
  <1>2. Fits(A, d.resources)
    BY <1>1, WithRowsFits
  <1>3. Push(before, after)
    BY DEF PushCreated, Redrawn
  <1> HIDE DEF A
  <1>4. after \in Edited
    BY <1>2, RedrawnSnapshot
  <1> HIDE DEF after
  <1> QED
    BY <1>3, <1>4, PushKeeps

\* The edits, one by one.
LEMMA TickPeriodKeeps ==
  ASSUME DocumentInv, Open, ChangeTickPeriod
  PROVE  DocumentInv'
  <1>1. PICK v \in NewPeriods : EditDraft(SelectSystem, [Draft EXCEPT !.tick_period = v])
    BY DEF ChangeTickPeriod
  <1> DEFINE d == [Draft EXCEPT !.tick_period = v]
  <1>2. Sound(d) /\ d.resources = Draft.resources
    <2>1. v \in Int
      BY DocumentAssumption
    <2>2. /\ d \in Drafts /\ d.resources = Draft.resources /\ d.tasks = Draft.tasks
          /\ d.profiles = Draft.profiles /\ d.routes = Draft.routes
      BY <2>1, OpenDocument DEF Sound, Drafts
    <2> HIDE DEF d
    <2> QED
      BY <2>2, OpenDocument DEF Sound
  <1>3. SelectSystem \in Selections /\ Resolves(SelectSystem, Draft) /\ Resolves(SelectSystem, d)
    BY Selected, SectionResolves DEF SelectSystem, Kinds
  <1> HIDE DEF d
  <1>4. EditDraft(SelectSystem, d)
    BY <1>1 DEF d
  <1> QED
    BY <1>2, <1>3, <1>4, EditDraftKeeps

\* A snapshot made of its parts.
LEMMA SnapshotMade ==
  ASSUME NEW d, Sound(d), NEW baseline \in Drafts, NEW A, Fits(A, d.resources), NEW selection \in Selections, Resolves(selection, d)
  PROVE  [draft |-> d, baseline |-> baseline, assignments |-> A, selection |-> selection] \in Edited
  <1>1. d \in Drafts /\ A \in Seq(AssignmentRows)
    BY DEF Sound, Fits
  <1> QED
    BY <1>1 DEF Snapshots, Edited

\* Renaming the resource, or the task, of assignments.
LEMMA ResourceRenamedFits ==
  ASSUME NEW rows, NEW R, Fits(rows, R), NEW S, NEW old, NEW new, new \in Nat \cup {Unassigned},
         Ids(R) \ {old} \subseteq Ids(S), new \in Ids(S) \cup {Unassigned}
  PROVE  Fits(ResourceRenamed(rows, old, new), S)
  <1> DEFINE A == ResourceRenamed(rows, old, new)
             N == Len(rows)
  <1>1. rows \in Seq(AssignmentRows) /\ N \in Nat /\ DOMAIN rows = 1 .. N
    BY DEF Fits
  <1>2. A = [n \in 1 .. N |-> A[n]] /\ \A n \in 1 .. N : A[n] = [rows[n] EXCEPT !.resource = Renamed(rows[n].resource, old, new)]
    BY <1>1 DEF ResourceRenamed
  <1> HIDE DEF A
  <1>3. ASSUME NEW n \in 1 .. N PROVE A[n] \in AssignmentRows /\ A[n].resource \in Ids(S) \cup {Unassigned}
    <2> DEFINE r == rows[n]
    <2>1. r \in AssignmentRows /\ r.resource \in Ids(R) \cup {Unassigned} /\ A[n] = [r EXCEPT !.resource = Renamed(r.resource, old, new)]
      BY <1>1, <1>2 DEF Fits
    <2> HIDE DEF r
    <2>2. Renamed(r.resource, old, new) \in Ids(S) \cup {Unassigned}
      BY <2>1 DEF Renamed
    <2>3. Renamed(r.resource, old, new) \in Nat \cup {Unassigned}
      BY <2>1 DEF Renamed, AssignmentRows
    <2> QED
      BY <2>1, <2>2, <2>3 DEF AssignmentRows
  <1> HIDE DEF N
  <1>4. A \in Seq(AssignmentRows) /\ DOMAIN A = 1 .. N
    BY <1>1, <1>2, <1>3, Sequence
  <1> QED
    BY <1>3, <1>4 DEF Fits, A

\* The same for tasks, which resources do not depend on.
LEMMA TaskRenamedFits ==
  ASSUME NEW rows, NEW R, Fits(rows, R), NEW old, NEW new \in Nat
  PROVE  Fits(TaskRenamed(rows, old, new), R)
  <1> DEFINE A == TaskRenamed(rows, old, new)
             N == Len(rows)
  <1>1. rows \in Seq(AssignmentRows) /\ N \in Nat /\ DOMAIN rows = 1 .. N
    BY DEF Fits
  <1>2. A = [n \in 1 .. N |-> A[n]] /\ \A n \in 1 .. N : A[n] = [rows[n] EXCEPT !.task = Renamed(rows[n].task, old, new)]
    BY <1>1 DEF TaskRenamed
  <1> HIDE DEF A
  <1>3. ASSUME NEW n \in 1 .. N PROVE A[n] \in AssignmentRows /\ A[n].resource \in Ids(R) \cup {Unassigned}
    <2> DEFINE r == rows[n]
    <2>1. r \in AssignmentRows /\ r.resource \in Ids(R) \cup {Unassigned} /\ A[n] = [r EXCEPT !.task = Renamed(r.task, old, new)]
      BY <1>1, <1>2 DEF Fits
    <2> HIDE DEF r
    <2>2. Renamed(r.task, old, new) \in Nat
      BY <2>1 DEF Renamed, AssignmentRows
    <2> QED
      BY <2>1, <2>2 DEF AssignmentRows
  <1> HIDE DEF N
  <1>4. A \in Seq(AssignmentRows) /\ DOMAIN A = 1 .. N
    BY <1>1, <1>2, <1>3, Sequence
  <1> QED
    BY <1>3, <1>4 DEF Fits, A

\* Some of the rows fit as well.
LEMMA KeptFit ==
  ASSUME NEW rows, NEW R, Fits(rows, R), NEW places
  PROVE  Fits(RowsAt(rows, places), R)
  <1> DEFINE A == RowsAt(rows, places)
  <1>1. rows \in Seq(AssignmentRows)
    BY DEF Fits
  <1>2. A \in Seq(AssignmentRows) /\ \A n \in DOMAIN A : \E i \in DOMAIN rows : i \in places /\ A[n] = rows[i]
    BY <1>1, KeptRows
  <1> HIDE DEF A
  <1> QED
    BY <1>2 DEF Fits, A

\* A resource is renamed, or gets another identifier, also one that is taken.
LEMMA EditResourceKeeps ==
  ASSUME DocumentInv, Open, EditResource
  PROVE  DocumentInv'
  <1> DEFINE R == Draft.resources
  <1>1. PICK i \in DOMAIN R :
            LET old == R[i].id
                selection == Select("Resource", <<old>>)
            IN  \/ \E name \in NewNames : EditDraft(selection, SetResourceName(Draft, i, name))
                \/ \E id \in NewIds :
                       Push(On(selection),
                            [draft |-> SetResourceId(Draft, i, id), baseline |-> document.baseline,
                             assignments |-> ResourceRenamed(document.assignments, old, id),
                             selection |-> Select("Resource", <<id>>)])
    BY DEF EditResource
  <1> DEFINE old == R[i].id
             selection == Select("Resource", <<old>>)
  <1>2. Sound(Draft) /\ document.baseline \in Drafts /\ Fits(document.assignments, Draft.resources)
    BY OpenDocument
  <1>3. old \in Ids(R) /\ old \in Nat
    BY <1>2, IdsNumbers DEF Ids
  <1>4. selection \in Selections /\ Resolves(selection, Draft)
    BY <1>3, Selected, RowResolves DEF Kinds
  <1>5. ASSUME NEW name \in NewNames, EditDraft(selection, SetResourceName(Draft, i, name)) PROVE DocumentInv'
    <2> DEFINE d == SetResourceName(Draft, i, name)
    <2>1. name \in Seq(Nat)
      BY DocumentAssumption
    <2>2. Sound(d) /\ Ids(d.resources) = Ids(R)
      BY <1>2, <2>1, SetNamesSound
    <2>3. Resolves(selection, d)
      BY <1>3, <2>2, RowResolves
    <2> HIDE DEF selection, d
    <2>4. EditDraft(selection, d)
      BY <1>5 DEF d
    <2> QED
      BY <1>4, <2>2, <2>3, <2>4, EditDraftKeeps
  <1>6. ASSUME NEW id \in NewIds,
               Push(On(selection),
                    [draft |-> SetResourceId(Draft, i, id), baseline |-> document.baseline,
                     assignments |-> ResourceRenamed(document.assignments, old, id),
                     selection |-> Select("Resource", <<id>>)])
        PROVE  DocumentInv'
    <2> DEFINE d == SetResourceId(Draft, i, id)
               A == ResourceRenamed(document.assignments, old, id)
               next == Select("Resource", <<id>>)
               after == [draft |-> d, baseline |-> document.baseline, assignments |-> A, selection |-> next]
    <2>1. id \in Nat
      BY DocumentAssumption
    <2>2. Sound(d) /\ id \in Ids(d.resources) /\ Ids(R) \ {old} \subseteq Ids(d.resources)
      BY <1>2, <2>1, SetResourceIdSound
    <2>3. Fits(A, d.resources)
      BY <1>2, <2>1, <2>2, ResourceRenamedFits
    <2>4. next \in Selections /\ Resolves(next, d)
      BY <2>1, <2>2, Selected, RowResolves DEF Kinds
    <2>5. Push(On(selection), after)
      BY <1>6
    <2> HIDE DEF d, A, next, selection
    <2>6. after \in Edited
      BY <1>2, <2>2, <2>3, <2>4, SnapshotMade
    <2>7. On(selection) \in Snapshots
      BY <1>4, OnSelection
    <2> HIDE DEF after
    <2> QED
      BY <2>5, <2>6, <2>7, PushKeeps
  <1> QED
    BY <1>1, <1>5, <1>6

\* A task is edited; another identifier may be one that is taken.
LEMMA EditTaskKeeps ==
  ASSUME DocumentInv, Open, EditTask
  PROVE  DocumentInv'
  <1> DEFINE T == Draft.tasks
  <1>1. PICK i \in DOMAIN T :
            LET old == T[i].id
                selection == Select("Task", <<old>>)
            IN  \/ \E name \in NewNames : EditDraft(selection, SetTaskName(Draft, i, name))
                \/ \E timing \in NewTimings : EditDraft(selection, SetTaskTiming(Draft, i, timing))
                \/ \E id \in NewIds :
                       Push(On(selection),
                            [draft |-> SetTaskId(Draft, i, id), baseline |-> document.baseline,
                             assignments |-> TaskRenamed(document.assignments, old, id),
                             selection |-> Select("Task", <<id>>)])
    BY DEF EditTask
  <1> DEFINE old == T[i].id
             selection == Select("Task", <<old>>)
  <1>2. Sound(Draft) /\ document.baseline \in Drafts /\ Fits(document.assignments, Draft.resources)
    BY OpenDocument
  <1>3. old \in Ids(T) /\ old \in Nat
    BY <1>2, IdsNumbers DEF Ids
  <1>4. selection \in Selections /\ Resolves(selection, Draft)
    BY <1>3, Selected, RowResolves DEF Kinds
  <1>5. ASSUME NEW d, Sound(d), d.resources = Draft.resources, Ids(d.tasks) = Ids(T), EditDraft(selection, d)
        PROVE  DocumentInv'
    <2>1. Resolves(selection, d)
      BY <1>3, <1>5, RowResolves
    <2> HIDE DEF selection
    <2> QED
      BY <1>4, <1>5, <2>1, EditDraftKeeps
  <1>6. ASSUME NEW name \in NewNames, EditDraft(selection, SetTaskName(Draft, i, name)) PROVE DocumentInv'
    <2> DEFINE d == SetTaskName(Draft, i, name)
    <2>1. name \in Seq(Nat)
      BY DocumentAssumption
    <2>2. Sound(d) /\ d.resources = Draft.resources /\ Ids(d.tasks) = Ids(T)
      BY <1>2, <2>1, SetNamesSound
    <2> HIDE DEF selection, d
    <2>3. EditDraft(selection, d)
      BY <1>6 DEF d
    <2> QED
      BY <1>5, <2>2, <2>3
  <1>7. ASSUME NEW timing \in NewTimings, EditDraft(selection, SetTaskTiming(Draft, i, timing)) PROVE DocumentInv'
    <2> DEFINE d == SetTaskTiming(Draft, i, timing)
    <2>1. timing \in Timings
      BY DocumentAssumption
    <2>2. Sound(d) /\ d.resources = Draft.resources /\ Ids(d.tasks) = Ids(T)
      BY <1>2, <2>1, SetNamesSound
    <2> HIDE DEF selection, d
    <2>3. EditDraft(selection, d)
      BY <1>7 DEF d
    <2> QED
      BY <1>5, <2>2, <2>3
  <1>8. ASSUME NEW id \in NewIds,
               Push(On(selection),
                    [draft |-> SetTaskId(Draft, i, id), baseline |-> document.baseline,
                     assignments |-> TaskRenamed(document.assignments, old, id),
                     selection |-> Select("Task", <<id>>)])
        PROVE  DocumentInv'
    <2> DEFINE d == SetTaskId(Draft, i, id)
               A == TaskRenamed(document.assignments, old, id)
               next == Select("Task", <<id>>)
               after == [draft |-> d, baseline |-> document.baseline, assignments |-> A, selection |-> next]
    <2>1. id \in Nat
      BY DocumentAssumption
    <2>2. Sound(d) /\ id \in Ids(d.tasks) /\ d.resources = Draft.resources
      BY <1>2, <2>1, SetTaskIdSound
    <2>3. Fits(A, d.resources)
      BY <1>2, <2>1, <2>2, TaskRenamedFits
    <2>4. next \in Selections /\ Resolves(next, d)
      BY <2>1, <2>2, Selected, RowResolves DEF Kinds
    <2>5. Push(On(selection), after)
      BY <1>8
    <2> HIDE DEF d, A, next, selection
    <2>6. after \in Edited
      BY <1>2, <2>2, <2>3, <2>4, SnapshotMade
    <2>7. On(selection) \in Snapshots
      BY <1>4, OnSelection
    <2> HIDE DEF after
    <2> QED
      BY <2>5, <2>6, <2>7, PushKeeps
  <1> HIDE DEF T, selection
  <1> QED
    BY <1>1, <1>6, <1>7, <1>8 DEF T, selection

\* A task gets a resource or none.
LEMMA AssignTaskKeeps ==
  ASSUME DocumentInv, Open, AssignTask
  PROVE  DocumentInv'
  <1> DEFINE rows == document.assignments
  <1>1. PICK task \in Ids(Draft.tasks), i \in 0 .. Len(Draft.resources) :
            LET row == [task |-> task, resource |-> IF i = 0 THEN Unassigned ELSE Draft.resources[i].id]
                after == IF RowsOf(rows, task) = {} THEN Append(rows, row)
                         ELSE [rows EXCEPT ![Min(RowsOf(rows, task))] = row]
            IN  Push(On(Select("Task", <<task>>)), [On(Select("Task", <<task>>)) EXCEPT !.assignments = after])
    BY DEF AssignTask
  <1> DEFINE row == [task |-> task, resource |-> IF i = 0 THEN Unassigned ELSE Draft.resources[i].id]
             selection == Select("Task", <<task>>)
             A == IF RowsOf(rows, task) = {} THEN Append(rows, row) ELSE [rows EXCEPT ![Min(RowsOf(rows, task))] = row]
             after == [On(selection) EXCEPT !.assignments = A]
  <1>2. Sound(Draft) /\ Fits(rows, Draft.resources) /\ rows \in Seq(AssignmentRows)
    BY OpenDocument
  <1>3. row \in AssignmentRows /\ row.resource \in Ids(Draft.resources) \cup {Unassigned}
    <2>1. task \in Nat /\ Ids(Draft.resources) \subseteq Nat
      BY <1>2, IdsNumbers
    <2>2. i # 0 => i \in DOMAIN Draft.resources
      BY <1>2, Parts
    <2>3. i # 0 => Draft.resources[i].id \in Ids(Draft.resources)
      BY <2>2 DEF Ids
    <2> QED
      BY <2>1, <2>3 DEF AssignmentRows
  <1>4. selection \in Selections /\ Resolves(selection, Draft)
    BY <1>2, IdsNumbers, Selected, RowResolves DEF Kinds
  <1>5. Push(On(selection), after)
    BY <1>1
  <1> HIDE DEF row, selection
  <1>6. Fits(A, Draft.resources)
    <2> HIDE DEF rows
    <2>1. CASE RowsOf(rows, task) = {}
      <3> DEFINE B == Append(rows, row)
      <3>1. /\ B \in Seq(AssignmentRows) /\ DOMAIN B = DOMAIN rows \cup {Len(rows) + 1}
            /\ \A n \in DOMAIN rows : B[n] = rows[n]
            /\ B[Len(rows) + 1] = row
        BY <1>2, <1>3, Appended
      <3> HIDE DEF B
      <3>2. Fits(B, Draft.resources)
        BY <1>2, <1>3, <3>1 DEF Fits
      <3> QED
        BY <2>1, <3>2 DEF B
    <2>2. CASE RowsOf(rows, task) # {}
      <3> DEFINE m == Min(RowsOf(rows, task))
                 B == [rows EXCEPT ![m] = row]
      <3>1. m \in DOMAIN rows
        <4>1. RowsOf(rows, task) \in SUBSET Nat /\ RowsOf(rows, task) \subseteq DOMAIN rows
          BY <1>2 DEF RowsOf
        <4> QED
          BY <2>2, <4>1, First
      <3> HIDE DEF m
      <3>2. B \in Seq(AssignmentRows) /\ DOMAIN B = DOMAIN rows /\ \A n \in DOMAIN rows : B[n] = IF n = m THEN row ELSE rows[n]
        BY <1>2, <1>3, <3>1
      <3> HIDE DEF B
      <3>3. Fits(B, Draft.resources)
        BY <1>2, <1>3, <3>2 DEF Fits
      <3> QED
        BY <2>2, <3>3 DEF B, m
    <2> QED
      BY <2>1, <2>2
  <1>7. On(selection) \in Snapshots /\ On(selection) \in Edited /\ On(selection).draft = Draft
    BY <1>4, OnSelection
  <1> HIDE DEF A
  <1>8. after \in Edited
    BY <1>6, <1>7, PartSnapshot
  <1> HIDE DEF after
  <1> QED
    BY <1>5, <1>7, <1>8, PushKeeps

\* The profiles of one task are set and removed at once.
LEMMA EditProfilesKeeps ==
  ASSUME DocumentInv, Open, EditProfiles
  PROVE  DocumentInv'
  <1>1. PICK task \in Ids(Draft.tasks), times \in [Ids(Draft.resources) -> NewTimes \cup {Unassigned}] :
            EditDraft(Select("Task", <<task>>), ProfilesEdited(Draft, task, times))
    BY DEF EditProfiles
  <1> DEFINE d == ProfilesEdited(Draft, task, times)
             selection == Select("Task", <<task>>)
  <1>2. Sound(Draft) /\ NewTimes \in SUBSET Int
    BY OpenDocument, DocumentAssumption
  <1>3. Sound(d) /\ d.tasks = Draft.tasks /\ d.resources = Draft.resources
    BY <1>2, ProfiledSound
  <1>4. selection \in Selections /\ Resolves(selection, Draft) /\ Resolves(selection, d)
    BY <1>2, <1>3, IdsNumbers, Selected, RowResolves DEF Kinds
  <1>5. EditDraft(selection, d)
    BY <1>1
  <1> HIDE DEF d, selection
  <1> QED
    BY <1>3, <1>4, <1>5, EditDraftKeeps

\* The selection of a connection, whatever its kind.
LEMMA ConnectionResolves ==
  ASSUME NEW k \in {Logical, Communication}, NEW a \in Nat, NEW b \in Nat, NEW d, HasRoute(d, a, b)
  PROVE  Select(k, <<a, b>>) \in Selections /\ Resolves(Select(k, <<a, b>>), d)
  <1>1. k \in Kinds
    BY DEF Kinds
  <1>2. Select(k, <<a, b>>) \in Selections
    BY <1>1, Selected
  <1>3. CASE k = Logical
    BY <1>3, <1>2, SectionResolves
  <1>4. CASE k = Communication
    BY <1>4, <1>2, RowResolves
  <1> QED
    BY <1>2, <1>3, <1>4

\* A connection changes its kind, its delay or an end.
LEMMA EditConnectionKeeps ==
  ASSUME DocumentInv, Open, EditConnection
  PROVE  DocumentInv'
  <1> DEFINE Q == Draft.routes
  <1>1. PICK i \in DOMAIN Q :
            LET route == Q[i]
                key == <<route.source, route.destination>>
                selection == Select(route.kind, key)
                change(next) == EditAndSelect(selection, SetRoute(Draft, i, next),
                                              Select(next.kind, <<next.source, next.destination>>))
            IN  \/ \E k \in {Logical, Communication} : change([route EXCEPT !.kind = k, !.delay = 0])
                \/ \E delay \in NewTimes : EditDraft(selection, SetRoute(Draft, i, [route EXCEPT !.delay = delay]))
                \/ \E n \in DOMAIN Draft.tasks : \/ change([route EXCEPT !.source = Draft.tasks[n].id])
                                                 \/ change([route EXCEPT !.destination = Draft.tasks[n].id])
    BY DEF EditConnection
  <1> DEFINE route == Q[i]
             selection == Select(route.kind, <<route.source, route.destination>>)
             change(next) == EditAndSelect(selection, SetRoute(Draft, i, next), Select(next.kind, <<next.source, next.destination>>))
  <1>2. Sound(Draft)
    BY OpenDocument
  <1>3. Q \in Seq(RouteRows) /\ Closure(Draft.tasks, Draft.resources, Draft.profiles, Q) /\ Ids(Draft.tasks) \subseteq Nat
    BY <1>2, Parts, IdsNumbers
  <1>4. route \in RouteRows /\ route.source \in Ids(Draft.tasks) /\ route.destination \in Ids(Draft.tasks)
    BY <1>3 DEF Closure
  <1>5. HasRoute(Draft, route.source, route.destination)
    BY DEF HasRoute, RouteAt
  <1> HIDE DEF route
  <1>6. selection \in Selections /\ Resolves(selection, Draft)
    <2>1. route.kind \in {Logical, Communication}
      BY <1>4 DEF RouteRows
    <2> QED
      BY <1>3, <1>4, <1>5, <2>1, ConnectionResolves
  <1> HIDE DEF selection
  <1>7. ASSUME NEW next \in RouteRows, next.source \in Ids(Draft.tasks), next.destination \in Ids(Draft.tasks), change(next)
        PROVE  DocumentInv'
    <2> DEFINE d == SetRoute(Draft, i, next)
               after == Select(next.kind, <<next.source, next.destination>>)
    <2>1. Sound(d) /\ d.resources = Draft.resources /\ HasRoute(d, next.source, next.destination)
      BY <1>2, <1>7, SetRouteSound
    <2>2. next.kind \in {Logical, Communication}
      BY DEF RouteRows
    <2>3. after \in Selections /\ Resolves(after, d)
      BY <1>3, <1>7, <2>1, <2>2, ConnectionResolves
    <2>4. EditAndSelect(selection, d, after)
      BY <1>7
    <2> HIDE DEF d, after
    <2> QED
      BY <1>6, <2>1, <2>3, <2>4, EditAndSelectKeeps
  <1>8. ASSUME NEW k \in {Logical, Communication}, change([route EXCEPT !.kind = k, !.delay = 0]) PROVE DocumentInv'
    <2> DEFINE next == [route EXCEPT !.kind = k, !.delay = 0]
    <2>1. next \in RouteRows /\ next.source = route.source /\ next.destination = route.destination
      <3> DEFINE m == [route EXCEPT !.kind = k]
      <3>1. m \in RouteRows /\ m.source = route.source /\ m.destination = route.destination
        BY <1>4 DEF RouteRows
      <3>2. next = [m EXCEPT !.delay = 0]
        OBVIOUS
      <3> HIDE DEF m, next
      <3> QED
        BY <3>1, <3>2 DEF RouteRows
    <2>2. change(next)
      BY <1>8
    <2> HIDE DEF next, change
    <2> QED
      BY <1>4, <1>7, <2>1, <2>2
  <1>9. ASSUME NEW delay \in NewTimes, EditDraft(selection, SetRoute(Draft, i, [route EXCEPT !.delay = delay])) PROVE DocumentInv'
    <2> DEFINE next == [route EXCEPT !.delay = delay]
               d == SetRoute(Draft, i, next)
    <2>1. delay \in Int
      BY DocumentAssumption
    <2>2. next \in RouteRows /\ next.source = route.source /\ next.destination = route.destination /\ next.kind = route.kind
      BY <1>4, <2>1 DEF RouteRows
    <2> HIDE DEF next
    <2>3. Sound(d) /\ d.resources = Draft.resources /\ HasRoute(d, route.source, route.destination)
      BY <1>2, <1>4, <2>2, SetRouteSound
    <2>4. route.kind \in {Logical, Communication}
      BY <1>4 DEF RouteRows
    <2>5. Resolves(selection, d)
      BY <1>3, <1>4, <2>3, <2>4, ConnectionResolves DEF selection
    <2>6. EditDraft(selection, d)
      BY <1>9 DEF next
    <2> HIDE DEF d
    <2> QED
      BY <1>6, <2>3, <2>5, <2>6, EditDraftKeeps
  <1>10. ASSUME NEW n \in DOMAIN Draft.tasks, change([route EXCEPT !.source = Draft.tasks[n].id]) PROVE DocumentInv'
    <2> DEFINE id == Draft.tasks[n].id
               next == [route EXCEPT !.source = id]
    <2>1. id \in Ids(Draft.tasks)
      BY DEF Ids
    <2>2. change(next)
      BY <1>10
    <2> HIDE DEF id
    <2>3. next \in RouteRows /\ next.source = id /\ next.destination = route.destination
      BY <1>3, <1>4, <2>1 DEF RouteRows
    <2> HIDE DEF next, change
    <2> QED
      BY <1>4, <1>7, <2>1, <2>2, <2>3
  <1>11. ASSUME NEW n \in DOMAIN Draft.tasks, change([route EXCEPT !.destination = Draft.tasks[n].id]) PROVE DocumentInv'
    <2> DEFINE id == Draft.tasks[n].id
               next == [route EXCEPT !.destination = id]
    <2>1. id \in Ids(Draft.tasks)
      BY DEF Ids
    <2>2. change(next)
      BY <1>11
    <2> HIDE DEF id
    <2>3. next \in RouteRows /\ next.source = route.source /\ next.destination = id
      BY <1>3, <1>4, <2>1 DEF RouteRows
    <2> HIDE DEF next, change
    <2> QED
      BY <1>4, <1>7, <2>1, <2>2, <2>3
  <1> HIDE DEF Q, change
  <1> QED
    BY <1>1, <1>8, <1>9, <1>10, <1>11 DEF Q, change, route, selection

\* Something new, which is selected.
LEMMA CreateResourceKeeps ==
  ASSUME DocumentInv, Open, CreateResource
  PROVE  DocumentInv'
  <1> DEFINE d == AddResource(Draft)
             id == Last(d.resources).id
             e == IF Draft.resources = <<>> THEN d ELSE Inherited(d, Last(Draft.resources).id)
             selection == Select("Resource", <<id>>)
  <1>1. document \in Snapshots /\ document.draft = Draft /\ Sound(Draft)
    BY OpenDocument
  <1>2. Sound(d) /\ Ids(Draft.resources) \subseteq Ids(d.resources) /\ id \in Ids(d.resources) /\ id \in Nat
    BY <1>1, AddResourceSound
  <1>3. PushCreated(document, e, selection)
    BY DEF CreateResource
  <1> HIDE DEF d
  <1>4. Sound(e) /\ e.resources = d.resources
    BY <1>2, InheritedSound
  <1> HIDE DEF e
  <1>5. selection \in Selections /\ Resolves(selection, e)
    BY <1>2, <1>4, Selected, RowResolves DEF Kinds
  <1> HIDE DEF selection
  <1> QED
    BY <1>1, <1>2, <1>3, <1>4, <1>5, PushCreatedKeeps

\* A new task.
LEMMA CreateTaskKeeps ==
  ASSUME DocumentInv, Open, CreateTask
  PROVE  DocumentInv'
  <1> DEFINE d == AddTask(Draft)
             id == Last(d.tasks).id
             selection == Select("Task", <<id>>)
  <1>1. document \in Snapshots /\ document.draft = Draft /\ Sound(Draft)
    BY OpenDocument
  <1>2. Sound(d) /\ d.resources = Draft.resources /\ id \in Ids(d.tasks) /\ id \in Nat
    BY <1>1, AddTaskSound
  <1>3. PushCreated(document, d, selection)
    BY DEF CreateTask
  <1> HIDE DEF d
  <1>4. selection \in Selections /\ Resolves(selection, d)
    BY <1>2, Selected, RowResolves DEF Kinds
  <1> HIDE DEF selection
  <1> QED
    BY <1>1, <1>2, <1>3, <1>4, PushCreatedKeeps

\* A profile for the next free pair.
LEMMA NextProfileKeeps ==
  ASSUME DocumentInv, Open, NEW before \in Snapshots, before.draft = Draft, FreeProfiles(Draft) # {}, NEW time \in Int,
         PushCreated(before, SetProfile(Draft, NextProfile(Draft)[1], NextProfile(Draft)[2], time),
                     Select("Profile", NextProfile(Draft)))
  PROVE  DocumentInv'
  <1> DEFINE a == NextProfile(Draft)[1]
             b == NextProfile(Draft)[2]
             d == SetProfile(Draft, a, b, time)
             selection == Select("Profile", <<a, b>>)
  <1>1. Sound(Draft)
    BY OpenDocument
  <1>2. a \in Ids(Draft.tasks) /\ b \in Ids(Draft.resources) /\ NextProfile(Draft) = <<a, b>>
    BY <1>1, NextPairs
  <1>3. PushCreated(before, d, selection)
    BY <1>2
  <1> HIDE DEF a, b
  <1>4. Sound(d) /\ d.resources = Draft.resources /\ HasProfile(d, a, b)
    BY <1>1, <1>2, SetProfileSound
  <1> HIDE DEF d
  <1>5. selection \in Selections /\ Resolves(selection, d)
    BY <1>1, <1>2, <1>4, IdsNumbers, Selected, RowResolves DEF Kinds
  <1> HIDE DEF selection
  <1> QED
    BY <1>1, <1>3, <1>4, <1>5, PushCreatedKeeps

\* A new profile.
LEMMA CreateProfileKeeps ==
  ASSUME DocumentInv, Open, CreateProfile
  PROVE  DocumentInv'
  <1>1. document \in Snapshots /\ document.draft = Draft
    BY OpenDocument
  <1>2. FreeProfiles(Draft) # {}
        /\ PushCreated(document, SetProfile(Draft, NextProfile(Draft)[1], NextProfile(Draft)[2], 1), Select("Profile", NextProfile(Draft)))
    BY DEF CreateProfile
  <1>3. 1 \in Int
    OBVIOUS
  <1> QED
    BY <1>1, <1>2, <1>3, NextProfileKeeps

\* A new route.
LEMMA CreateRouteKeeps ==
  ASSUME DocumentInv, Open, CreateRoute
  PROVE  DocumentInv'
  <1> DEFINE a == NextRoute(Draft)[1]
             b == NextRoute(Draft)[2]
             d == AddRoute(Draft, a, b, Communication)
             selection == Select(Communication, <<a, b>>)
  <1>1. document \in Snapshots /\ document.draft = Draft /\ Sound(Draft)
    BY OpenDocument
  <1>2. a \in Ids(Draft.tasks) /\ b \in Ids(Draft.tasks) /\ NextRoute(Draft) = <<a, b>>
    BY <1>1, NextPairs DEF CreateRoute
  <1>3. PushCreated(document, d, selection)
    BY <1>2 DEF CreateRoute
  <1> HIDE DEF a, b
  <1>4. Sound(d) /\ d.resources = Draft.resources /\ HasRoute(d, a, b)
    BY <1>1, <1>2, AddRouteSound
  <1> HIDE DEF d
  <1>5. selection \in Selections /\ Resolves(selection, d)
    BY <1>1, <1>2, <1>4, IdsNumbers, ConnectionResolves
  <1> HIDE DEF selection
  <1> QED
    BY <1>1, <1>3, <1>4, <1>5, PushCreatedKeeps

\* A connection drawn between two tasks.
LEMMA CreateConnectionKeeps ==
  ASSUME DocumentInv, Open, CreateConnection
  PROVE  DocumentInv'
  <1>1. PICK s \in Ids(Draft.tasks), t \in Ids(Draft.tasks), k \in {Logical, Communication} :
            EditAndSelect(document.selection, AddRoute(Draft, s, t, k), Select(k, <<s, t>>))
    BY DEF CreateConnection
  <1> DEFINE d == AddRoute(Draft, s, t, k)
             next == Select(k, <<s, t>>)
  <1>2. Sound(Draft) /\ document.selection \in Selections
    BY OpenDocument
  <1>3. Sound(d) /\ d.resources = Draft.resources /\ HasRoute(d, s, t)
    BY <1>2, AddRouteSound
  <1>4. EditAndSelect(document.selection, d, next)
    BY <1>1
  <1> HIDE DEF d
  <1>5. next \in Selections /\ Resolves(next, d)
    BY <1>2, <1>3, IdsNumbers, ConnectionResolves
  <1> HIDE DEF next
  <1> QED
    BY <1>2, <1>3, <1>4, <1>5, EditAndSelectKeeps

\* A copy of what is selected.
LEMMA DuplicateKeeps ==
  ASSUME DocumentInv, Open, DuplicateSelected
  PROVE  DocumentInv'
  <1>1. Sound(Draft)
    BY OpenDocument
  <1>2. /\ Draft.resources \in Seq(ResourceRows) /\ Draft.tasks \in Seq(TaskRows)
        /\ Ids(Draft.tasks) \subseteq Nat /\ Ids(Draft.resources) \subseteq Nat
    BY <1>1, Parts, IdsNumbers
  <1>3. ASSUME NEW id \in Ids(Draft.resources),
               LET d == DuplicateResource(Draft, At(Draft.resources, id))
               IN  PushCreated(On(Select("Resource", <<id>>)), d, Select("Resource", <<Last(d.resources).id>>))
        PROVE  DocumentInv'
    <2> DEFINE i == At(Draft.resources, id)
               d == DuplicateResource(Draft, i)
               new == Last(d.resources).id
               selection == Select("Resource", <<id>>)
               next == Select("Resource", <<new>>)
    <2>1. i \in DOMAIN Draft.resources
      BY <1>2, IdsHas, AtRow
    <2>2. PushCreated(On(selection), d, next)
      BY <1>3
    <2> HIDE DEF i
    <2>3. Sound(d) /\ Ids(Draft.resources) \subseteq Ids(d.resources) /\ new \in Ids(d.resources) /\ new \in Nat
      BY <1>1, <2>1, DuplicateResourceSound
    <2> HIDE DEF d
    <2>4. selection \in Selections /\ Resolves(selection, Draft) /\ next \in Selections /\ Resolves(next, d)
      BY <1>2, <2>3, Selected, RowResolves DEF Kinds
    <2> HIDE DEF selection, next
    <2>5. On(selection) \in Snapshots /\ On(selection).draft = Draft
      BY <2>4, OnSelection
    <2> QED
      BY <1>1, <2>2, <2>3, <2>4, <2>5, PushCreatedKeeps
  <1>4. ASSUME NEW id \in Ids(Draft.tasks),
               LET d == DuplicateTask(Draft, At(Draft.tasks, id))
               IN  PushCreated(On(Select("Task", <<id>>)), d, Select("Task", <<Last(d.tasks).id>>))
        PROVE  DocumentInv'
    <2> DEFINE i == At(Draft.tasks, id)
               d == DuplicateTask(Draft, i)
               new == Last(d.tasks).id
               selection == Select("Task", <<id>>)
               next == Select("Task", <<new>>)
    <2>1. i \in DOMAIN Draft.tasks
      BY <1>2, IdsHas, AtRow
    <2>2. PushCreated(On(selection), d, next)
      BY <1>4
    <2> HIDE DEF i
    <2>3. Sound(d) /\ d.resources = Draft.resources /\ new \in Ids(d.tasks) /\ new \in Nat
      BY <1>1, <2>1, DuplicateTaskSound
    <2> HIDE DEF d
    <2>4. selection \in Selections /\ Resolves(selection, Draft) /\ next \in Selections /\ Resolves(next, d)
      BY <1>2, <2>3, Selected, RowResolves DEF Kinds
    <2> HIDE DEF selection, next
    <2>5. On(selection) \in Snapshots /\ On(selection).draft = Draft
      BY <2>4, OnSelection
    <2> QED
      BY <1>1, <2>2, <2>3, <2>4, <2>5, PushCreatedKeeps
  <1>5. ASSUME NEW n \in DOMAIN Draft.profiles, FreeProfiles(Draft) # {},
               LET old == Draft.profiles[n]
                   key == NextProfile(Draft)
               IN  PushCreated(On(Select("Profile", <<old.task, old.resource>>)),
                               SetProfile(Draft, key[1], key[2], ExecutionTime(Draft, old.task, old.resource)),
                               Select("Profile", key))
        PROVE  DocumentInv'
    <2> DEFINE a == Draft.profiles[n].task
               b == Draft.profiles[n].resource
               time == ExecutionTime(Draft, a, b)
               selection == Select("Profile", <<a, b>>)
    <2>1. PushCreated(On(selection), SetProfile(Draft, NextProfile(Draft)[1], NextProfile(Draft)[2], time),
                      Select("Profile", NextProfile(Draft)))
      BY <1>5
    <2>2. HasProfile(Draft, a, b) /\ a \in Ids(Draft.tasks) /\ b \in Ids(Draft.resources)
      BY <1>1, Parts DEF HasProfile, ProfileAt, Closure
    <2>3. time \in Int
      BY <1>1, <2>2, ProfilePlace
    <2>4. selection \in Selections /\ Resolves(selection, Draft)
      BY <1>2, <2>2, Selected, RowResolves DEF Kinds
    <2> HIDE DEF selection, time
    <2>5. On(selection) \in Snapshots /\ On(selection).draft = Draft
      BY <2>4, OnSelection
    <2> QED
      BY <1>5, <2>1, <2>3, <2>5, NextProfileKeeps
  <1> QED
    BY <1>3, <1>4, <1>5 DEF DuplicateSelected

\* The neighbor of a row that is removed stays and can be selected.
LEMMA NeighborResolves ==
  ASSUME NEW V, NEW rows \in Seq(V), NEW id, Has(rows, id), Ids(rows) \subseteq Nat, NEW d,
         NEW k, NEW section,
         \/ /\ k = "Resource" /\ section = "Resources"
            /\ \A j \in DOMAIN rows : j # At(rows, id) => rows[j].id \in Ids(d.resources)
         \/ /\ k = "Task" /\ section = "Tasks"
            /\ \A j \in DOMAIN rows : j # At(rows, id) => rows[j].id \in Ids(d.tasks)
  PROVE  Neighbor(rows, id, k, section) \in Selections /\ Resolves(Neighbor(rows, id, k, section), d)
  <1> DEFINE i == At(rows, id)
             j == IF i < Len(rows) THEN i + 1 ELSE i - 1
             other == rows[j].id
  <1>1. i \in DOMAIN rows /\ Len(rows) \in Nat /\ DOMAIN rows = 1 .. Len(rows)
    BY AtRow
  <1>2. k \in Kinds /\ section \in Kinds /\ section \in {"Resources", "Tasks"}
    BY DEF Kinds
  <1>3. CASE Len(rows) <= 1
    <2>1. Neighbor(rows, id, k, section) = Select(section, <<>>)
      BY <1>3 DEF Neighbor
    <2>2. Select(section, <<>>) \in Selections
      BY <1>2, Selected
    <2>3. Resolves(Select(section, <<>>), d)
      BY <1>2, SectionResolves
    <2> QED
      BY <2>1, <2>2, <2>3
  <1>4. CASE ~ (Len(rows) <= 1)
    <2>1. Neighbor(rows, id, k, section) = Select(k, <<other>>)
      BY <1>4 DEF Neighbor
    <2>2. j \in DOMAIN rows /\ j # i
      BY <1>1, <1>4
    <2>3. other \in Nat
      BY <2>2 DEF Ids
    <2>4. \/ k = "Resource" /\ other \in Ids(d.resources)
          \/ k = "Task" /\ other \in Ids(d.tasks)
      BY <2>2
    <2> HIDE DEF other
    <2>5. Select(k, <<other>>) \in Selections
      BY <1>2, <2>3, Selected
    <2>6. Resolves(Select(k, <<other>>), d)
      BY <2>4, RowResolves
    <2> QED
      BY <2>1, <2>5, <2>6
  <1> QED
    BY <1>3, <1>4

\* What is selected is deleted with all that refers to it, and its neighbor selected.
LEMMA DeleteKeeps ==
  ASSUME DocumentInv, Open, DeleteSelected
  PROVE  DocumentInv'
  <1>1. /\ Sound(Draft) /\ Fits(document.assignments, Draft.resources) /\ document \in Snapshots
    BY OpenDocument
  <1>2. /\ Draft.resources \in Seq(ResourceRows) /\ Draft.tasks \in Seq(TaskRows)
        /\ Ids(Draft.tasks) \subseteq Nat /\ Ids(Draft.resources) \subseteq Nat
    BY <1>1, Parts, IdsNumbers
  <1>3. ASSUME NEW id \in Ids(Draft.resources),
               Push(On(Select("Resource", <<id>>)),
                    [document EXCEPT !.draft = CascadeRemoveResource(Draft, id),
                                     !.assignments = ResourceRenamed(@, id, Unassigned),
                                     !.selection = Neighbor(Draft.resources, id, "Resource", "Resources")])
        PROVE  DocumentInv'
    <2> DEFINE d == CascadeRemoveResource(Draft, id)
               A == ResourceRenamed(document.assignments, id, Unassigned)
               selection == Select("Resource", <<id>>)
               next == Neighbor(Draft.resources, id, "Resource", "Resources")
               after == Redrawn(document, d, A, next)
    <2>1. Has(Draft.resources, id) /\ id \in Nat
      BY <1>2, IdsHas
    <2>2. Push(On(selection), after)
      BY <1>3 DEF Redrawn
    <2>3. /\ Sound(d)
          /\ \A j \in DOMAIN Draft.resources : j # At(Draft.resources, id) => Draft.resources[j].id \in Ids(d.resources)
      BY <1>1, <2>1, CascadeRemoveResourceSound
    <2> HIDE DEF d
    <2>4. Ids(Draft.resources) \ {id} \subseteq Ids(d.resources)
      <3> SUFFICES ASSUME NEW j \in DOMAIN Draft.resources, Draft.resources[j].id # id
                   PROVE  Draft.resources[j].id \in Ids(d.resources)
        BY DEF Ids
      <3>1. j # At(Draft.resources, id)
        BY <1>2, <2>1, AtRow
      <3> QED
        BY <2>3, <3>1
    <2>5. Fits(A, d.resources)
      BY <1>1, <2>4, ResourceRenamedFits
    <2>6. next \in Selections /\ Resolves(next, d)
      BY <1>2, <2>1, <2>3, NeighborResolves
    <2>7. selection \in Selections /\ Resolves(selection, Draft)
      BY <2>1, Selected, RowResolves DEF Kinds
    <2> HIDE DEF A, next, selection
    <2>8. after \in Edited
      BY <1>1, <2>3, <2>5, <2>6, RedrawnSnapshot
    <2>9. On(selection) \in Snapshots
      BY <2>7, OnSelection
    <2> HIDE DEF after
    <2> QED
      BY <2>2, <2>8, <2>9, PushKeeps
  <1>4. ASSUME NEW id \in Ids(Draft.tasks),
               Push(On(Select("Task", <<id>>)),
                    [document EXCEPT !.draft = CascadeRemoveTask(Draft, id),
                                     !.assignments = RowsAt(@, {i \in DOMAIN @ : @[i].task # id}),
                                     !.selection = Neighbor(Draft.tasks, id, "Task", "Tasks")])
        PROVE  DocumentInv'
    <2> DEFINE d == CascadeRemoveTask(Draft, id)
               A == RowsAt(document.assignments, {i \in DOMAIN document.assignments : document.assignments[i].task # id})
               selection == Select("Task", <<id>>)
               next == Neighbor(Draft.tasks, id, "Task", "Tasks")
               after == Redrawn(document, d, A, next)
    <2>1. Has(Draft.tasks, id) /\ id \in Nat
      BY <1>2, IdsHas
    <2>2. Push(On(selection), after)
      BY <1>4 DEF Redrawn
    <2>3. /\ Sound(d) /\ d.resources = Draft.resources
          /\ \A j \in DOMAIN Draft.tasks : j # At(Draft.tasks, id) => Draft.tasks[j].id \in Ids(d.tasks)
      BY <1>1, <2>1, CascadeRemoveTaskSound
    <2> HIDE DEF d
    <2>4. Fits(A, d.resources)
      BY <1>1, <2>3, KeptFit
    <2>5. next \in Selections /\ Resolves(next, d)
      BY <1>2, <2>1, <2>3, NeighborResolves
    <2>6. selection \in Selections /\ Resolves(selection, Draft)
      BY <2>1, Selected, RowResolves DEF Kinds
    <2> HIDE DEF A, next, selection
    <2>7. after \in Edited
      BY <1>1, <2>3, <2>4, <2>5, RedrawnSnapshot
    <2>8. On(selection) \in Snapshots
      BY <2>6, OnSelection
    <2> HIDE DEF after
    <2> QED
      BY <2>2, <2>7, <2>8, PushKeeps
  <1>5. ASSUME NEW n \in DOMAIN Draft.profiles,
               LET p == Draft.profiles[n]
               IN  EditAndSelect(Select("Profile", <<p.task, p.resource>>), RemoveProfile(Draft, p.task, p.resource),
                                 Select("Profiles", <<>>))
        PROVE  DocumentInv'
    <2> DEFINE a == Draft.profiles[n].task
               b == Draft.profiles[n].resource
               d == RemoveProfile(Draft, a, b)
               selection == Select("Profile", <<a, b>>)
               next == Select("Profiles", <<>>)
    <2>1. EditAndSelect(selection, d, next)
      BY <1>5
    <2>2. HasProfile(Draft, a, b) /\ a \in Nat /\ b \in Nat
      BY <1>1, <1>2, Parts DEF HasProfile, ProfileAt, Closure
    <2> HIDE DEF a, b
    <2>3. Sound(d) /\ d.resources = Draft.resources
      BY <1>1, RemoveProfileSound
    <2> HIDE DEF d
    <2>4. selection \in Selections /\ Resolves(selection, Draft)
      BY <2>2, Selected, RowResolves DEF Kinds
    <2>5. next \in Selections /\ Resolves(next, d)
      <3>1. "Profiles" \in Kinds /\ 0 \in Nat
        BY DEF Kinds
      <3> QED
        BY <3>1, Selected, SectionResolves
    <2> HIDE DEF selection, next
    <2> QED
      BY <2>1, <2>3, <2>4, <2>5, EditAndSelectKeeps
  <1> QED
    BY <1>3, <1>4, <1>5 DEF DeleteSelected

\* What is left of a selected connection: nothing that is missing stays selected.
LEMMA ReselectedResolves ==
  ASSUME NEW k \in {Logical, Communication}, NEW a \in Nat, NEW b \in Nat, NEW d
  PROVE  LET next == Reselected(Select(k, <<a, b>>), d) IN next \in Selections /\ Resolves(next, d)
  <1> DEFINE selection == Select(k, <<a, b>>)
             next == Reselected(selection, d)
  <1>1. selection.kind = k /\ selection.key = <<a, b>> /\ selection.key[1] = a /\ selection.key[2] = b
    BY DEF Select
  <1> HIDE DEF selection
  <1>2. \/ next = SelectSystem
        \/ next = Select("Routes", <<>>)
        \/ next = selection /\ ~ (k = Communication /\ ~ HasRoute(d, a, b))
    <2> DEFINE gone == selection.kind \in {Logical, Communication} /\ ~ {selection.key[1], selection.key[2]} \subseteq Ids(d.tasks)
               lost == selection.kind = Communication /\ ~ HasRoute(d, selection.key[1], selection.key[2])
    <2>1. next = IF gone THEN SelectSystem ELSE IF lost THEN Select("Routes", <<>>) ELSE selection
      BY DEF Reselected
    <2>2. lost <=> k = Communication /\ ~ HasRoute(d, a, b)
      BY <1>1
    <2> HIDE DEF gone, lost, next
    <2>3. CASE gone
      BY <2>1, <2>3
    <2>4. CASE ~ gone /\ lost
      BY <2>1, <2>4
    <2>5. CASE ~ gone /\ ~ lost
      BY <2>1, <2>2, <2>5
    <2> QED
      BY <2>3, <2>4, <2>5
  <1> HIDE DEF next
  <1>3. SelectSystem \in Selections /\ Select("Routes", <<>>) \in Selections
    BY Selected DEF SelectSystem, Kinds
  <1>4. Resolves(SelectSystem, d) /\ Resolves(Select("Routes", <<>>), d)
    BY SectionResolves DEF SelectSystem
  <1>5. k \in Kinds
    BY DEF Kinds
  <1>6. selection \in Selections
    BY <1>5, Selected DEF selection
  <1>7. ~ (k = Communication /\ ~ HasRoute(d, a, b)) => Resolves(selection, d)
    <2>1. CASE k = Logical
      BY <2>1, SectionResolves DEF selection
    <2>2. CASE k = Communication
      BY <2>2, RowResolves DEF selection
    <2> QED
      BY <2>1, <2>2
  <1> QED
    BY <1>2, <1>3, <1>4, <1>6, <1>7 DEF next, selection

\* A connection is deleted.
LEMMA DeleteConnectionKeeps ==
  ASSUME DocumentInv, Open, DeleteConnection
  PROVE  DocumentInv'
  <1>1. PICK n \in DOMAIN Draft.routes :
            LET key == <<Draft.routes[n].source, Draft.routes[n].destination>>
                d == RemoveRoute(Draft, key)
                before == On(Select(Draft.routes[n].kind, key))
            IN  Push(before, [before EXCEPT !.draft = d, !.selection = Reselected(@, d)])
    BY DEF DeleteConnection
  <1> DEFINE k == Draft.routes[n].kind
             a == Draft.routes[n].source
             b == Draft.routes[n].destination
             key == <<a, b>>
             d == RemoveRoute(Draft, key)
             selection == Select(k, key)
             before == On(selection)
             next == Reselected(selection, d)
             after == Turned(before, d, next)
  <1>2. Sound(Draft) /\ Fits(document.assignments, Draft.resources)
    BY OpenDocument
  <1>3. Draft.routes \in Seq(RouteRows) /\ Ids(Draft.tasks) \subseteq Nat
        /\ \A i \in DOMAIN Draft.routes : Draft.routes[i].source \in Ids(Draft.tasks) /\ Draft.routes[i].destination \in Ids(Draft.tasks)
    BY <1>2, Parts, IdsNumbers DEF Closure
  <1>4. k \in {Logical, Communication} /\ a \in Nat /\ b \in Nat
    <2> DEFINE r == Draft.routes[n]
    <2>1. r \in RouteRows /\ r.source \in Nat /\ r.destination \in Nat
      BY <1>3
    <2> HIDE DEF r
    <2> QED
      BY <2>1 DEF RouteRows, k, a, b, r
  <1>5. HasRoute(Draft, a, b)
    BY DEF HasRoute, RouteAt
  <1>6. Push(before, [before EXCEPT !.draft = d, !.selection = Reselected(@, d)])
    BY <1>1
  <1> HIDE DEF k, a, b
  <1>7. selection \in Selections /\ Resolves(selection, Draft)
    BY <1>4, <1>5, ConnectionResolves
  <1>8. Sound(d) /\ d.resources = Draft.resources
    BY <1>2, RemoveRouteSound
  <1> HIDE DEF d
  <1>9. next \in Selections /\ Resolves(next, d)
    BY <1>4, ReselectedResolves
  <1> HIDE DEF selection, key, next
  <1>10. before \in Snapshots /\ before.selection = selection /\ before.assignments = document.assignments
    BY <1>7, OnSelection
  <1> HIDE DEF before
  <1>11. Push(before, after)
    BY <1>6, <1>10 DEF Turned, next
  <1>12. after \in Edited
    BY <1>2, <1>8, <1>9, <1>10, TurnedSnapshot
  <1> HIDE DEF after
  <1> QED
    BY <1>10, <1>11, <1>12, PushKeeps

\* Every edit.
LEMMA EditKeeps ==
  ASSUME DocumentInv, Edit
  PROVE  DocumentInv'
  <1>1. Open
    BY DEF Edit
  <1> QED
    BY <1>1, TickPeriodKeeps, EditResourceKeeps, EditTaskKeeps, AssignTaskKeeps, EditProfilesKeeps, EditConnectionKeeps,
       CreateResourceKeeps, CreateTaskKeeps, CreateProfileKeeps, CreateRouteKeeps, CreateConnectionKeeps,
       DuplicateKeeps, DeleteKeeps, DeleteConnectionKeeps DEF Edit

-----------------------------------------------------------------------------
(* Undo and redo, applying, saving and leaving. *)

\* A snapshot of the undo stack is restored.
LEMMA UndoRedoKeeps ==
  ASSUME DocumentInv, Undo \/ Redo
  PROVE  DocumentInv'
  <1>1. history \in Seq(Pushed) /\ position \in 0 .. Len(history) /\ Len(history) \in Nat
    BY DEF DocumentInv
  <1>2. \A i \in 1 .. Len(history) : history[i].before \in Snapshots /\ history[i].after \in Snapshots
    <2>1. \A entry \in Pushed : entry.before \in Snapshots /\ entry.after \in Snapshots
      BY DEF Pushed, Edited
    <2>2. \A i \in 1 .. Len(history) : history[i] \in Pushed
      BY <1>1
    <2> QED
      BY <2>1, <2>2
  <1>3. /\ history' = history /\ applied' = applied /\ stored' = stored /\ kind' = kind
        /\ position' \in 0 .. Len(history) /\ \E s \in Snapshots : document' = Restored(s)
    BY <1>1, <1>2 DEF Undo, Redo
  <1>4. document' \in Snapshots /\ InOrder(document')
    BY <1>3, RestoredInOrder
  <1> QED
    BY <1>3, <1>4 DEF DocumentInv, Open

\* What a project is decided by its system and its assignments.
LEMMA ProperParts ==
  ASSUME NEW k, NEW a, NEW b, Proper(k, a), b.system = a.system, b.plan = a.plan
  PROVE  Proper(k, b)
  BY DEF Proper

\* A project that runs opens in a snapshot, whatever stays selected.
LEMMA ProperOpens ==
  ASSUME NEW k, NEW a, Proper(k, a)
  PROVE  /\ Initialized(a) \in Snapshots /\ InOrder(Initialized(a))
         /\ \A selection \in Selections :
                LET s == [Initialized(a) EXCEPT !.selection = selection] IN s \in Snapshots /\ InOrder(s)
  BY InitializedInOrder, SelectionKept DEF Proper

\* What is built from the draft runs and keeps what a Bosch project must keep.
LEMMA ReplacementProper ==
  ASSUME DocumentInv, Open, Buildable
  PROVE  Proper(kind, Replacement)
  <1> DEFINE A == Canonical(Draft, document.assignments)
  <1>1. Sound(Draft) /\ document.assignments \in Seq(AssignmentRows) /\ Draft \in Drafts
    BY OpenDocument DEF Sound
  <1>2. PolicyAccepts(Draft) /\ Diagnostics(Draft) = {} /\ PlanAccepts(Draft, document.assignments)
    BY DEF Buildable
  <1>3. ConfigAccepts(Draft)
    BY <1>1, <1>2, DiagnosticsAgree
  <1>4. A \in Seq(AssignmentRows) /\ Runnable(Draft, A)
    BY <1>1, <1>2, <1>3, CanonicalRuns
  <1>5. Replacement.system = Draft /\ Replacement.plan.assignments = A
    BY DEF Replacement
  <1>6. kind = "generic" \/ KeepsInterface(Draft)
    BY <1>2 DEF PolicyAccepts, Generic
  <1> HIDE DEF A
  <1> QED
    BY <1>1, <1>4, <1>5, <1>6 DEF Proper

\* What resolving unapplied changes leaves can run.
LEMMA ResolvedProper ==
  ASSUME DocumentInv, Open, Resolvable
  PROVE  Proper(kind, Resolved)
  BY ReplacementProper DEF Resolvable, Resolved, DocumentInv

\* Writing a project keeps its system and plan.
LEMMA WrittenProper ==
  ASSUME NEW k, NEW a, Proper(k, a)
  PROVE  Proper(k, Written(a))
  BY ProperParts DEF Written

\* Steps after which the document is what the applied project is, perhaps with a selection of before.
LEMMA ReopenedKeeps ==
  ASSUME DocumentInv, kind' = kind, Proper(kind, applied'), Proper(kind, stored'),
         \/ document' = Initialized(applied')
         \/ \E selection \in Selections : document' = [Initialized(applied') EXCEPT !.selection = selection],
         \/ history' = history /\ position' = position
         \/ history' = <<>> /\ position' = 0
  PROVE  DocumentInv'
  <1>1. document' \in Snapshots /\ InOrder(document')
    BY ProperOpens
  <1>2. history' \in Seq(Pushed) /\ position' \in 0 .. Len(history')
    <2>1. CASE history' = history /\ position' = position
      BY <2>1 DEF DocumentInv
    <2>2. CASE history' = <<>> /\ position' = 0
      BY <2>2
    <2> QED
      BY <2>1, <2>2
  <1> QED
    BY <1>1, <1>2 DEF DocumentInv, Open

\* Applying the draft.
LEMMA ApplyKeeps ==
  ASSUME DocumentInv, Apply
  PROVE  DocumentInv'
  <1>1. CASE Buildable
    <2>1. applied' = Replacement /\ document' = Initialized(applied') /\ stored' = stored /\ kind' = kind
          /\ history' = history /\ position' = position /\ Open
      BY <1>1 DEF Apply
    <2>2. Proper(kind, applied') /\ Proper(kind, stored')
      BY <1>1, <2>1, ReplacementProper DEF DocumentInv
    <2> QED
      BY <2>1, <2>2, ReopenedKeeps
  <1>2. CASE ~ Buildable
    BY <1>2 DEF Apply, DocumentInv, Open
  <1> QED
    BY <1>1, <1>2

\* Applying it and writing the files.
LEMMA SaveKeeps ==
  ASSUME DocumentInv, Save
  PROVE  DocumentInv'
  <1>1. /\ applied' = Resolved /\ kind' = kind /\ Open /\ Resolvable
        /\ document' = [Initialized(applied') EXCEPT !.selection = document.selection]
        /\ history' = history /\ position' = position
        /\ stored' = Written(applied') \/ stored' = stored
    BY DEF Save
  <1>2. Proper(kind, applied')
    BY <1>1, ResolvedProper
  <1>3. Proper(kind, stored')
    BY <1>1, <1>2, WrittenProper DEF DocumentInv
  <1>4. document.selection \in Selections
    BY <1>1, OpenDocument
  <1> QED
    BY <1>1, <1>2, <1>3, <1>4, ReopenedKeeps

\* Another directory, with a new undo stack.
LEMMA SaveAsKeeps ==
  ASSUME DocumentInv, SaveAs
  PROVE  DocumentInv'
  <1>1. /\ applied' = Resolved /\ document' = Initialized(applied') /\ kind' = kind /\ Open
        /\ history' = <<>> /\ position' = 0 /\ stored' = Written(applied')
    BY DEF SaveAs
  <1>2. Resolvable
    BY DEF SaveAs, Resolvable, ChangesDirty, Unapplied
  <1>3. Proper(kind, applied')
    BY <1>1, <1>2, ResolvedProper
  <1>4. Proper(kind, stored')
    BY <1>1, <1>3, WrittenProper
  <1> QED
    BY <1>1, <1>3, <1>4, ReopenedKeeps

\* What leaving the project finds or writes is a project that runs.
LEMMA FilesProper ==
  ASSUME DocumentInv, Open, NEW f \in FilesLeft
  PROVE  Proper(kind, f)
  <1>1. f = stored \/ (Buildable /\ f = Written(Replacement))
    BY DEF FilesLeft
  <1>2. CASE f = stored
    BY <1>2 DEF DocumentInv
  <1>3. CASE Buildable /\ f = Written(Replacement)
    BY <1>3, ReplacementProper, WrittenProper
  <1> QED
    BY <1>1, <1>2, <1>3

\* Closing the project.
LEMMA CloseKeeps ==
  ASSUME DocumentInv, CloseProject
  PROVE  DocumentInv'
  <1>1. /\ Open /\ stored' \in FilesLeft /\ document' = Closed /\ history' = <<>> /\ position' = 0
        /\ applied' = applied /\ kind' = kind
    BY DEF CloseProject
  <1>2. Proper(kind, stored')
    BY <1>1, FilesProper
  <1>3. history' \in Seq(Pushed) /\ position' \in 0 .. Len(history')
    BY <1>1
  <1> QED
    BY <1>1, <1>2, <1>3 DEF DocumentInv, Open

\* Opening what is stored.
LEMMA OpenKeeps ==
  ASSUME DocumentInv, OpenProject
  PROVE  DocumentInv'
  <1>1. /\ stored' \in IF Open THEN FilesLeft ELSE {stored}
        /\ applied' = [system |-> stored'.system, plan |-> stored'.plan] /\ document' = Initialized(applied')
        /\ kind' = kind /\ history' = history /\ position' = position
    BY DEF OpenProject
  <1>2. Proper(kind, stored')
    <2>1. CASE Open
      BY <1>1, <2>1, FilesProper
    <2>2. CASE ~ Open
      BY <1>1, <2>2 DEF DocumentInv
    <2> QED
      BY <2>1, <2>2
  <1>3. Proper(kind, applied')
    BY <1>1, <1>2, ProperParts
  <1> QED
    BY <1>1, <1>2, <1>3, ReopenedKeeps

\* The other steps leave the document, the projects and the undo stack alone.
LEMMA OthersKeep ==
  ASSUME DocumentInv, SaveFails \/ SetStop \/ LoadPlan \/ ArrangeWorkspace \/ UNCHANGED documentVars
  PROVE  DocumentInv'
  <1>1. kind' = kind /\ document' = document /\ applied' = applied /\ stored' = stored
        /\ history' = history /\ position' = position
    BY DEF SaveFails, SetStop, LoadPlan, ArrangeWorkspace, documentVars
  <1> QED
    BY <1>1 DEF DocumentInv, Open

\* The initial system keeps its own interface.
LEMMA OriginalProper == Proper("bosch", Original) /\ Proper("generic", Original)
  <1> DEFINE d == Original.system
  <1>1. d \in Drafts /\ Original.plan.assignments \in Seq(AssignmentRows) /\ Runnable(d, Original.plan.assignments)
    BY DocumentAssumption DEF Assignments, AssignmentRows
  <1>2. Sound(d) /\ ConfigAccepts(d)
    BY <1>1, InitializedInOrder DEF Runnable
  <1>3. d.tasks \in Seq(TaskRows)
    BY <1>2, Parts
  <1>4. \A i, j \in DOMAIN d.tasks : d.tasks[i].id = d.tasks[j].id => i = j
    BY <1>2, TasksDifferent
  <1>5. ASSUME NEW i \in DOMAIN d.tasks PROVE At(d.tasks, d.tasks[i].id) = i /\ Has(d.tasks, d.tasks[i].id)
    <2> HIDE DEF d
    <2>1. At(d.tasks, d.tasks[i].id) = i
      BY <1>3, <1>4, AtOnly
    <2> QED
      BY <2>1 DEF Has
  <1>6. KeepsInterface(d)
    <2>1. \A i \in DOMAIN d.tasks : Has(d.tasks, d.tasks[i].id) /\ d.tasks[At(d.tasks, d.tasks[i].id)].name = d.tasks[i].name
      BY <1>5
    <2> QED
      BY <2>1 DEF KeepsInterface
  <1> HIDE DEF d
  <1> QED
    BY <1>1, <1>6 DEF Proper, d

\* The document of the project that was loaded.
LEMMA DocumentInitInv ==
  ASSUME DocumentInit
  PROVE  DocumentInv
  <1>1. /\ kind \in {"generic", "bosch"} /\ applied = Original /\ document = Initialized(applied)
        /\ stored.system = applied.system /\ stored.plan = applied.plan
        /\ history = <<>> /\ position = 0
    BY DEF DocumentInit
  <1>2. Proper(kind, applied)
    BY <1>1, OriginalProper
  <1>3. Proper(kind, stored)
    BY <1>1, <1>2, ProperParts
  <1>4. document \in Snapshots /\ InOrder(document)
    BY <1>1, <1>2, ProperOpens
  <1>5. history \in Seq(Pushed) /\ position \in 0 .. Len(history)
    BY <1>1
  <1> QED
    BY <1>2, <1>3, <1>4, <1>5 DEF DocumentInv

\* Every step keeps the invariant.
LEMMA DocumentNextInv ==
  ASSUME DocumentInv, [DocumentNext]_documentVars
  PROVE  DocumentInv'
  BY EditKeeps, UndoRedoKeeps, ApplyKeeps, SaveKeeps, SaveAsKeeps, CloseKeeps, OpenKeeps, OthersKeep DEF DocumentNext

\* An open document: the conjuncts of EditsSound about it.
LEMMA OpenSound ==
  ASSUME DocumentInv, Open
  PROVE  /\ \A n \in DOMAIN Draft.profiles :
                Has(Draft.tasks, Draft.profiles[n].task) /\ Has(Draft.resources, Draft.profiles[n].resource)
         /\ \A n \in DOMAIN Draft.routes : Has(Draft.tasks, Draft.routes[n].source) /\ Has(Draft.tasks, Draft.routes[n].destination)
         /\ Len(document.assignments) = Len(Draft.tasks)
         /\ \A i \in DOMAIN Draft.tasks :
                /\ document.assignments[i].task = Draft.tasks[i].id
                /\ document.assignments[i].resource \in Ids(Draft.resources) \cup {Unassigned}
         /\ DraftDirty => Resolves(document.selection, Draft)
         /\ \A i \in DOMAIN history : Resolves(history[i].after.selection, history[i].after.draft)
         /\ Diagnostics(Draft) = {} <=> ConfigAccepts(Draft) /\ 0 \notin Ids(Draft.tasks) \cup Ids(Draft.resources)
  <1>1. /\ Sound(Draft) /\ Fits(document.assignments, Draft.resources) /\ document \in Snapshots
        /\ Len(document.assignments) = Len(Draft.tasks)
        /\ \A i \in DOMAIN Draft.tasks : document.assignments[i].task = Draft.tasks[i].id
    BY OpenDocument
  <1>2. Closure(Draft.tasks, Draft.resources, Draft.profiles, Draft.routes) /\ Draft.tasks \in Seq(TaskRows)
    BY <1>1, Parts
  <1>3. \A n \in DOMAIN Draft.profiles :
            Has(Draft.tasks, Draft.profiles[n].task) /\ Has(Draft.resources, Draft.profiles[n].resource)
    BY <1>2, IdsHas DEF Closure
  <1>4. \A n \in DOMAIN Draft.routes : Has(Draft.tasks, Draft.routes[n].source) /\ Has(Draft.tasks, Draft.routes[n].destination)
    BY <1>2, IdsHas DEF Closure
  <1>5. \A i \in DOMAIN Draft.tasks : document.assignments[i].resource \in Ids(Draft.resources) \cup {Unassigned}
    BY <1>1, <1>2 DEF Fits
  <1>6. Diagnostics(Draft) = {} <=> ConfigAccepts(Draft) /\ 0 \notin Ids(Draft.tasks) \cup Ids(Draft.resources)
    BY <1>1, DiagnosticsAgree
  <1>7. DraftDirty => Resolves(document.selection, Draft)
    BY <1>1, SnapshotParts DEF DraftDirty, Draft
  <1>8. ASSUME NEW i \in DOMAIN history PROVE Resolves(history[i].after.selection, history[i].after.draft)
    <2>1. history \in Seq(Pushed)
      BY DEF DocumentInv
    <2>2. history[i] \in Pushed
      BY <2>1
    <2> QED
      BY <2>2 DEF Pushed, Edited
  <1> QED
    BY <1>1, <1>3, <1>4, <1>5, <1>6, <1>7, <1>8

\* The invariant says what the property says.
LEMMA DocumentInvSound ==
  ASSUME DocumentInv
  PROVE  EditsSound
  <1>1. ASSUME NEW a \in {applied, [system |-> stored.system, plan |-> stored.plan]}
        PROVE  Runnable(a.system, a.plan.assignments) /\ PolicyAccepts(a.system)
    <2>1. Proper(kind, a)
      BY <1>1, ProperParts DEF DocumentInv
    <2> QED
      BY <2>1 DEF Proper, PolicyAccepts, Generic
  <1> QED
    BY <1>1, OpenSound DEF EditsSound

\* However identifiers are merged, rows removed and steps undone, the draft stays closed, what an
\* edit selects exists, also when the edit is redone, as does the selection of every draft with
\* changes (only Save may leave one behind, in a draft without changes), the diagnostics decide
\* exactly what the constructors would take, and the applied and the stored project can always
\* run (EditsSound).
THEOREM EditsStaySound == DocumentSpec => []EditsSound
  <1>1. DocumentInit => DocumentInv
    BY DocumentInitInv
  <1>2. DocumentInv /\ [DocumentNext]_documentVars => DocumentInv'
    BY DocumentNextInv
  <1>3. DocumentInv => EditsSound
    BY DocumentInvSound
  <1> QED
    BY <1>1, <1>2, <1>3, PTL DEF DocumentSpec
=============================================================================
