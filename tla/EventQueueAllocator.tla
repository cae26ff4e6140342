------------------------ MODULE EventQueueAllocator ------------------------
(***************************************************************************)
(* The event queue as a component: any producer may schedule an event with *)
(* any fields, the engine pops whenever it likes.  What is modelled beyond *)
(* EventQueue is the finite sequence domain (uint64_t, here                *)
(* 0..MaxSequence), whose last value is usable exactly once, and the       *)
(* insertions the Event constructor rejects.                               *)
(***************************************************************************)
EXTENDS EventQueue, Sequences

CONSTANTS
    MaxSequence,    \* std::numeric_limits<std::uint64_t>::max()
    Phases,         \* the phases producers use
    MaxOfferedTick  \* bound: producers offer ticks in -1..MaxOfferedTick

ASSUME AllocatorAssumption ==
    /\ MaxSequence \in Nat
    /\ Phases \subseteq EventPhase
    /\ MaxOfferedTick \in Nat

VARIABLES
    queue,      \* events_ and next_sequence_
    exhausted,  \* sequence_space_exhausted_
    taken       \* history: the events pop_next() returned, in order

queueVars == <<queue, exhausted, taken>>

NoEntities == [task |-> Absent, job |-> Absent, resource |-> Absent, message |-> Absent]

QueueInit == queue = EmptyQueue /\ exhausted = FALSE /\ taken = <<>>

\* The Event constructor: nonnegative tick, cause before the event's own sequence.
Constructible(tick, cause) == tick >= 0 /\ cause < queue.next_sequence

\* schedule(): throws without effect, or inserts and advances the allocator.
Schedule(tick, phase, cause) ==
    /\ ~ exhausted
    /\ Constructible(tick, cause)
    /\ LET inserted == Scheduled(queue, tick, phase, "JobRelease", NoEntities, cause)
           last == queue.next_sequence = MaxSequence
       IN  /\ queue' = IF last THEN [inserted EXCEPT !.next_sequence = @ - 1] ELSE inserted
           /\ exhausted' = last
    /\ UNCHANGED taken

\* Faulty variant of ScheduleRejected: the sequence is allocated before the Event exists.
RejectedConsumesSequence(tick, cause) ==
    /\ ~ exhausted
    /\ ~ Constructible(tick, cause)
    /\ queue.next_sequence < MaxSequence
    /\ queue' = [queue EXCEPT !.next_sequence = @ + 1]
    /\ UNCHANGED <<exhausted, taken>>

ScheduleRejected(tick, cause) ==
    /\ exhausted \/ ~ Constructible(tick, cause)
    /\ UNCHANGED queueVars

PopNext ==
    \E e \in queue.events :
        /\ IsNextEvent(queue, e)
        /\ queue' = Popped(queue, e)
        /\ taken' = Append(taken, e)
        /\ UNCHANGED exhausted

\* Bound: no cause, the first event, and the last one there can be.
OfferedCauses == {Absent, 0, MaxSequence}

QueueNext ==
    \/ \E tick \in -1 .. MaxOfferedTick, phase \in Phases, cause \in OfferedCauses :
           Schedule(tick, phase, cause) \/ ScheduleRejected(tick, cause)
    \/ PopNext

QueueSpec == QueueInit /\ [][QueueNext]_queueVars

Taken == {taken[i] : i \in DOMAIN taken}

-----------------------------------------------------------------------------
\* A sequence value identifies one accepted event for the whole run, pending or already
\* taken, and the allocator has handed out exactly an initial segment of its domain: no
\* rejected insertion burns a value, and the last value is used before exhaustion is
\* reported (schedule(), event_queue.cpp:73-93).
SequencesIdentifyEvents ==
    LET accepted == queue.events \cup Taken
        used == {e.sequence : e \in accepted}
    IN  /\ \A e, f \in accepted : e.sequence = f.sequence => e = f
        /\ used = IF exhausted THEN 0 .. MaxSequence ELSE 0 .. queue.next_sequence - 1
        /\ \A e \in accepted : e.cause < e.sequence

\* The order in which the phases of one tick are documented to be processed (ADR-0004).
DocumentedOrder == <<"ExecutionCompletion", "MessageDelivery", "DeadlineCheck", "JobRelease",
                     "PolicyUpdate", "Scheduling", "CausedAction", "CausedActionLate">>

Rank(phase) == CHOOSE i \in DOMAIN DocumentedOrder : DocumentedOrder[i] = phase

\* An event is overtaken only by events inserted after it was due: if of two taken events
\* the second should not have come later by tick and documented phase, it was inserted
\* with a larger sequence.  So events of one tick and phase are first-in first-out,
\* whatever is inserted or taken in between (LaterEvent and its sequence tie-break,
\* event_queue.cpp:54-66).
OvertakenOnlyByLateInsertion ==
    \A i, j \in DOMAIN taken :
        LET e == taken[i]
            f == taken[j]
        IN  /\ i < j
            /\ f.tick < e.tick \/ (f.tick = e.tick /\ Rank(f.phase) <= Rank(e.phase))
            => f.sequence > e.sequence
\* Both promises of the queue, for any producers and any order of insertions and removals
\* (event_queue.cpp:54-93).
QueueSound == SequencesIdentifyEvents /\ OvertakenOnlyByLateInsertion
=============================================================================
