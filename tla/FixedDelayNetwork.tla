------------------------- MODULE FixedDelayNetwork -------------------------
(***************************************************************************)
(* Completion-triggered messages with a one-tick send offset and a fixed   *)
(* delay per route.  A message identifier is the message's position in     *)
(* messages: the allocator counts from one without gaps.                   *)
(***************************************************************************)
EXTENDS EngineState

VARIABLE
    messages    \* messages_

MessageLifecycle == {"PendingSend", "InFlight", "Delivered"}

\* send_event and delivery_event are Absent while no candidate is queued.
Message == [source : JobIdentity, destination : TaskIds, publish : Nat, send : Nat,
            delivery : Nat, publication : Nat, lifecycle : MessageLifecycle,
            send_event : Int, delivery_event : Int]

\* message_route_send_offset_ticks
SendOffset == 1

SendTick(completion) == completion.tick + SendOffset

\* checked_add and the Message constructor refuse a delivery that does not follow the send.
DelayRefused(delay) == delay <= 0

PublishOverflows(completion, delay) ==
    \/ SendOffset > MaxTick - completion.tick
    \/ delay > MaxTick - SendTick(completion)

MessageEntities(t, k, m) == [task |-> t, job |-> k, resource |-> Absent, message |-> m]

SendQueued(completion) == SendTick(completion) <= config.stop

NewMessage(completion, d, delay) ==
    [source |-> <<completion.entities.task, completion.entities.job>>, destination |-> d,
     publish |-> completion.tick, send |-> SendTick(completion),
     delivery |-> SendTick(completion) + delay, publication |-> completion.sequence,
     lifecycle |-> "PendingSend",
     send_event |-> IF SendQueued(completion) THEN queue.next_sequence ELSE Absent,
     delivery_event |-> Absent]

\* One route's share of publish(): the record always, its send only within the horizon.
PublishTo(completion, d, delay) ==
    /\ messages' = Append(messages, NewMessage(completion, d, delay))
    /\ queue' = IF SendQueued(completion)
                THEN Scheduled(queue, SendTick(completion), "CausedAction", "MessageSend",
                               MessageEntities(completion.entities.task, completion.entities.job,
                                               Len(messages) + 1),
                               completion.sequence)
                ELSE queue

\* process_send accepts e for the pending message it names.
SendMatches(e) ==
    LET m == messages[e.entities.message]
    IN  /\ e.entities.message \in DOMAIN messages
        /\ m.lifecycle = "PendingSend"
        /\ e.tick = m.send
        /\ e.sequence = m.send_event
        /\ e.cause = m.publication
        /\ m.source = <<e.entities.task, e.entities.job>>

\* Faulty variant of DeliveryQueued: a delivery on the horizon is not queued.
DeliveryBeforeStop(m) == m.delivery < config.stop

DeliveryQueued(m) == m.delivery <= config.stop

\* A delivery in the tick of its send would need the late caused-action phase.
DeliveryPhase(m) == IF m.delivery = m.send THEN "CausedActionLate" ELSE "MessageDelivery"

QueueAfterSend(q, e) ==
    LET m == messages[e.entities.message]
    IN  IF DeliveryQueued(m)
        THEN Scheduled(q, m.delivery, DeliveryPhase(m), "MessageDelivery",
                       MessageEntities(m.destination, Absent, e.entities.message), e.sequence)
        ELSE q

SentMessage(m) ==
    [m EXCEPT !.lifecycle = "InFlight",
              !.delivery_event = IF DeliveryQueued(m) THEN queue.next_sequence ELSE Absent]

\* process_delivery accepts e for the in-flight message it names.
DeliveryMatches(e) ==
    LET m == messages[e.entities.message]
    IN  /\ e.entities.message \in DOMAIN messages
        /\ m.lifecycle = "InFlight"
        /\ e.tick = m.delivery
        /\ e.sequence = m.delivery_event
        /\ e.cause = m.send_event
        /\ e.entities.task = m.destination
        /\ e.entities.job = Absent
=============================================================================
