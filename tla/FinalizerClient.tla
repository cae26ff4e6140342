-------------------------- MODULE FinalizerClient --------------------------
(***************************************************************************)
(* The finalizer under its most general client: a thread that requests,    *)
(* cancels and resets at any time, processes the wake-ups posted to it,    *)
(* and may clear the wake-up when it goes away.                            *)
(***************************************************************************)
EXTENDS CompletedRunFinalizer

Init == FinalizerInit

Next ==
    \/ \E r \in Requests : BeginCall("request", r)
    \/ \E operation \in {"cancel", "reset"} : BeginCall(operation, NoRequest)
    \/ FinishCall
    \/ ProcessWakeup
    \/ ClearWakeup
    \/ WorkerStep

\* The worker runs to its end once the builder returns, join() returns with it, and the
\* client's event loop processes what is posted to it.
Spec ==
    /\ Init
    /\ [][Next]_finalizerVars
    /\ WF_finalizerVars(WorkerStep)
    /\ WF_finalizerVars(FinishCall)
    /\ WF_finalizerVars(ProcessWakeup)

WorkerState == [at : WorkerStage, request : Requests \cup {NoRequest}, stop : BOOLEAN, notify : BOOLEAN]

TypeOK ==
    /\ call \in [operation : Operation, request : Requests \cup {NoRequest}]
    /\ status \in {"Idle", "Finalizing", "Ready", "Cancelled", "Failed"}
    /\ requested \in Generations \cup {NoRequest}
    /\ result \in Requests \cup {NoRequest}
    /\ error \in BOOLEAN
    /\ wakeup \in BOOLEAN
    /\ worker \in WorkerState
    /\ wakeups \in Nat
    /\ delivered \in Requests \cup {NoRequest}

Working == worker.at \in {"building", "deliver", "raise"}

Answered == result # NoRequest \/ error

-----------------------------------------------------------------------------
\* Whoever still builds, builds what the client waits for: no worker outlives the call
\* that replaced or cancelled its request, and nothing is stored before it ends
\* (cancel(), completed_run_finalizer.cpp:66-77).
WorkerServesRequest ==
    Working =>
        /\ status = "Finalizing"
        /\ requested = worker.request.generation
        /\ ~ Answered

\* A stored result is the answer to the latest request, whose worker has only to wake the
\* client: results of cancelled or superseded requests never reach take_publication()
\* (completed_run_finalizer.cpp:43-47, 102-109).
StoredResultIsCurrent ==
    result # NoRequest =>
        /\ status = "Finalizing"
        /\ result = worker.request
        /\ requested = result.generation
        /\ ~ error

\* While the client is not inside a call and has not gone away, a waiting answer has a
\* wake-up that is posted or about to be, and a request without an answer has a worker
\* that was not told to stop: the client never waits for nobody
\* (completed_run_finalizer.cpp:36-62).
NoLostWakeup ==
    status = "Finalizing" /\ call = NoCall /\ wakeup =>
        IF Answered THEN wakeups > 0 \/ (worker.at = "notify" /\ worker.notify)
                    ELSE Working /\ ~ worker.stop

\* A stored answer is the open request's, and the client learns of it (the lock sections of
\* request(), cancel() and take_publication()).
AnswersSound == StoredResultIsCurrent /\ NoLostWakeup

\* The client of a request is told the outcome unless it calls again or goes away
\* (the worker of request(), process_background_publications()).
RequestsAreAnswered ==
    status = "Finalizing" ~> (status # "Finalizing" \/ call # NoCall \/ ~ wakeup)

-----------------------------------------------------------------------------
(* What makes these invariants inductive. *)

CallWellFormed ==
    /\ call.operation = "none" <=> call = NoCall
    /\ call.operation = "request" => call.request \in Requests

\* Only a call asks the worker to stop, and it returns with the worker joined.
StopMeansCall == worker.stop => call # NoCall /\ worker.at # "none"

\* A request the client waits for has a thread that was started for it.
FinalizingHasWorker ==
    status = "Finalizing" =>
        /\ worker.at # "none"
        /\ worker.request \in Requests
        /\ requested = worker.request.generation

ErrorExcludesResult == error => result = NoRequest

FinalizerInv ==
    /\ TypeOK
    /\ CallWellFormed
    /\ StopMeansCall
    /\ FinalizingHasWorker
    /\ ErrorExcludesResult
    /\ WorkerServesRequest
    /\ StoredResultIsCurrent
    /\ NoLostWakeup

-----------------------------------------------------------------------------
(* The finalizer implements ResultService: a request is open exactly while *)
(* the client reads Finalizing, and the worker's request is the open one.  *)

OpenRequest == IF status = "Finalizing" THEN worker.request ELSE NoRequest

Service == INSTANCE ResultService WITH open <- OpenRequest

\* Threads, stop tokens, lock sections and wake-ups together look like one request that is
\* answered at most once with its own result (the whole of CompletedRunFinalizer).
ImplementsResultService == Service!Spec
=============================================================================
