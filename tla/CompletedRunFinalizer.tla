----------------------- MODULE CompletedRunFinalizer -----------------------
(***************************************************************************)
(* The finalizer of completed runs: one client thread (the GUI) and one    *)
(* worker thread that builds the result of a finished run.  request(),     *)
(* cancel() and reset() all begin with request_stop() and a blocking       *)
(* join(), so a call is two steps: BeginCall, and a Finish... step enabled *)
(* when the worker has returned.  Every lock section is one step.          *)
(***************************************************************************)
EXTENDS Naturals

CONSTANTS
    Generations,    \* runtime generations of the session
    Runs,           \* names of runs: the content of a result
    NoRequest,      \* an empty optional
    WakeupBound     \* bound: calls posted to the client and not yet processed

\* CompletedRunFinalizationRequest, and the CompletedRunResult built from it.
Requests == [generation : Generations, run : Runs]

ASSUME FinalizerAssumption ==
    /\ NoRequest \notin Requests
    /\ NoRequest \notin Generations
    /\ WakeupBound \in Nat

VARIABLES
    call,       \* the call the client thread is inside of
    status,     \* state_
    requested,  \* requested_generation_
    result,     \* pending_result_
    error,      \* pending_error_ has a value
    wakeup,     \* wakeup_ is set
    worker,     \* worker_ and its stop token
    wakeups,    \* wake-ups posted to the client's event loop, not yet processed
    delivered   \* what take_publication() returned last

workerView == <<call, status, requested>>
clientView == <<requested, wakeup, wakeups, delivered>>
finalizerVars == <<call, status, requested, result, error, wakeup, worker, wakeups, delivered>>

Operation == {"none", "request", "cancel", "reset"}

NoCall == [operation |-> "none", request |-> NoRequest]

(***************************************************************************)
(* none      not joinable              deliver   passed the stop check     *)
(* building  inside the builder        raise     caught an exception       *)
(* notify    stored, about to wake     returned  joinable, finished        *)
(***************************************************************************)
WorkerStage == {"none", "building", "deliver", "raise", "notify", "returned"}

NoWorker == [at |-> "none", request |-> NoRequest, stop |-> FALSE, notify |-> FALSE]

FinalizerInit ==
    /\ call = NoCall
    /\ status = "Idle"
    /\ requested = NoRequest
    /\ result = NoRequest
    /\ error = FALSE
    /\ wakeup = TRUE
    /\ worker = NoWorker
    /\ wakeups = 0
    /\ delivered = NoRequest

-----------------------------------------------------------------------------
(* The client thread. *)

\* The calling thread asks a joinable worker to stop and waits for it.
BeginCall(operation, request) ==
    /\ call = NoCall
    /\ operation = "request" => wakeups < WakeupBound
    /\ call' = [operation |-> operation, request |-> request]
    /\ worker' = [worker EXCEPT !.stop = worker.at # "none"]
    /\ UNCHANGED <<status, requested, result, error, wakeup, wakeups, delivered>>

\* Faulty variant of Joined: stop is requested but the worker is not waited for.
JoinedAtOnce == TRUE

Joined == worker.at \in {"none", "returned"}

\* worker_ after join(): a thread that has returned is no longer joinable.
JoinedWorker == IF worker.at = "returned" THEN NoWorker ELSE worker

\* Faulty variant of ClearedStatus: the state survives the cancellation.
ClearedStatusKept == status

\* state_ after the lock section of cancel().
ClearedStatus == IF status = "Finalizing" THEN "Cancelled" ELSE status

\* The rest of cancel(), and what the caller does after it, up to its return.
Finish(operation) ==
    /\ call.operation = operation
    /\ Joined
    /\ call' = NoCall
    /\ result' = NoRequest
    /\ error' = FALSE
    /\ UNCHANGED <<wakeup, wakeups, delivered>>

FinishCancel ==
    /\ Finish("cancel")
    /\ status' = ClearedStatus
    /\ worker' = JoinedWorker
    /\ UNCHANGED requested

FinishReset ==
    /\ Finish("reset")
    /\ status' = "Idle"
    /\ requested' = NoRequest
    /\ worker' = JoinedWorker

AlreadyReady == requested = call.request.generation /\ ClearedStatus = "Ready"

RequestRefused ==
    /\ Finish("request")
    /\ AlreadyReady
    /\ status' = ClearedStatus
    /\ worker' = JoinedWorker
    /\ UNCHANGED requested

StartWorker ==
    /\ Finish("request")
    /\ ~ AlreadyReady
    /\ status' = "Finalizing"
    /\ requested' = call.request.generation
    /\ worker' = [NoWorker EXCEPT !.at = "building", !.request = call.request]

\* Faulty variant of PublicationPending: a failed build is not a publication.
ResultPending == result # NoRequest

PublicationPending == result # NoRequest \/ (error /\ status = "Finalizing")

\* take_publication() when something is pending; the client then reads diagnostic().
TakePublication ==
    /\ PublicationPending
    /\ status' = IF result # NoRequest THEN "Ready" ELSE "Failed"
    /\ delivered' = IF result # NoRequest THEN result ELSE delivered
    /\ result' = NoRequest
    /\ UNCHANGED <<call, requested, error, wakeup, worker>>

\* A posted wake-up is processed by the client's event loop.
ProcessWakeup ==
    /\ call = NoCall
    /\ wakeups > 0
    /\ wakeups' = wakeups - 1
    /\ \/ TakePublication
       \/ /\ ~ PublicationPending
          /\ UNCHANGED <<call, status, requested, result, error, wakeup, worker, delivered>>

\* set_wakeup({}): the client is about to go away.
ClearWakeup ==
    /\ call = NoCall
    /\ wakeup' = FALSE
    /\ UNCHANGED <<call, status, requested, result, error, worker, wakeups, delivered>>

-----------------------------------------------------------------------------
(* The worker thread. *)

\* The builder has returned; a stopped worker leaves without a trace.
CheckStop ==
    /\ worker.at = "building"
    /\ worker' = [worker EXCEPT !.at = IF worker.stop THEN "returned" ELSE "deliver"]
    /\ UNCHANGED <<workerView, clientView, result, error>>

\* The builder has thrown; the handler does not look at the stop token.
BuilderThrows ==
    /\ worker.at = "building"
    /\ worker' = [worker EXCEPT !.at = "raise"]
    /\ UNCHANGED <<workerView, clientView, result, error>>

\* The worker copies wakeup_ in the lock section that stores its outcome.
Stored == [worker EXCEPT !.at = "notify", !.notify = wakeup]

StoreResult ==
    /\ worker.at = "deliver"
    /\ result' = worker.request
    /\ worker' = Stored
    /\ UNCHANGED <<workerView, clientView, error>>

\* Faulty variant of StoreError: only a result wakes the client.
StoreErrorSilently ==
    /\ worker.at = "raise"
    /\ error' = TRUE
    /\ worker' = [worker EXCEPT !.at = "returned"]
    /\ UNCHANGED <<workerView, clientView, result>>

StoreError ==
    /\ worker.at = "raise"
    /\ error' = TRUE
    /\ worker' = Stored
    /\ UNCHANGED <<workerView, clientView, result>>

\* Outside the lock: the wake-up posts a call to the client's event loop.
Notify ==
    /\ worker.at = "notify"
    /\ wakeups' = IF worker.notify THEN wakeups + 1 ELSE wakeups
    /\ worker' = [worker EXCEPT !.at = "returned"]
    /\ UNCHANGED <<workerView, result, error, wakeup, delivered>>

WorkerStep == CheckStop \/ BuilderThrows \/ StoreResult \/ StoreError \/ Notify

FinishCall == FinishCancel \/ FinishReset \/ RequestRefused \/ StartWorker
=============================================================================
