--------------------------- MODULE ResultService ---------------------------
(***************************************************************************)
(* What the completed-run finalizer promises its single client.  At most   *)
(* one request is open.  The client opens one, withdraws it, or forgets    *)
(* everything; the service answers the open request once, with the result  *)
(* of exactly that request or with a failure.  No threads, no stop tokens. *)
(***************************************************************************)
CONSTANTS
    Requests,   \* what can be asked for
    NoRequest   \* no request, no result

VARIABLES
    status,     \* CompletedResultFinalizationState as the client reads it
    open,       \* the request still to be answered
    delivered   \* the last result the client received

vars == <<status, open, delivered>>

Init == status = "Idle" /\ open = NoRequest /\ delivered = NoRequest

\* A new request replaces an open one, which is then never answered.
Ask(r) == open' = r /\ status' = "Finalizing" /\ UNCHANGED delivered

Withdraw ==
    /\ open # NoRequest
    /\ open' = NoRequest
    /\ status' = "Cancelled"
    /\ UNCHANGED delivered

Forget == open' = NoRequest /\ status' = "Idle" /\ UNCHANGED delivered

Deliver ==
    /\ open # NoRequest
    /\ open' = NoRequest
    /\ status' = "Ready"
    /\ delivered' = open

Fail ==
    /\ open # NoRequest
    /\ open' = NoRequest
    /\ status' = "Failed"
    /\ UNCHANGED delivered

Next == (\E r \in Requests : Ask(r)) \/ Withdraw \/ Forget \/ Deliver \/ Fail

Spec == Init /\ [][Next]_vars
=============================================================================
