----------------------------- MODULE GasService -----------------------------
(***************************************************************************)
(* What the GAS query engine promises to the code that calls               *)
(* gas_query_req(): a request is refused, or it is accepted and then       *)
(* reported exactly once with one result.  Callers such as                 *)
(* interworking_anqp_resp_cb() continue their own work from that report.   *)
(***************************************************************************)
CONSTANTS
    Request,  \* identities of the requests
    Outcome   \* results a report can carry

VARIABLES
    status,   \* "new", "refused", "accepted" or "reported", for each request
    outcome,  \* the reported result, or "none"
    stopped   \* the engine is deinitialised or dead

vars == <<status, outcome, stopped>>

TypeOK ==
    /\ status \in [Request -> {"new", "refused", "accepted", "reported"}]
    /\ outcome \in [Request -> Outcome \cup {"none"}]
    /\ stopped \in BOOLEAN

Init ==
    /\ status = [r \in Request |-> "new"]
    /\ outcome = [r \in Request |-> "none"]
    /\ stopped = FALSE

Accept(r) ==
    /\ ~stopped
    /\ status[r] = "new"
    /\ status' = [status EXCEPT ![r] = "accepted"]
    /\ UNCHANGED <<outcome, stopped>>

Refuse(r) ==
    /\ ~stopped
    /\ status[r] = "new"
    /\ status' = [status EXCEPT ![r] = "refused"]
    /\ UNCHANGED <<outcome, stopped>>

Report(r, res) ==
    /\ ~stopped
    /\ status[r] = "accepted"
    /\ status' = [status EXCEPT ![r] = "reported"]
    /\ outcome' = [outcome EXCEPT ![r] = res]
    /\ UNCHANGED stopped

\* Deinitialisation reports every accepted request.
Shutdown(res) ==
    /\ ~stopped
    /\ stopped' = TRUE
    /\ status' = [r \in Request |->
                     IF status[r] = "accepted" THEN "reported" ELSE status[r]]
    /\ outcome' = [r \in Request |->
                     IF status[r] = "accepted" THEN res ELSE outcome[r]]

\* The process dies with its requests unreported.
Die ==
    /\ ~stopped
    /\ stopped' = TRUE
    /\ UNCHANGED <<status, outcome>>

Next ==
    \/ \E r \in Request : Accept(r) \/ Refuse(r)
    \/ \E r \in Request, res \in Outcome : Report(r, res)
    \/ \E res \in Outcome : Shutdown(res)
    \/ Die

Spec == Init /\ [][Next]_vars
=============================================================================
