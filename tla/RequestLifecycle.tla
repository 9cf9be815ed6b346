-------------------------- MODULE RequestLifecycle --------------------------
(***************************************************************************)
(* What the gateway promises about one idempotency key, whoever presents   *)
(* it and however often: the request it names is registered once, begins   *)
(* once, is sent to providers a bounded number of times and only while it  *)
(* is running, and is settled at most once.  GatewayInference and          *)
(* GatewayStream are shown to implement it.                                *)
(***************************************************************************)
EXTENDS Naturals

CONSTANT Limit   \* provider calls one request may cause

VARIABLES
    state,       \* sandbox_requests.state, "none" before the row exists
    sends        \* provider calls made for the request

Init == state = "none" /\ sends = 0

\* register_request: the row is inserted.
Register ==
    /\ state = "none" /\ state' = "queued"
    /\ UNCHANGED sends

\* advance_request: queued to running.
Begin ==
    /\ state = "queued" /\ state' = "running"
    /\ UNCHANGED sends

\* A provider call for the running request.
Send ==
    /\ state = "running" /\ sends < Limit /\ sends' = sends + 1
    /\ UNCHANGED state

\* advance_request: a success needs a provider call, everything else is uncertain.
Settle ==
    /\ state = "running"
    /\ \/ state' = "uncertain"
       \/ state' = "succeeded" /\ sends > 0
    /\ UNCHANGED sends

Next == Register \/ Begin \/ Send \/ Settle

Spec == Init /\ [][Next]_<<state, sends>>
=============================================================================
