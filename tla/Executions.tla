----------------------------- MODULE Executions -----------------------------
(***************************************************************************)
(* What an execution leaves behind: a streamed completion (GatewayStream)  *)
(* its answer, its attempts and its request; a workflow run (RunRecords)   *)
(* its records and events.  No action touches both: a behaviour exercises  *)
(* one of them, and the other stays as it began.                           *)
(***************************************************************************)
EXTENDS GatewayStream, Sequences

CONSTANTS RunStages, MaxAttempts, Cancellers, PageSize      \* RunRecords

\* ExecutionBudget and the validated workflow; the worker is not among those who cancel.
ASSUME RunsAssumption ==
    /\ RunStages \in Nat /\ MaxAttempts \in Nat /\ PageSize \in Nat
    /\ "worker" \notin Cancellers

VARIABLES
    part,                                                      \* what is exercised
    state, runs, events, outcome, step, copy, after, version, count, stages, tried, attempts,
    raised                                                     \* RunRecords

runVars == <<state, runs, events, outcome, step, copy, after, version, count, stages, tried, attempts, raised>>
executionVars == <<part, vars, runVars>>

Records == INSTANCE RunRecords WITH
    Stages <- RunStages, request <- state, pc <- step, done <- stages, escaped <- raised

-----------------------------------------------------------------------------
ExecutionsInit == part \in {"gateway", "upstream", "records"} /\ Init /\ Records!Init

InRecords == part = "records" /\ UNCHANGED <<part, vars>>
ExecutionsNext ==
    \/ part = "gateway" /\ Next /\ UNCHANGED <<part, runVars>>
    \/ InRecords /\ Records!Next

ExecutionsSpec == ExecutionsInit /\ [][ExecutionsNext]_executionVars

-----------------------------------------------------------------------------
(* Properties of a run; each is explained where it is stated *)

\* What worker and canceller write down about a run agrees with its request, and stays
\* within the page that is counted.
RecordsAgree == part = "records" => Records!RecordsAgree

\* No revision or sequence number is written twice, although worker and canceller compute
\* the same next one.
RecordsStay == Records!AppendOnly
=============================================================================
