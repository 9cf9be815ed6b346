----------------------------- MODULE RunRecords -----------------------------
(***************************************************************************)
(* What a workflow run leaves behind: the revisions of its run record, its *)
(* events and its outcome, written by WorkflowRunner (gateway/runner.py)   *)
(* and outcomes.py through execution_storage.py.                           *)
(*                                                                         *)
(* One worker executes the run; users may cancel it.  Both write the       *)
(* records through _save, which reads the latest revision, appends the     *)
(* next one, counts the events and appends the next event: four separate   *)
(* database steps, so worker and canceller collide.  A collision is a 409  *)
(* or an IntegrityError in whoever comes second.  The worker turns it into *)
(* a failed run, or, where nothing catches it, leaves the run to           *)
(* finish_runtime.  RuntimeQueue has the claim and the sweep.              *)
(***************************************************************************)
EXTENDS Naturals, Sequences

CONSTANTS
    Stages,       \* stages of the workflow, one frontier after the other
    MaxAttempts,  \* attempts of one stage (ExecutionBudget.max_attempts)
    Cancellers,   \* cancel calls
    PageSize      \* rows one read of the events returns (LIMIT 1000)

VARIABLES
    request,      \* sandbox_requests.state
    runs,         \* sandbox_records 'run', in revision order
    events,       \* sandbox_records 'run_event', in sequence order
    outcome,      \* sandbox_records 'execution_outcome'
    pc,           \* where each caller is
    copy,         \* its SandboxRun
    after,        \* where _save returns to
    version, count,  \* what _save read
    done, tried,  \* the worker's: stages with an output, usage events due
    attempts,     \* attempt records of the run
    escaped       \* history: the worker left submit with an exception

locals == <<pc, copy, after, version, count, done, tried>>
vars == <<request, runs, events, outcome, locals, attempts, escaped>>

Worker == "worker"
Actors == {Worker} \cup Cancellers

-----------------------------------------------------------------------------
Open == {"queued", "running"}
Ends == {"succeeded", "failed", "uncertain", "cancelled"}
Status == Open \cup Ends \cup {"awaiting_approval"}
Run == [status : Status, attempts : Nat, outputs : Nat]
Event == {"run", "usage", "error"}
Steps == {"idle", "start", "begin", "loop", "stage", "usage", "usage_event", "error",
          "error_event", "final", "advance", "outcome", "finish", "escape", "read",
          "save", "append", "events", "event", "over", "dead"}

TypeOK ==
    /\ request \in Status
    /\ \A i \in DOMAIN runs : runs[i] \in Run
    /\ \A i \in DOMAIN events : events[i] \in Event
    /\ outcome \in Ends \cup {"none"}
    /\ pc \in [Actors -> Steps] /\ copy \in [Actors -> Run] /\ after \in [Actors -> Steps]
    /\ version \in [Actors -> Nat] /\ count \in [Actors -> Nat]
    /\ done \in 0 .. Stages /\ tried \in Nat
    /\ attempts \in 0 .. Stages * MaxAttempts /\ escaped \in BOOLEAN

Queued == [status |-> "queued", attempts |-> 0, outputs |-> 0]

\* enqueue_runtime has appended the first revision; a worker has claimed the run.
Init ==
    /\ request = "queued" /\ runs = <<Queued>> /\ events = <<>> /\ outcome = "none"
    /\ pc = [a \in Actors |-> IF a = Worker THEN "start" ELSE "idle"]
    /\ copy = [a \in Actors |-> Queued] /\ after = [a \in Actors |-> "over"]
    /\ version = [a \in Actors |-> 0] /\ count = [a \in Actors |-> 0]
    /\ done = 0 /\ tried = 0 /\ attempts = 0 /\ escaped = FALSE

-----------------------------------------------------------------------------
(* _save *)

Goto(a, from, to) == pc[a] = from /\ pc' = [pc EXCEPT ![a] = to]

\* Call _save with this run, then go on at next.
Save(a, from, run, next) ==
    /\ Goto(a, from, "save")
    /\ copy' = [copy EXCEPT ![a] = run]
    /\ after' = [after EXCEPT ![a] = next]

\* Where an exception of actor a ends up: inside the worker's try block the handler takes
\* over; before it, or in the handler itself, the exception leaves submit.
Guarded == {"loop", "stage", "usage", "usage_event"}
Handler(a, at) == IF a # Worker THEN "over" ELSE IF at \in Guarded THEN "error" ELSE "escape"
Raise(a, from, at) == Goto(a, from, Handler(a, at))

ReadLatest(a) ==
    /\ Goto(a, "save", "append")
    /\ version' = [version EXCEPT ![a] = Len(runs)]
    /\ UNCHANGED <<request, runs, events, outcome, copy, after, count, done, tried, attempts, escaped>>

\* append: the revision is new, or it is there with the same payload, or it is a conflict.
AppendRun_Replaces(a) ==
    /\ Goto(a, "append", "events")
    /\ runs' = SubSeq(runs, 1, version[a]) \o <<copy[a]>>
    /\ UNCHANGED <<request, events, outcome, copy, after, version, count, done, tried, attempts, escaped>>
AppendRun(a) ==
    /\ LET next == version[a] + 1 IN
        \/ /\ next > Len(runs) /\ runs' = Append(runs, copy[a])
           /\ Goto(a, "append", "events")
        \/ /\ next <= Len(runs) /\ runs[next] = copy[a] /\ UNCHANGED runs
           /\ Goto(a, "append", "events")
        \/ /\ next <= Len(runs) /\ runs[next] # copy[a] /\ UNCHANGED runs
           /\ Raise(a, "append", after[a])
    /\ UNCHANGED <<request, events, outcome, copy, after, version, count, done, tried, attempts, escaped>>

\* events(run, 0) returns one page.
Page == IF Len(events) <= PageSize THEN Len(events) ELSE PageSize
CountEvents(a) ==
    /\ \/ Goto(a, "events", "event")
       \/ Goto(a, "usage", "usage_event") /\ tried > 0
    /\ count' = [count EXCEPT ![a] = Page]
    /\ UNCHANGED <<request, runs, events, outcome, copy, after, version, done, tried, attempts, escaped>>

\* save_event: the sequence number must be the next one.
IsNext(a) == count[a] = Len(events)
Insert(a, kind) == events' = SubSeq(events, 1, count[a]) \o <<kind>>
AppendEvent(a) ==
    /\ \/ IsNext(a) /\ Insert(a, "run") /\ Goto(a, "event", after[a])
       \/ ~IsNext(a) /\ UNCHANGED events /\ Raise(a, "event", after[a])
    /\ UNCHANGED <<request, runs, outcome, copy, after, version, count, done, tried, attempts, escaped>>

-----------------------------------------------------------------------------
(* The worker: submit *)

With(status) == [copy[Worker] EXCEPT !.status = status]

\* The checks before the first save may refuse the run: policy, key, inputs, tools, a hold.
StartRun ==
    /\ \/ Save(Worker, "start", Queued, "begin")
       \/ Goto(Worker, "start", "escape") /\ UNCHANGED <<copy, after>>
    /\ UNCHANGED <<request, runs, events, outcome, version, count, done, tried, attempts, escaped>>

Begin ==
    /\ \/ request = "queued" /\ request' = "running" /\ Save(Worker, "begin", With("running"), "loop")
       \/ request # "queued" /\ Goto(Worker, "begin", "escape") /\ UNCHANGED <<request, copy, after>>
    /\ UNCHANGED <<runs, events, outcome, version, count, done, tried, attempts, escaped>>

\* check(), then the next frontier; an approval step ends the loop, and so do a lost key, a
\* disabled policy and the deadline (an exception).
Frontier ==
    /\ \/ request = "running" /\ done < Stages
          /\ Save(Worker, "loop", [copy[Worker] EXCEPT !.attempts = @ + 1], "stage")
       \/ request = "running" /\ done = Stages
          /\ copy' = [copy EXCEPT ![Worker] = With("succeeded")]
          /\ Goto(Worker, "loop", "final") /\ UNCHANGED after
       \/ request = "running" /\ done < Stages
          /\ copy' = [copy EXCEPT ![Worker] = With("awaiting_approval")]
          /\ Goto(Worker, "loop", "final") /\ UNCHANGED after
       \/ Goto(Worker, "loop", "error") /\ UNCHANGED <<copy, after>>
    /\ UNCHANGED <<request, runs, events, outcome, version, count, done, tried, attempts, escaped>>

\* The stage makes its attempts; each has a usage event after the wave.
Stage_AllAttempts ==
    /\ Goto(Worker, "stage", "usage")
    /\ \E k \in 0 .. MaxAttempts : tried' = attempts + k /\ attempts' = attempts + k
    /\ UNCHANGED <<request, runs, events, outcome, copy, after, version, count, done, escaped>>
Stage_OneMore ==
    /\ Goto(Worker, "stage", "usage")
    /\ \E k \in 0 .. MaxAttempts + 1 : tried' = k /\ attempts' = attempts + k
    /\ UNCHANGED <<request, runs, events, outcome, copy, after, version, count, done, escaped>>
Stage ==
    /\ Goto(Worker, "stage", "usage")
    /\ \E k \in 0 .. MaxAttempts : tried' = k /\ attempts' = attempts + k
    /\ UNCHANGED <<request, runs, events, outcome, copy, after, version, count, done, escaped>>

UsageEvent ==
    /\ \/ IsNext(Worker) /\ Insert(Worker, "usage") /\ tried' = tried - 1
          /\ Goto(Worker, "usage_event", "usage")
       \/ ~IsNext(Worker) /\ UNCHANGED <<events, tried>> /\ Raise(Worker, "usage_event", "usage_event")
    /\ UNCHANGED <<request, runs, outcome, copy, after, version, count, done, attempts, escaped>>

\* The stage succeeded: its output is stored and the run is checkpointed; or it failed.
Checkpoint ==
    /\ tried = 0
    /\ \/ /\ Save(Worker, "usage", [copy[Worker] EXCEPT !.outputs = @ + 1], "loop")
          /\ done' = done + 1
       \/ Goto(Worker, "usage", "error") /\ UNCHANGED <<copy, after, done>>
    /\ UNCHANGED <<request, runs, events, outcome, version, count, tried, attempts, escaped>>

\* The handler: the status depends on the request and on what was sent.
HandleError ==
    /\ Goto(Worker, "error", "error_event")
    /\ \E s \in IF request = "cancelled" THEN {"cancelled"}
                ELSE IF attempts > 0 THEN {"uncertain", "failed"} ELSE {"failed"} :
         copy' = [copy EXCEPT ![Worker] = With(s)]
    /\ count' = [count EXCEPT ![Worker] = Page]
    /\ UNCHANGED <<request, runs, events, outcome, after, version, done, tried, attempts, escaped>>

ErrorEvent ==
    /\ \/ IsNext(Worker) /\ Insert(Worker, "error") /\ Goto(Worker, "error_event", "final")
       \/ ~IsNext(Worker) /\ UNCHANGED events /\ Raise(Worker, "error_event", "error")
    /\ UNCHANGED <<request, runs, outcome, copy, after, version, count, done, tried, attempts, escaped>>

\* The state is read, then advanced by compare-and-set; a request someone else settled
\* gives the run its status.  The last save lists every attempt.
Final_OwnStatus ==
    /\ Save(Worker, "final", [copy[Worker] EXCEPT !.attempts = attempts], "outcome")
    /\ UNCHANGED <<request, runs, events, outcome, version, count, done, tried, attempts, escaped>>
Final ==
    /\ \/ request = "running" /\ Goto(Worker, "final", "advance") /\ UNCHANGED <<copy, after>>
       \/ request # "running"
          /\ Save(Worker, "final", [With(request) EXCEPT !.attempts = attempts], "outcome")
    /\ UNCHANGED <<request, runs, events, outcome, version, count, done, tried, attempts, escaped>>

Advance ==
    /\ \/ /\ request = "running" /\ request' = copy[Worker].status
          /\ Save(Worker, "advance", [copy[Worker] EXCEPT !.attempts = attempts], "outcome")
       \/ request # "running" /\ Goto(Worker, "advance", "escape") /\ UNCHANGED <<request, copy, after>>
    /\ UNCHANGED <<runs, events, outcome, version, count, done, tried, attempts, escaped>>

RecordOutcome ==
    /\ Goto(Worker, "outcome", "finish")
    /\ outcome' = IF copy[Worker].status \in Ends THEN copy[Worker].status ELSE outcome
    /\ UNCHANGED <<request, runs, events, copy, after, version, count, done, tried, attempts, escaped>>

\* finish_runtime; after an exception the request becomes uncertain if it is still open.
FinishRuntime_QueueOnly ==
    /\ \/ Goto(Worker, "finish", "over") /\ UNCHANGED escaped
       \/ Goto(Worker, "escape", "over") /\ escaped' = TRUE
    /\ UNCHANGED <<request, runs, events, outcome, copy, after, version, count, done, tried, attempts>>
FinishRuntime ==
    /\ \/ Goto(Worker, "finish", "over") /\ UNCHANGED <<request, escaped>>
       \/ /\ Goto(Worker, "escape", "over") /\ escaped' = TRUE
          /\ request' = IF request \in Open THEN "uncertain" ELSE request
    /\ UNCHANGED <<runs, events, outcome, copy, after, version, count, done, tried, attempts>>

\* The worker's process dies; the sweep of claim_runtime settles its run later.
Crash ==
    /\ pc[Worker] \notin {"over", "dead"}
    /\ pc' = [pc EXCEPT ![Worker] = "dead"]
    /\ UNCHANGED <<request, runs, events, outcome, copy, after, version, count, done, tried, attempts, escaped>>
Sweep ==
    /\ pc[Worker] = "dead" /\ request \in Open
    /\ request' = "uncertain"
    /\ UNCHANGED <<runs, events, outcome, locals, attempts, escaped>>

-----------------------------------------------------------------------------
(* cancel *)

\* The run is read first, the request state later.
ReadRun(c) ==
    /\ Goto(c, "idle", "read")
    /\ copy' = [copy EXCEPT ![c] = runs[Len(runs)]]
    /\ UNCHANGED <<request, runs, events, outcome, after, version, count, done, tried, attempts, escaped>>

\* advance_request(current, "cancelled"): nothing to do for a settled request; a state that
\* moved in between is a conflict.
CancelRequest_OldStatus(c) ==
    /\ \/ request \in Open /\ request' = "cancelled" /\ Save(c, "read", copy[c], "over")
       \/ Goto(c, "read", "over") /\ UNCHANGED <<request, copy, after>>
    /\ UNCHANGED <<runs, events, outcome, version, count, done, tried, attempts, escaped>>
CancelRequest(c) ==
    /\ \/ /\ request \in Open /\ request' = "cancelled"
          /\ Save(c, "read", [copy[c] EXCEPT !.status = "cancelled"], "over")
       \/ Goto(c, "read", "over") /\ UNCHANGED <<request, copy, after>>
    /\ UNCHANGED <<runs, events, outcome, version, count, done, tried, attempts, escaped>>

-----------------------------------------------------------------------------
Saving(a) == ReadLatest(a) \/ AppendRun(a) \/ CountEvents(a) \/ AppendEvent(a)
Submit ==
    \/ Saving(Worker) \/ StartRun \/ Begin \/ Frontier \/ Stage \/ UsageEvent \/ Checkpoint
    \/ HandleError \/ ErrorEvent \/ Final \/ Advance \/ RecordOutcome \/ FinishRuntime
Cancel(c) == ReadRun(c) \/ CancelRequest(c) \/ Saving(c)

Next == Submit \/ Crash \/ Sweep \/ \E c \in Cancellers : Cancel(c)

Spec == Init /\ [][Next]_vars
FairSpec == Spec /\ WF_vars(Submit) /\ WF_vars(Sweep)

-----------------------------------------------------------------------------
(* Properties *)

\* The outcome agrees with the request's own state, which only compare-and-set changes:
\* a run that was cancelled under the worker is not recorded as a success.
OutcomeIsTheSettlement == outcome # "none" => request = outcome

\* When the worker and every canceller have ended without an exception in submit, the
\* newest run record shows the state of the request.
NewestRecordAgrees ==
    (\A a \in Actors : pc[a] \in {"idle", "over"}) /\ ~escaped => runs[Len(runs)].status = request

\* The events of a run stay far below one page: two to begin, one before and one after
\* each stage, one for each attempt, the error, the end, and one for the one cancellation
\* that succeeds.  With 30 stages and 3 attempts that is 155 of 1000 rows.
EventsWithinPage == Len(events) <= 5 + Stages * (2 + MaxAttempts)

\* What worker and canceller write down about a run agrees with its request.
RecordsAgree == TypeOK /\ OutcomeIsTheSettlement /\ NewestRecordAgrees /\ EventsWithinPage

\* Revisions and events are append-only: no revision or sequence number is written twice,
\* although worker and canceller compute the same next number.
AppendOnly ==
    [][/\ Len(runs') >= Len(runs) /\ SubSeq(runs', 1, Len(runs)) = runs
       /\ Len(events') >= Len(events) /\ SubSeq(events', 1, Len(events)) = events]_vars

\* Whatever collides, a run is settled: a conflict in _save fails the run or ends in
\* finish_runtime, a dead worker's run is swept.
EveryRunSettles == <>[](request \notin Open)

\* "Durable checkpoint": the newest record of a run whose worker ended normally refers to
\* the output of every stage that was checkpointed.
CheckpointsKept ==
    (\A a \in Actors : pc[a] \in {"idle", "over"}) /\ ~escaped
        => runs[Len(runs)].outputs = done

\* "Terminal workflow executions append ... ExecutionOutcome observations": an execution
\* that ended without a crash and is settled has one.
OutcomeForEveryEnd ==
    pc[Worker] = "over" /\ attempts > 0 /\ request \in Ends => outcome # "none"
=============================================================================
