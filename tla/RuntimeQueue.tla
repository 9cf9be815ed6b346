---------------------------- MODULE RuntimeQueue ----------------------------
(***************************************************************************)
(* The durable request ledger and the runtime queue of the sandbox:        *)
(* sandbox_requests, runtime_queue and the queued_input payloads of        *)
(* execution_storage.py, driven by                                         *)
(*   - API handlers that submit and cancel runs (execution_jobs.py,        *)
(*     gateway/runner.py), and                                             *)
(*   - worker processes that claim, execute and finish them                *)
(*     (QueuedWorkflows.work_once calling WorkflowRunner.submit).          *)
(*                                                                         *)
(* One action is one database transaction, or one read whose value is used *)
(* after other processes may have run.  claim_runtime reads the clock and  *)
(* the expired rows before it updates them; PostgreSQL runs it at READ     *)
(* COMMITTED, so the read and the updates are two actions here.            *)
(*                                                                         *)
(* The run records and events that a run also writes are the subject of    *)
(* module RunRecords; here such a write may only fail or succeed.          *)
(***************************************************************************)
EXTENDS Naturals, FiniteSets

CONSTANTS
    Run,          \* request ids; every HTTP call mints its own
    Worker,       \* worker processes
    Key,          \* idempotency keys
    Content,      \* input hashes
    Ttl,          \* 120 s: longest context deadline and lifetime of a queued input
    Lease,        \* 125 s: lease of a claimed queue row
    MaxTime,      \* bound: the clock stops here
    MaxSubmit,    \* bound: no submission after this time
    MaxCrashes    \* bound: worker crashes in one behaviour

ASSUME BoundsAssumption ==
    /\ Ttl \in Nat \ {0} /\ Lease \in Nat \ {0}
    /\ MaxTime \in Nat /\ MaxSubmit \in Nat /\ MaxCrashes \in Nat

VARIABLES
    now,
    \* submissions: handler state, idempotency key, content hash, deadline
    sub, rkey, rhash, deadline,
    \* database rows
    request,      \* sandbox_requests.state
    queue,        \* runtime_queue.state
    lease,        \* runtime_queue.lease_until
    input,        \* is there a queued_input payload
    expires,      \* its expires_at
    \* cancel handlers: the request state each has read
    seen,
    \* workers: program counter, claimed run, claim snapshot, result to record
    wpc, wrun, wnow, wexp, wres,
    \* history: claims of a run, waves dispatched after it left "running"
    claims, late,
    crashes

subVars    == <<sub, rkey, rhash, deadline>>
dbVars     == <<request, queue, lease, input, expires>>
workerVars == <<wpc, wrun, wnow, wexp, wres>>
vars == <<now, subVars, dbVars, seen, workerVars, claims, late, crashes>>

-----------------------------------------------------------------------------
(* Types *)

None == "none"
Open == {"queued", "running"}
Settled == {"succeeded", "failed", "cancelled", "uncertain", "awaiting_approval"}
RequestState == {None} \cup Open \cup Settled
QueueState == {None, "queued", "running", "done", "uncertain"}

\* What a workflow can end with; "cancelled" is what the runner writes when it finds the
\* request already cancelled.
Result == {"succeeded", "failed", "uncertain", "cancelled", "awaiting_approval"}

\* Program counters of a worker that has claimed a run.
Holding == {"claimed", "loaded", "admitted", "started", "loop", "dispatch",
            "waved", "settle", "cas", "recorded", "finish", "give_up"}

TypeOK ==
    /\ now \in Nat
    /\ sub \in [Run -> {"new", "absent", "created", "existing", "conflict"}]
    /\ rkey \in [Run -> Key \cup {None}]
    /\ rhash \in [Run -> Content \cup {None}]
    /\ deadline \in [Run -> Nat]
    /\ request \in [Run -> RequestState]
    /\ queue \in [Run -> QueueState]
    /\ lease \in [Run -> Nat]
    /\ input \in [Run -> BOOLEAN]
    /\ expires \in [Run -> Nat]
    /\ seen \in [Run -> Open \cup {None}]
    /\ wpc \in [Worker -> {"idle", "claiming"} \cup Holding]
    /\ wrun \in [Worker -> Run \cup {None}]
    /\ wnow \in [Worker -> Nat]
    /\ wexp \in [Worker -> SUBSET Run]
    /\ wres \in [Worker -> Result \cup {None}]
    /\ claims \in [Run -> Nat]
    /\ late \in [Run -> Nat]
    /\ crashes \in Nat

Init ==
    /\ now = 0
    /\ sub = [r \in Run |-> "new"]
    /\ rkey = [r \in Run |-> None]
    /\ rhash = [r \in Run |-> None]
    /\ deadline = [r \in Run |-> 0]
    /\ request = [r \in Run |-> None]
    /\ queue = [r \in Run |-> None]
    /\ lease = [r \in Run |-> 0]
    /\ input = [r \in Run |-> FALSE]
    /\ expires = [r \in Run |-> 0]
    /\ seen = [r \in Run |-> None]
    /\ wpc = [w \in Worker |-> "idle"]
    /\ wrun = [w \in Worker |-> None]
    /\ wnow = [w \in Worker |-> 0]
    /\ wexp = [w \in Worker |-> {}]
    /\ wres = [w \in Worker |-> None]
    /\ claims = [r \in Run |-> 0]
    /\ late = [r \in Run |-> 0]
    /\ crashes = 0

-----------------------------------------------------------------------------
(* The clock *)

Tick ==
    /\ now < MaxTime
    /\ now' = now + 1
    /\ UNCHANGED <<subVars, dbVars, seen, workerVars, claims, late, crashes>>

-----------------------------------------------------------------------------
(* API: submit and cancel *)

\* Rows of sandbox_requests bound to an idempotency key.
BoundTo(k) == {s \in Run : request[s] # None /\ rkey[s] = k}

\* QueuedWorkflows.submit up to the SELECT of register_request.  The context's deadline
\* was fixed when the HTTP call arrived, so part of its 120 s may be spent already, but
\* not all of it: _check refuses an elapsed deadline.
SubmitRead(r, k, h, d) ==
    /\ sub[r] = "new"
    /\ now <= MaxSubmit
    /\ now < d /\ d <= now + Ttl
    /\ sub' = [sub EXCEPT ![r] =
                 IF BoundTo(k) = {} THEN "absent"
                 ELSE IF \A s \in BoundTo(k) : rhash[s] = h THEN "existing"
                 ELSE "conflict"]
    /\ rkey' = [rkey EXCEPT ![r] = k]
    /\ rhash' = [rhash EXCEPT ![r] = h]
    /\ deadline' = [deadline EXCEPT ![r] = d]
    /\ expires' = [expires EXCEPT ![r] = now + Ttl]
    /\ UNCHANGED <<now, request, queue, lease, input, seen, workerVars, claims, late, crashes>>

\* The INSERTs of enqueue_runtime, one transaction.  The primary key of sandbox_requests
\* turns a concurrent registration of the same key into a rollback and a 409.
KeyIsFree_NoPrimaryKey(r) == TRUE
KeyIsFree(r) == BoundTo(rkey[r]) = {}

Enqueue(r) ==
    /\ KeyIsFree(r)
    /\ sub' = [sub EXCEPT ![r] = "created"]
    /\ request' = [request EXCEPT ![r] = "queued"]
    /\ queue' = [queue EXCEPT ![r] = "queued"]
    /\ input' = [input EXCEPT ![r] = TRUE]

EnqueueConflict(r) ==
    /\ ~KeyIsFree(r)
    /\ sub' = [sub EXCEPT ![r] = "conflict"]
    /\ UNCHANGED <<request, queue, input>>

SubmitCommit(r) ==
    /\ sub[r] = "absent"
    /\ Enqueue(r) \/ EnqueueConflict(r)
    /\ UNCHANGED <<now, rkey, rhash, deadline, lease, expires, seen, workerVars, claims,
                   late, crashes>>

\* advance_request: the transition table and the compare-and-swap.
Transitions == [queued |-> {"running", "cancelled"},
                running |-> {"succeeded", "failed", "cancelled", "uncertain",
                             "awaiting_approval"}]
CanAdvance(r, from, to) == to \in Transitions[from] /\ request[r] = from

\* WorkflowRunner.cancel reads the state, then swaps from the state it read.
CancelRead(r) ==
    /\ request[r] \in Open
    /\ seen[r] = None
    /\ seen' = [seen EXCEPT ![r] = request[r]]
    /\ UNCHANGED <<now, subVars, dbVars, workerVars, claims, late, crashes>>

\* The swap fails with a 409 when the request moved in between.
CancelSwap(r) ==
    /\ seen[r] # None
    /\ request' = IF CanAdvance(r, seen[r], "cancelled")
                     THEN [request EXCEPT ![r] = "cancelled"] ELSE request
    /\ seen' = [seen EXCEPT ![r] = None]
    /\ UNCHANGED <<now, subVars, queue, lease, input, expires, workerVars, claims, late,
                   crashes>>

-----------------------------------------------------------------------------
(* Workers: claim_runtime *)

\* Rows the sweep gives up on, as of time t.
Expired_NoLease(t) == {r \in Run : queue[r] = "queued" /\ deadline[r] < t}
Expired(t) == {r \in Run : \/ queue[r] = "running" /\ lease[r] < t
                           \/ queue[r] = "queued" /\ deadline[r] < t}

ClaimSelect(w) ==
    /\ wpc[w] = "idle"
    /\ wpc' = [wpc EXCEPT ![w] = "claiming"]
    /\ wnow' = [wnow EXCEPT ![w] = now]
    /\ wexp' = [wexp EXCEPT ![w] = Expired(now)]
    /\ UNCHANGED <<now, subVars, dbVars, seen, wrun, wres, claims, late, crashes>>

\* The sweep: the queue row is overwritten whatever it holds by now, the request only
\* while it is still open, and expired inputs are deleted.
SweptQueue(w) == [r \in Run |-> IF r \in wexp[w] THEN "uncertain" ELSE queue[r]]

SweptRequest_QueueOnly(w) == request
SweptRequest(w) == [r \in Run |-> IF r \in wexp[w] /\ request[r] \in Open
                                  THEN "uncertain" ELSE request[r]]

SweptInput_KeepAll(w) == input
SweptInput(w) == [r \in Run |-> input[r] /\ expires[r] > wnow[w]]

\* Rows the claim may take, and the order it takes them in.
Claimable_AnyState(w) ==
    {r \in Run : SweptQueue(w)[r] \in {"queued", "running"} /\ deadline[r] > wnow[w]}
Claimable(w) == {r \in Run : SweptQueue(w)[r] = "queued" /\ deadline[r] > wnow[w]}
Earliest(S) == {r \in S : \A s \in S : deadline[r] <= deadline[s]}

ClaimTake(w) ==
    \E r \in Earliest(Claimable(w)) :
        /\ queue' = [SweptQueue(w) EXCEPT ![r] = "running"]
        /\ lease' = [lease EXCEPT ![r] = wnow[w] + Lease]
        /\ claims' = [claims EXCEPT ![r] = @ + 1]
        /\ wpc' = [wpc EXCEPT ![w] = "claimed"]
        /\ wrun' = [wrun EXCEPT ![w] = r]

ClaimNothing(w) ==
    /\ Claimable(w) = {}
    /\ queue' = SweptQueue(w)
    /\ wpc' = [wpc EXCEPT ![w] = "idle"]
    /\ UNCHANGED <<lease, claims, wrun>>

ClaimCommit(w) ==
    /\ wpc[w] = "claiming"
    /\ ClaimTake(w) \/ ClaimNothing(w)
    /\ request' = SweptRequest(w)
    /\ input' = SweptInput(w)
    /\ wexp' = [wexp EXCEPT ![w] = {}]
    /\ wnow' = [wnow EXCEPT ![w] = 0]
    /\ UNCHANGED <<now, subVars, expires, seen, wres, late, crashes>>

-----------------------------------------------------------------------------
(* Workers: execution of a claimed run.  r stands for wrun[w].             *)

Goto(w, from, to) == wpc[w] = from /\ wpc' = [wpc EXCEPT ![w] = to]
dbUnchanged == UNCHANGED <<now, subVars, dbVars, seen, wrun, wnow, wexp, claims, late, crashes>>

\* The tail of claim_runtime: a missing or expired input gives the run up.
LoadInput(w) ==
    /\ \/ /\ Goto(w, "claimed", "loaded")
          /\ input[wrun[w]] /\ expires[wrun[w]] > now
       \/ /\ Goto(w, "claimed", "give_up")
          /\ ~(input[wrun[w]] /\ expires[wrun[w]] > now)
    /\ dbUnchanged /\ UNCHANGED wres

\* work_once's check(): the request is still open and its deadline has not passed.
MayStart(r) == request[r] \in Open /\ now < deadline[r]

\* WorkflowRunner.submit up to the CAS: policy, key, retention, sample and stage checks,
\* the replayed registration, queue_claimed, the key reservation and the first _save.
\* Any of them may refuse.
Admit(w) ==
    /\ \/ /\ Goto(w, "loaded", "admitted")
          /\ MayStart(wrun[w]) /\ queue[wrun[w]] = "running"
       \/ Goto(w, "loaded", "give_up")
    /\ dbUnchanged /\ UNCHANGED wres

\* advance_request(queued -> running), outside the runner's try block.
Start(w) ==
    /\ \/ /\ Goto(w, "admitted", "started")
          /\ CanAdvance(wrun[w], "queued", "running")
          /\ request' = [request EXCEPT ![wrun[w]] = "running"]
       \/ /\ Goto(w, "admitted", "give_up")
          /\ ~CanAdvance(wrun[w], "queued", "running")
          /\ UNCHANGED request
    /\ UNCHANGED <<now, subVars, queue, lease, input, expires, seen, wrun, wnow, wexp, wres,
                   claims, late, crashes>>

\* The _save of the "running" record, which may conflict with a canceller's _save.
SaveStarted(w) ==
    /\ Goto(w, "started", "loop") \/ Goto(w, "started", "give_up")
    /\ dbUnchanged /\ UNCHANGED wres

\* check() at the head of every wave and at the start of every stage.
MayDispatch_DeadlineOnly(r) == now < deadline[r]
MayDispatch(r) == request[r] = "running" /\ now < deadline[r]

\* What the exception handler calls the run: cancelled if the request says so, else
\* uncertain or failed by the attempts the run has made.
ErrorResult(r) == IF request[r] = "cancelled" THEN {"cancelled"} ELSE {"failed", "uncertain"}

\* End the wave loop with result f.
EndWaves(w, from, f) == Goto(w, from, "settle") /\ wres' = [wres EXCEPT ![w] = f]

\* The head of the wave loop: dispatch the ready stages, pause before a human approval,
\* or leave with an exception (a failed check, a withdrawn policy, the timeout).
WaveCheck(w) ==
    /\ \/ /\ Goto(w, "loop", "dispatch")
          /\ MayDispatch(wrun[w])
          /\ UNCHANGED wres
       \/ EndWaves(w, "loop", "awaiting_approval") /\ MayDispatch(wrun[w])
       \/ \E f \in Result : EndWaves(w, "loop", f) /\ f \in ErrorResult(wrun[w])
    /\ dbUnchanged

\* The stages of one wave reach their providers and settle.
Dispatch(w) ==
    /\ Goto(w, "dispatch", "waved")
    /\ late' = [late EXCEPT ![wrun[w]] = IF request[wrun[w]] = "running" THEN @ ELSE @ + 1]
    /\ UNCHANGED <<now, subVars, dbVars, seen, wrun, wnow, wexp, wres, claims, crashes>>

\* The wave's results are checkpointed: another wave follows, every stage has its output,
\* or a stage or a checkpoint failed.
WaveEnd(w) ==
    /\ \/ Goto(w, "waved", "loop") /\ UNCHANGED wres
       \/ EndWaves(w, "waved", "succeeded")
       \/ \E f \in Result : EndWaves(w, "waved", f) /\ f \in ErrorResult(wrun[w])
    /\ dbUnchanged

\* The error event of the handler may conflict with a canceller's event: the exception
\* leaves submit and work_once gives the run up.
SettleRaise(w) ==
    /\ Goto(w, "settle", "give_up")
    /\ wres[w] \in {"failed", "uncertain", "cancelled"}
    /\ wres' = [wres EXCEPT ![w] = None]
    /\ dbUnchanged

\* The final state is read, then swapped from "running" to the result.
SettleRead(w) ==
    /\ \/ Goto(w, "settle", "cas") /\ request[wrun[w]] = "running"
       \/ Goto(w, "settle", "recorded") /\ request[wrun[w]] # "running"
    /\ dbUnchanged /\ UNCHANGED wres

SettleSwap(w) ==
    /\ \/ /\ Goto(w, "cas", "recorded")
          /\ CanAdvance(wrun[w], "running", wres[w])
          /\ request' = [request EXCEPT ![wrun[w]] = wres[w]]
       \/ /\ Goto(w, "cas", "give_up")
          /\ ~CanAdvance(wrun[w], "running", wres[w])
          /\ UNCHANGED request
    /\ UNCHANGED <<now, subVars, queue, lease, input, expires, seen, wrun, wnow, wexp, wres,
                   claims, late, crashes>>

\* The last _save and record_outcome, which may conflict.
SaveFinal(w) ==
    /\ Goto(w, "recorded", "finish") \/ Goto(w, "recorded", "give_up")
    /\ dbUnchanged /\ UNCHANGED wres

\* finish_runtime: the row leaves "running", an uncertain finish also closes an open
\* request, and the input is deleted.
FinishedRequest_Always(r) == [request EXCEPT ![r] = "uncertain"]
FinishedRequest(r) == IF request[r] \in Open THEN [request EXCEPT ![r] = "uncertain"]
                                              ELSE request

FinishRuntime(w, from, state) ==
    LET r == wrun[w] IN
    /\ Goto(w, from, "idle")
    /\ queue' = [queue EXCEPT ![r] = IF @ = "running" THEN state ELSE @]
    /\ request' = IF state = "uncertain" THEN FinishedRequest(r) ELSE request
    /\ input' = [input EXCEPT ![r] = FALSE]
    /\ wrun' = [wrun EXCEPT ![w] = None]
    /\ wres' = [wres EXCEPT ![w] = None]
    /\ UNCHANGED <<now, subVars, lease, expires, seen, wnow, wexp, claims, late, crashes>>

\* work_once after submit returned, and after it raised.
Finish(w) == FinishRuntime(w, "finish", "done")

\* Mutant: the request's state is written to the queue row.
GiveUp_Failed(w) == FinishRuntime(w, "give_up", "failed")
GiveUp(w) == FinishRuntime(w, "give_up", "uncertain")

\* A worker process dies and is restarted: whatever it had not committed is lost.
Crash(w) ==
    /\ crashes < MaxCrashes
    /\ wpc[w] # "idle"
    /\ crashes' = crashes + 1
    /\ wpc' = [wpc EXCEPT ![w] = "idle"]
    /\ wrun' = [wrun EXCEPT ![w] = None]
    /\ wnow' = [wnow EXCEPT ![w] = 0]
    /\ wexp' = [wexp EXCEPT ![w] = {}]
    /\ wres' = [wres EXCEPT ![w] = None]
    /\ UNCHANGED <<now, subVars, dbVars, seen, claims, late>>

-----------------------------------------------------------------------------

Work(w) ==
    \/ ClaimSelect(w) \/ ClaimCommit(w) \/ LoadInput(w) \/ Admit(w) \/ Start(w)
    \/ SaveStarted(w) \/ WaveCheck(w) \/ Dispatch(w) \/ WaveEnd(w)
    \/ SettleRaise(w) \/ SettleRead(w) \/ SettleSwap(w) \/ SaveFinal(w) \/ Finish(w) \/ GiveUp(w)

Next ==
    \/ Tick
    \/ \E r \in Run, k \in Key, h \in Content, d \in 1 .. MaxSubmit + Ttl : SubmitRead(r, k, h, d)
    \/ \E r \in Run : SubmitCommit(r) \/ CancelRead(r) \/ CancelSwap(r)
    \/ \E w \in Worker : Work(w) \/ Crash(w)

Spec == Init /\ [][Next]_vars

\* Time passes and one worker process, restarted if it dies, polls for ever
\* (worker.main) with every stage bounded by asyncio.timeout.  The others may stall at any
\* step for ever, and clients owe nothing.
FairSpec == Spec /\ WF_vars(Tick) /\ \E w \in Worker : WF_vars(Work(w))

-----------------------------------------------------------------------------
(* Properties *)

\* "Queued requests can be claimed exactly once" (docs/upgrades/router-v2.md): through
\* crashes, expired leases and concurrent sweeps no run is ever handed to a second
\* claim, so a provider call of a run is never dispatched again.
ClaimedOnce == \A r \in Run : claims[r] <= 1

\* Two workers never execute the same run.
SoleWorker ==
    \A v, w \in Worker :
        v # w /\ wpc[v] \in Holding /\ wpc[w] \in Holding => wrun[v] # wrun[w]

\* An idempotency key is bound to one run, however its submissions interleave.
OneRunPerKey ==
    \A r, s \in Run :
        r # s /\ request[r] # None /\ request[s] # None => rkey[r] # rkey[s]

\* The two tables agree: a row that left the queue never leaves its request open, an
\* unclaimed row's request has not started, and a running request has a running row.
LedgerAgrees ==
    \A r \in Run :
        /\ queue[r] = None <=> request[r] = None
        /\ queue[r] = "queued" => request[r] \in {"queued", "cancelled"}
        /\ queue[r] \in {"done", "uncertain"} => request[r] \in Settled

\* Once the request has left "running" (cancelled, or given up by another worker's sweep)
\* the worker that still executes it dispatches at most the wave it had already checked.
AtMostOneLateWave == \A r \in Run : late[r] <= 1

\* A run has one owner: its key binds it alone, it is handed out once, and nobody else
\* executes it.
OneOwner == OneRunPerKey /\ ClaimedOnce /\ SoleWorker

\* A settled request never changes again: the outcome a client has read is final.
SettledIsFinal ==
    [][\A r \in Run : request[r] \in Settled => request'[r] = request[r]]_request

\* Every accepted run settles, whatever crashes: its worker finishes it, or its deadline
\* or lease runs out and a sweep makes it uncertain.
EveryRunSettles == \A r \in Run : request[r] \in Open ~> request[r] \in Settled

\* The private input of a run does not outlive it for ever.
InputIsDeleted == \A r \in Run : input[r] ~> ~input[r]
-----------------------------------------------------------------------------
(* The inductive invariant of the safety properties above.                 *)

\* A run is in the tables only after its submission committed.
SubmissionInv == \A r \in Run : sub[r] \in {"new", "absent"} => request[r] = None

\* A row that can still be claimed has never been claimed.
ClaimInv == \A r \in Run : claims[r] <= 1 /\ (queue[r] \in {None, "queued"} => claims[r] = 0)

\* A sweep's snapshot holds rows that exist.
SnapshotInv == \A w \in Worker : \A r \in wexp[w] : queue[r] # None

\* Program counters after the swap to "running", and after the request was settled.
Executing == {"started", "loop", "dispatch", "waved", "settle", "cas", "recorded", "finish"}
Recorded == {"recorded", "finish"}

\* What a worker that has claimed a run knows of it.
HolderInv ==
    \A w \in Worker : wpc[w] \in Holding =>
        /\ wrun[w] \in Run
        /\ queue[wrun[w]] \notin {None, "queued"}
        /\ wpc[w] \in Executing => request[wrun[w]] \notin {None, "queued"}
        /\ wpc[w] \in Recorded => request[wrun[w]] \in Settled

\* After a late wave the run is settled and nobody is about to dispatch another.
LateInv ==
    \A r \in Run :
        /\ late[r] <= 1
        /\ late[r] # 0 => request[r] \in Settled
                          /\ \A w \in Worker : wpc[w] = "dispatch" => wrun[w] # r

IndInv ==
    /\ SubmissionInv /\ ClaimInv /\ SnapshotInv /\ HolderInv /\ SoleWorker
    /\ OneRunPerKey /\ LedgerAgrees /\ LateInv

=============================================================================
