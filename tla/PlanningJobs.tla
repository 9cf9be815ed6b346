---------------------------- MODULE PlanningJobs ----------------------------
(***************************************************************************)
(* One row of the jobs table and the provider_calls made for it: claims    *)
(* under a lease (storage.py), the planning run and its paid call          *)
(* (planning.py, planning_storage.py, runtime.py), the offline             *)
(* recommendation run (worker.py) and cancellation.                        *)
(*                                                                         *)
(* Every statement is a step of its own: the database runs at its default  *)
(* isolation, so what a SELECT returned may be stale when the UPDATE that  *)
(* follows it in the same transaction compares only status and attempts.   *)
(* Workers may stall or die between any two steps.  The payload column is  *)
(* reduced to its accounting field; updated_at to what is left of the      *)
(* 60 s lease.                                                             *)
(***************************************************************************)
EXTENDS Naturals, FiniteSets

CONSTANTS
    Worker,        \* worker processes
    MaxAttempts,   \* claims a job gets before it fails: 3 in the code
    Lease,         \* the 60 s after which a running job may be claimed again
    CallCap,       \* paid calls the candidate's planning budget has room for
    MaxPhases,     \* bound: progress updates, of all workers together
    MaxCrashes     \* bound: worker deaths

ASSUME PlanningAssumption ==
    /\ MaxAttempts \in Nat \ {0} /\ Lease \in Nat \ {0}
    /\ CallCap \in Nat /\ MaxPhases \in Nat /\ MaxCrashes \in Nat

VARIABLES
    operation,     \* "planning" or "recommendation"
    job,           \* the row: status, attempts, accounting
    leaseLeft,     \* updated_at + 60 s - now, while positive
    call,          \* provider_calls of the job, by the attempt that reserved them
    pc, seen, token, verdict, called,   \* workers
    phases,        \* bound
    cpc, cseen,    \* a cancel request
    dispatched,    \* history: attempts whose worker sent a paid request
    committer,     \* history: the attempt whose worker committed the result, or 0
    crashes

jobVars == <<job, leaseLeft>>
workerVars == <<pc, seen, token, verdict, phases, called>>
cancelVars == <<cpc, cseen>>
vars == <<operation, jobVars, call, workerVars, cancelVars, dispatched, committer, crashes>>

-----------------------------------------------------------------------------
Status == {"queued", "running", "succeeded", "failed", "cancelled", "uncertain"}
Terminal == Status \ {"queued", "running"}
Accounting == {"not_started", "reserved", "known", "uncertain"}
JobRow == [status : Status, attempts : 0 .. MaxAttempts, accounting : Accounting]
Fresh == [status |-> "queued", attempts |-> 0, accounting |-> "not_started"]

Steps == {"idle", "count", "swap", "guard", "hold", "plan", "phase_read", "phase_write",
          "metadata", "reserve", "mark", "send", "request", "reply", "account_read",
          "account_write", "finish_read", "finish_write", "except", "fail_count", "fail_write",
          "work", "fail"}

\* Steps a worker takes with a claim in hand.
Claimed == Steps \ {"idle", "count", "swap"}

TypeOK ==
    /\ operation \in {"planning", "recommendation"}
    /\ job \in JobRow
    /\ leaseLeft \in 0 .. Lease
    /\ call \in [1 .. MaxAttempts -> {"none", "reserved", "known", "uncertain"}]
    /\ pc \in [Worker -> Steps]
    /\ seen \in [Worker -> JobRow]
    /\ token \in [Worker -> 0 .. MaxAttempts]
    /\ verdict \in [Worker -> {"take", "hold", "exhaust", "failed", "uncertain"}]
    /\ phases \in 0 .. MaxPhases
    /\ called \in SUBSET Worker
    /\ cpc \in {"idle", "swap"}
    /\ cseen \in JobRow
    /\ dispatched \in SUBSET (1 .. MaxAttempts)
    /\ committer \in 0 .. MaxAttempts
    /\ crashes \in 0 .. MaxCrashes

\* submit and enqueue insert the row as queued.
Init ==
    /\ operation \in {"planning", "recommendation"}
    /\ job = Fresh
    /\ leaseLeft = 0
    /\ call = [t \in 1 .. MaxAttempts |-> "none"]
    /\ pc = [w \in Worker |-> "idle"]
    /\ seen = [w \in Worker |-> Fresh]
    /\ token = [w \in Worker |-> 0]
    /\ verdict = [w \in Worker |-> "take"]
    /\ phases = 0
    /\ called = {}
    /\ cpc = "idle"
    /\ cseen = Fresh
    /\ dispatched = {}
    /\ committer = 0
    /\ crashes = 0

-----------------------------------------------------------------------------
(* Shared steps *)

Tick ==
    /\ leaseLeft' = IF leaseLeft = 0 THEN 0 ELSE leaseLeft - 1
    /\ UNCHANGED <<operation, job, call, workerVars, cancelVars, dispatched, committer, crashes>>

Goto(w, from, to) == pc[w] = from /\ pc' = [pc EXCEPT ![w] = to]

\* update_job and every other write of the row: compare status and attempts, then write.
Matches(old) == job.status = old.status /\ job.attempts = old.attempts
WriteJob(new) == job' = new /\ leaseLeft' = Lease

\* check of PlanningService.run: the job is still running under this worker's attempt.
Check(w) == job.status = "running" /\ job.attempts = token[w]

ReadJob(w) == seen' = [seen EXCEPT ![w] = job]

HasCall == \E t \in DOMAIN call : call[t] # "none"
HasUncertainCall == \E t \in DOMAIN call : call[t] \in {"reserved", "uncertain"}

LeaveJob == UNCHANGED jobVars
LeaveRest == UNCHANGED <<operation, cancelVars, crashes>>

-----------------------------------------------------------------------------
(* SqlStorage.claim *)

Claimable_QueuedOnly == job.status = "queued"
Claimable == job.status = "queued" \/ (job.status = "running" /\ leaseLeft = 0)

ClaimSelect(w) ==
    /\ Goto(w, "idle", "count")
    /\ Claimable
    /\ ReadJob(w)
    /\ UNCHANGED <<jobVars, call, token, verdict, phases, called, dispatched, committer>> /\ LeaveRest

\* The count of provider_calls, and the decision on what was read.
Verdict_IgnoreLimit(w) ==
    IF operation = "planning" /\ seen[w].attempts > 0 /\ HasCall THEN "hold" ELSE "take"
Verdict(w) ==
    IF operation = "planning" /\ seen[w].attempts > 0 /\ HasCall THEN "hold"
    ELSE IF seen[w].attempts >= MaxAttempts THEN "exhaust"
    ELSE "take"

ClaimCount(w) ==
    /\ Goto(w, "count", "swap")
    /\ verdict' = [verdict EXCEPT ![w] = Verdict(w)]
    /\ UNCHANGED <<jobVars, call, seen, token, phases, called, dispatched, committer>> /\ LeaveRest

\* The row a claim writes.
ClaimedRow_SameAttempt(w) == [seen[w] EXCEPT !.status = "running"]
ClaimedRow(w) == [seen[w] EXCEPT !.status = "running", !.attempts = @ + 1]

ClaimTake(w) ==
    /\ Goto(w, "swap", IF operation = "planning" THEN "guard" ELSE "work")
    /\ verdict[w] = "take" /\ Matches(seen[w])
    /\ WriteJob(ClaimedRow(w))
    /\ token' = [token EXCEPT ![w] = ClaimedRow(w).attempts]
    /\ called' = called \ {w}
    /\ UNCHANGED <<call, seen, verdict, phases, dispatched, committer>> /\ LeaveRest

\* A paid call exists: the job is held for reconciliation.  Three claims: it fails.
ClaimClose(w) ==
    /\ Goto(w, "swap", "idle")
    /\ verdict[w] \in {"hold", "exhaust"} /\ Matches(seen[w])
    /\ WriteJob(IF verdict[w] = "hold"
                THEN [seen[w] EXCEPT !.status = "uncertain", !.accounting = "uncertain"]
                ELSE [seen[w] EXCEPT !.status = "failed"])
    /\ UNCHANGED <<call, seen, token, verdict, phases, called, dispatched, committer>> /\ LeaveRest

ClaimLost(w) ==
    /\ Goto(w, "swap", "idle")
    /\ ~Matches(seen[w])
    /\ UNCHANGED <<jobVars, call, seen, token, verdict, phases, called, dispatched, committer>>
    /\ LeaveRest

-----------------------------------------------------------------------------
(* PlanningService.run *)

Guarded_Off == FALSE
Guarded == HasUncertainCall

Guard(w) ==
    /\ Goto(w, "guard", IF Guarded THEN "hold" ELSE "plan")
    /\ UNCHANGED <<jobVars, call, seen, token, verdict, phases, called, dispatched, committer>>
    /\ LeaveRest

\* safe_failure under the worker's own claim; a lost claim raises.
Hold(w) ==
    /\ \/ /\ Goto(w, "hold", "idle") /\ Check(w)
          /\ WriteJob([job EXCEPT !.status = "uncertain", !.accounting = "uncertain"])
       \/ Goto(w, "hold", "except") /\ ~Check(w) /\ LeaveJob
    /\ UNCHANGED <<call, seen, token, verdict, phases, called, dispatched, committer>> /\ LeaveRest

\* phase: check, read the row again, write it back with the new phase.
PhaseCheck(w) ==
    /\ phases < MaxPhases
    /\ Goto(w, "plan", IF Check(w) THEN "phase_read" ELSE "except")
    /\ phases' = phases + 1
    /\ UNCHANGED <<jobVars, call, seen, token, verdict, called, dispatched, committer>> /\ LeaveRest

PhaseRead(w) ==
    /\ Goto(w, "phase_read", "phase_write") /\ ReadJob(w)
    /\ UNCHANGED <<jobVars, call, token, verdict, phases, called, dispatched, committer>> /\ LeaveRest

PhaseWrite(w) ==
    /\ \/ Goto(w, "phase_write", "plan") /\ Matches(seen[w]) /\ WriteJob(seen[w])
       \/ Goto(w, "phase_write", "except") /\ ~Matches(seen[w]) /\ LeaveJob
    /\ UNCHANGED <<call, seen, token, verdict, phases, called, dispatched, committer>> /\ LeaveRest

\* A policy gate, a validation or an unavailable model ends the run.
PlanRaises(w) ==
    /\ Goto(w, "plan", "except")
    /\ UNCHANGED <<jobVars, call, seen, token, verdict, phases, called, dispatched, committer>>
    /\ LeaveRest

FinishCheck(w) ==
    /\ Goto(w, "plan", IF Check(w) THEN "finish_read" ELSE "except")
    /\ UNCHANGED <<jobVars, call, seen, token, verdict, phases, called, dispatched, committer>>
    /\ LeaveRest

FinishRead(w) ==
    /\ Goto(w, "finish_read", "finish_write") /\ ReadJob(w)
    /\ UNCHANGED <<jobVars, call, token, verdict, phases, called, dispatched, committer>> /\ LeaveRest

\* complete_planning: the row as read again, if it still runs under the attempts it shows.
MayComplete_AnyStatus(w) == job.attempts = seen[w].attempts
MayComplete(w) == job.status = "running" /\ job.attempts = seen[w].attempts

FinishWrite(w) ==
    /\ \/ /\ Goto(w, "finish_write", "idle") /\ MayComplete(w)
          /\ WriteJob([seen[w] EXCEPT !.status = "succeeded"])
          /\ committer' = token[w]
       \/ /\ Goto(w, "finish_write", "except") /\ ~MayComplete(w)
          /\ LeaveJob /\ UNCHANGED committer
    /\ UNCHANGED <<call, seen, token, verdict, phases, called, dispatched>> /\ LeaveRest

\* The exception handler: a worker that lost its claim leaves the row alone.
ExceptRead(w) ==
    /\ Goto(w, "except", IF Check(w) THEN "fail_count" ELSE "idle") /\ ReadJob(w)
    /\ UNCHANGED <<jobVars, call, token, verdict, phases, called, dispatched, committer>> /\ LeaveRest

ExceptCount(w) ==
    /\ Goto(w, "fail_count", "fail_write")
    /\ verdict' = [verdict EXCEPT ![w] = IF HasUncertainCall THEN "uncertain" ELSE "failed"]
    /\ UNCHANGED <<jobVars, call, seen, token, phases, called, dispatched, committer>> /\ LeaveRest

FailWrite(w) ==
    /\ Goto(w, "fail_write", "idle")
    /\ \/ /\ Matches(seen[w])
          /\ WriteJob([seen[w] EXCEPT !.status = verdict[w],
                                      !.accounting = IF verdict[w] = "uncertain" THEN "uncertain" ELSE @])
       \/ ~Matches(seen[w]) /\ LeaveJob
    /\ UNCHANGED <<call, seen, token, verdict, phases, called, dispatched, committer>> /\ LeaveRest

-----------------------------------------------------------------------------
(* OpenRouterRole: one paid call of a run *)

\* The adapter is built with the row as it is now.
BuildAdapter(w) ==
    /\ Goto(w, "plan", "metadata") /\ w \notin called
    /\ ReadJob(w)
    /\ called' = called \cup {w}
    /\ UNCHANGED <<jobVars, call, token, verdict, phases, dispatched, committer>> /\ LeaveRest

\* The endpoint's metadata, fetched under check; the request or the prices may fail.
Metadata(w) ==
    /\ \/ Goto(w, "metadata", "reserve") /\ Check(w)
       \/ Goto(w, "metadata", "except")
    /\ UNCHANGED <<jobVars, call, seen, token, verdict, phases, called, dispatched, committer>>
    /\ LeaveRest

\* reserve_call: the UPDATE locks the row, so the candidate's budget is summed under the
\* lock.  The approval's own budget, shared with other jobs, may be exhausted as well.
Reserved == {t \in DOMAIN call : call[t] # "none"}
MayReserve(w) ==
    /\ job.status = "running" /\ job.attempts = seen[w].attempts
    /\ Cardinality(Reserved) < CallCap

Reserve(w) ==
    /\ \/ /\ Goto(w, "reserve", "mark") /\ MayReserve(w)
          /\ call' = [call EXCEPT ![seen[w].attempts] = "reserved"]
       \/ Goto(w, "reserve", "except") /\ UNCHANGED call
    /\ UNCHANGED <<jobVars, seen, token, verdict, phases, called, dispatched, committer>> /\ LeaveRest

Mark(w) ==
    /\ \/ /\ Goto(w, "mark", "send") /\ Matches(seen[w])
          /\ WriteJob([seen[w] EXCEPT !.accounting = "reserved"])
       \/ Goto(w, "mark", "except") /\ ~Matches(seen[w]) /\ LeaveJob
    /\ UNCHANGED <<call, seen, token, verdict, phases, called, dispatched, committer>> /\ LeaveRest

\* The last check before the request is written; connecting may fail.
SendCheck(w) ==
    /\ \/ Goto(w, "send", "request") /\ Check(w)
       \/ Goto(w, "send", "except")
    /\ UNCHANGED <<jobVars, call, seen, token, verdict, phases, called, dispatched, committer>>
    /\ LeaveRest

Request(w) ==
    /\ Goto(w, "request", "reply")
    /\ dispatched' = dispatched \cup {token[w]}
    /\ UNCHANGED <<jobVars, call, seen, token, verdict, phases, called, committer>> /\ LeaveRest

\* settle_call, or an error that leaves the call reserved.
Settle(w, cost) ==
    /\ Goto(w, "reply", IF cost = "known" THEN "account_read" ELSE "except")
    /\ call' = [call EXCEPT ![seen[w].attempts] = cost]
    /\ UNCHANGED <<jobVars, seen, token, verdict, phases, called, dispatched, committer>> /\ LeaveRest

\* A loopback model instead of the paid call: its cost is recorded as known.  record_local
\* and the update after it write the same columns; one write stands for both.
LocalModel(w) ==
    /\ Goto(w, "plan", "account_read") /\ w \notin called
    /\ called' = called \cup {w}
    /\ UNCHANGED <<jobVars, call, seen, token, verdict, phases, dispatched, committer>> /\ LeaveRest

AccountRead(w) ==
    /\ Goto(w, "account_read", "account_write") /\ ReadJob(w)
    /\ UNCHANGED <<jobVars, call, token, verdict, phases, called, dispatched, committer>> /\ LeaveRest

AccountWrite(w) ==
    /\ \/ /\ Goto(w, "account_write", "plan") /\ Matches(seen[w])
          /\ WriteJob([seen[w] EXCEPT !.accounting = "known"])
       \/ Goto(w, "account_write", "except") /\ ~Matches(seen[w]) /\ LeaveJob
    /\ UNCHANGED <<call, seen, token, verdict, phases, called, dispatched, committer>> /\ LeaveRest

-----------------------------------------------------------------------------
(* worker.run_once on a recommendation: finish, or fail when anything raised *)

MayFinish_AnyAttempt(w) == job.status = "running"
MayFinish(w) == Check(w)

Finish(w) ==
    /\ \/ /\ Goto(w, "work", "idle") /\ MayFinish(w)
          /\ WriteJob([job EXCEPT !.status = "succeeded"])
          /\ committer' = token[w]
       \/ Goto(w, "work", "fail") /\ LeaveJob /\ UNCHANGED committer
    /\ UNCHANGED <<call, seen, token, verdict, phases, called, dispatched>> /\ LeaveRest

Fail(w) ==
    /\ Goto(w, "fail", "idle")
    /\ \/ Check(w) /\ WriteJob([job EXCEPT !.status = "failed"])
       \/ ~Check(w) /\ LeaveJob
    /\ UNCHANGED <<call, seen, token, verdict, phases, called, dispatched, committer>> /\ LeaveRest

Crash(w) ==
    /\ pc[w] # "idle" /\ crashes < MaxCrashes
    /\ pc' = [pc EXCEPT ![w] = "idle"]
    /\ crashes' = crashes + 1
    /\ UNCHANGED <<operation, jobVars, call, seen, token, verdict, phases, called, cancelVars,
                   dispatched, committer>>

-----------------------------------------------------------------------------
(* PlanningStorage.cancel *)

CancelRead ==
    /\ operation = "planning" /\ cpc = "idle"
    /\ job.status \in {"queued", "running"}
    /\ cpc' = "swap" /\ cseen' = job
    /\ UNCHANGED <<operation, jobVars, call, workerVars, dispatched, committer, crashes>>

CancelWrite ==
    /\ cpc = "swap" /\ cpc' = "idle"
    /\ \/ /\ Matches(cseen)
          /\ WriteJob([cseen EXCEPT !.status = "cancelled",
                                    !.accounting = IF @ = "reserved" THEN "uncertain" ELSE @])
       \/ ~Matches(cseen) /\ LeaveJob
    /\ UNCHANGED <<operation, call, workerVars, cseen, dispatched, committer, crashes>>

-----------------------------------------------------------------------------
Work(w) ==
    \/ ClaimSelect(w) \/ ClaimCount(w) \/ ClaimTake(w) \/ ClaimClose(w) \/ ClaimLost(w)
    \/ Guard(w) \/ Hold(w) \/ PhaseCheck(w) \/ PhaseRead(w) \/ PhaseWrite(w) \/ PlanRaises(w)
    \/ FinishCheck(w) \/ FinishRead(w) \/ FinishWrite(w)
    \/ ExceptRead(w) \/ ExceptCount(w) \/ FailWrite(w)
    \/ BuildAdapter(w) \/ Metadata(w) \/ Reserve(w) \/ Mark(w) \/ SendCheck(w) \/ Request(w)
    \/ \E cost \in {"known", "uncertain", "reserved"} : Settle(w, cost)
    \/ LocalModel(w) \/ AccountRead(w) \/ AccountWrite(w)
    \/ Finish(w) \/ Fail(w)

Next ==
    \/ Tick \/ CancelRead \/ CancelWrite
    \/ \E w \in Worker : Work(w) \/ Crash(w)

Spec == Init /\ [][Next]_vars

\* Time passes and one worker, restarted if it dies, goes on: the loop of worker.main.  The
\* others may stall at any step for ever.
FairSpec == Spec /\ WF_vars(Tick) /\ \E w \in Worker : WF_vars(Work(w))

-----------------------------------------------------------------------------
(* Properties *)

\* The compare-and-swap of claim gives an attempt number to one worker only.
OneWorkerPerAttempt ==
    \A v, w \in Worker :
        pc[v] \in Claimed /\ pc[w] \in Claimed /\ token[v] = token[w] => v = w

\* A result is never committed by its own claimant over a call whose cost is open: what a
\* claim finds reserved or uncertain stops it before it plans.
AccountedSuccess ==
    job.status = "succeeded" /\ committer = job.attempts => ~HasUncertainCall

\* "CAS claim and attempt token prevent stale workers from committing", for the offline
\* jobs: the worker that commits a recommendation holds the latest claim.
FreshRecommendation ==
    operation = "recommendation" /\ job.status = "succeeded" => committer = job.attempts

\* The attempt token fences workers: it belongs to one of them, and recommendations are
\* committed only under the latest.
Fenced == OneWorkerPerAttempt /\ FreshRecommendation

\* Cancelled, failed, succeeded and uncertain jobs keep their status, although workers go
\* on writing phases and accounting from rows they read earlier.
TerminalIsFinal == [][job.status \in Terminal => job'.status = job.status]_vars

\* Every job reaches a terminal status, however workers stall and up to the bounded number
\* of deaths: leases expire and claims are bounded.
EveryJobEnds == <>(job.status \in Terminal)

\* "CAS claim and attempt token prevent stale workers from committing", for every job.
StaleNeverCommits == job.status = "succeeded" => committer = job.attempts

\* "Recovery after any paid reservation requires reconciliation": no job's paid call is
\* made again by a later attempt.
PaidOnce == Cardinality(dispatched) <= 1

-----------------------------------------------------------------------------
(* The inductive invariant behind the theorems of PlanningJobsProofs. *)

\* What the rows that workers and cancellers read earlier can still say.
ReadInv ==
    /\ \A w \in Worker :
        /\ pc[w] \in {"count", "swap"} => seen[w].status \in {"queued", "running"}
        /\ pc[w] = "swap" =>
            /\ verdict[w] \in {"take", "hold", "exhaust"}
            /\ verdict[w] = "take" => seen[w].attempts < MaxAttempts
        /\ pc[w] \in {"fail_count", "fail_write"} => seen[w].status = "running"
        /\ pc[w] = "fail_write" => verdict[w] \in {"failed", "uncertain"}
    /\ cpc = "swap" => cseen.status \in {"queued", "running"}

\* The paid call's steps run on a row read under an attempt number of a real claim.
AdapterInv ==
    \A w \in Worker :
        /\ pc[w] \in Claimed => token[w] \in 1 .. job.attempts
        /\ pc[w] \in {"metadata", "reserve", "mark", "send", "request", "reply"} =>
            seen[w].attempts \in 1 .. job.attempts

\* A recommendation never runs a step of the planning path, and its result belongs to the
\* latest claim.
PathInv ==
    operation = "recommendation" =>
        /\ \A w \in Worker : pc[w] \in {"idle", "count", "swap", "work", "fail"}
        /\ job.status = "succeeded" => committer = job.attempts

IndInv == ReadInv /\ AdapterInv /\ OneWorkerPerAttempt /\ PathInv
=============================================================================
