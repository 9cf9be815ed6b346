-------------------------- MODULE GatewayInference --------------------------
(***************************************************************************)
(* A non-streaming chat completion: Gateway.complete, prepare, infer and   *)
(* _infer_once of gateway/service.py over the checks of gateway/           *)
(* preflight.py and execution_security.py.                                 *)
(*                                                                         *)
(* Several HTTP calls present one idempotency key.  The call that          *)
(* registers the request becomes its worker: it tries the pinned           *)
(* configurations in order, repairs an invalid answer on the same          *)
(* configuration while repairs are left, and settles the request.  The     *)
(* operator may disable the policy, replace the pinned endpoint or         *)
(* credential, or revoke the key at any moment; the deadline may pass, the *)
(* client may go away and the process may die at any step.                 *)
(*                                                                         *)
(* The holds that start takes and finish settles are the subject of        *)
(* SandboxBudget, the circuit that of DeploymentHealth: here a hold may be *)
(* refused and a circuit may be open.                                      *)
(***************************************************************************)
EXTENDS Naturals

CONSTANTS
    Call,        \* HTTP calls presenting the idempotency key
    Body,        \* request bodies (their fingerprints)
    Plans        \* the pinned stages considered

VARIABLES
    plan,                            \* the pinned stage and the gateway's settings
    enabled, pinned, keyLive,        \* policy enabled; target, credential unchanged; key
    late,                            \* the worker's deadline has passed
    request, bound, output,          \* the request row; is its answer retained
    pc, body, seen,                  \* HTTP calls; what the client got
    cand, index, left, repairing,    \* locals of infer
    kind, answered,                  \* failure_kind(error); is there a result
    attempt, invalid,                \* attempt records; were "-invalid" outputs stored
    spent, sends, lateSends,         \* history: amounts reserved, provider calls
    ended, crashed                   \* history: why infer raised; did the worker die

authority  == <<enabled, pinned, keyLive, late>>
row        == <<request, bound, output>>
callVars   == <<pc, body, seen>>
loopVars   == <<cand, index, left, repairing, kind, answered>>
records    == <<attempt, invalid, spent>>
history    == <<sends, lateSends, ended, crashed>>
vars == <<plan, authority, row, callVars, loopVars, records, history>>

-----------------------------------------------------------------------------
(* The pinned stage *)

Slot == 1 .. 3                     \* at most two fallbacks, at most three attempts
Kinds == {"provider_failure", "rate_limit", "timeout", "invalid_output",
          "quality_validation", "capability_mismatch", "budget_violation",
          "cancelled", "circuit_open"}

Total(f) == f[1] + f[2] + f[3]
Largest(f) == IF f[1] >= f[2] /\ f[1] >= f[3] THEN f[1] ELSE IF f[2] >= f[3] THEN f[2] ELSE f[3]

\* est: worst-case cost of the request on each pinned configuration (preflight);
\* full: the same with the whole approved input (cost_bound); 0 where none is pinned.
Plan ==
    [n : Slot, est : [Slot -> Nat], full : [Slot -> Nat], cap : Nat, repairs : 0 .. 2,
     attempts : Slot, fallbackOn : SUBSET Kinds,
     retain : BOOLEAN, repairRetain : BOOLEAN, tools : BOOLEAN,
     calls : UNION {[S -> Body] : S \in SUBSET Call}]   \* bound: the HTTP calls, and their bodies

\* ExecutablePolicy.executable_bindings: repairs and fallbacks fit max_attempts.
Bindings_OffByOne(p) == p.n + p.repairs <= p.attempts + 1
Bindings(p) == p.n > 1 \/ p.repairs > 0 => p.n + p.repairs <= p.attempts

\* preflight: the whole input costs at least as much as this request's; each fits the cap.
Priced(p) ==
    \A i \in Slot : /\ p.est[i] <= p.full[i] /\ p.est[i] <= p.cap
                    /\ i > p.n => p.full[i] = 0

ASSUME BodyAssumption == Body # {}
ASSUME PlansAssumption ==
    \A p \in Plans : p \in Plan /\ Bindings(p) /\ Priced(p)

LoopBound(p) == IF p.attempts <= p.n + p.repairs THEN p.attempts ELSE p.n + p.repairs

Envelopes_InitialOnly(p) == p.est
Envelopes(p) == IF p.repairs > 0 THEN p.full ELSE p.est

\* infer: every candidate once and every repair on the most expensive one.
WithinStage_NoRepairs(p) == Total(Envelopes(p)) <= p.cap
WithinStage(p) == Total(Envelopes(p)) + p.repairs * Largest(Envelopes(p)) <= p.cap

Statuses == {"none", "reserved", "dispatched", "succeeded", "failed", "cancelled", "uncertain"}
Steps == {"idle", "prepare", "authorize", "register", "duplicate", "advance", "infer",
          "attempt", "start", "recheck", "dispatch", "inflight", "finish", "fail",
          "choose", "deliver", "raise", "done", "dead"}
Reasons == {"none", "denied", "envelope", "late", "cancelled", "not_listed", "last", "loop",
            "oversized"}

TypeOK ==
    /\ plan \in Plans
    /\ enabled \in BOOLEAN /\ pinned \in BOOLEAN /\ keyLive \in BOOLEAN /\ late \in BOOLEAN
    /\ request \in {"none", "queued", "running", "succeeded", "uncertain"}
    /\ bound \in Body /\ output \in BOOLEAN
    /\ pc \in [Call -> Steps] /\ body \in [Call -> Body]
    /\ seen \in [Call -> {"nothing", "answer", "replay", "error"}]
    /\ cand \in Slot /\ index \in 0 .. 2 /\ left \in 0 .. 2
    /\ repairing \in BOOLEAN /\ kind \in Kinds /\ answered \in BOOLEAN
    /\ attempt \in [Slot -> Statuses] /\ invalid \in [Slot -> {"none", "stored", "refused"}]
    /\ spent \in Nat /\ sends \in Nat /\ lateSends \in Nat
    /\ ended \in Reasons /\ crashed \in BOOLEAN

Init ==
    /\ plan \in Plans
    /\ enabled = TRUE /\ pinned = TRUE /\ keyLive = TRUE /\ late = FALSE
    /\ request = "none" /\ bound = (CHOOSE b \in Body : TRUE) /\ output = FALSE
    /\ pc = [c \in Call |-> "idle"]
    /\ body = [c \in Call |-> IF c \in DOMAIN plan.calls THEN plan.calls[c] ELSE bound]
    /\ seen = [c \in Call |-> "nothing"]
    /\ cand = 1 /\ index = 0 /\ left = plan.repairs /\ repairing = FALSE
    /\ kind = "provider_failure" /\ answered = FALSE
    /\ attempt = [i \in Slot |-> "none"] /\ invalid = [i \in Slot |-> "none"]
    /\ spent = 0 /\ sends = 0 /\ lateSends = 0 /\ ended = "none" /\ crashed = FALSE

-----------------------------------------------------------------------------
(* Operator, clock *)

Disable ==
    /\ enabled /\ enabled' = FALSE
    /\ UNCHANGED <<plan, pinned, keyLive, late, row, callVars, loopVars, records, history>>
Repin ==
    /\ pinned /\ pinned' = FALSE
    /\ UNCHANGED <<plan, enabled, keyLive, late, row, callVars, loopVars, records, history>>
Revoke ==
    /\ keyLive /\ keyLive' = FALSE
    /\ UNCHANGED <<plan, enabled, pinned, late, row, callVars, loopVars, records, history>>
DeadlinePasses ==
    /\ ~late /\ late' = TRUE
    /\ UNCHANGED <<plan, enabled, pinned, keyLive, row, callVars, loopVars, records, history>>

\* The retained answer expires.
ForgetOutput ==
    /\ output /\ output' = FALSE
    /\ UNCHANGED <<plan, authority, request, bound, callVars, loopVars, records, history>>

-----------------------------------------------------------------------------
(* HTTP calls: prepare, register, replay *)

Goto(c, from, to) == pc[c] = from /\ pc' = [pc EXCEPT ![c] = to]
Reply(c, from, what) ==
    /\ Goto(c, from, "done")
    /\ seen' = [seen EXCEPT ![c] = what]
    /\ UNCHANGED body

Arrive(c) ==
    /\ c \in DOMAIN plan.calls /\ Goto(c, "idle", "prepare")
    /\ UNCHANGED <<plan, authority, row, body, seen, loopVars, records, history>>

\* The key is checked before the alias is looked up.
CheckKey(c) ==
    /\ \/ keyLive /\ Goto(c, "prepare", "authorize") /\ UNCHANGED <<body, seen>>
       \/ ~keyLive /\ Reply(c, "prepare", "error")
    /\ UNCHANGED <<plan, authority, row, loopVars, records, history>>

\* Authority.stage for every pinned configuration, and the aggregate cap; tools need an
\* alias without fallbacks.
Authorized == enabled /\ ~late /\ Total(plan.est) <= plan.cap
Admits == Authorized /\ (plan.tools => plan.n = 1)

Authorize(c) ==
    /\ \/ Admits /\ Goto(c, "authorize", "register") /\ UNCHANGED <<body, seen>>
       \/ ~Admits /\ Reply(c, "authorize", "error")
    /\ UNCHANGED <<plan, authority, row, loopVars, records, history>>

\* register_request: the first call inserts the row.
KeyIsFree_Always == request \in {"none", "queued"}
KeyIsFree == request = "none"

Register(c) ==
    /\ KeyIsFree
    /\ Goto(c, "register", "advance")
    /\ request' = "queued" /\ bound' = body[c]
    /\ UNCHANGED <<plan, authority, output, body, seen, loopVars, records, history>>

\* The row exists with the same body.
FindDuplicate_Resumes(c) ==
    /\ request # "none" /\ bound = body[c]
    /\ Goto(c, "register", "infer")
    /\ UNCHANGED <<plan, authority, row, body, seen, loopVars, records, history>>
FindDuplicate(c) ==
    /\ request # "none" /\ bound = body[c]
    /\ Goto(c, "register", "duplicate")
    /\ UNCHANGED <<plan, authority, row, body, seen, loopVars, records, history>>

\* It exists with another body, or a concurrent INSERT won: 409.
KeyConflict(c) ==
    /\ request # "none"
    /\ Reply(c, "register", "error")
    /\ UNCHANGED <<plan, authority, row, loopVars, records, history>>

\* complete, not created: the retained answer of a succeeded request, or 409.
MayReplay_Uncertain == plan.retain /\ output
MayReplay == plan.retain /\ request = "succeeded" /\ output
Replay(c) ==
    /\ \/ MayReplay /\ Reply(c, "duplicate", "replay")
       \/ ~MayReplay /\ Reply(c, "duplicate", "error")
    /\ UNCHANGED <<plan, authority, row, loopVars, records, history>>

Advance(c) ==
    /\ \/ /\ request = "queued" /\ request' = "running"
          /\ Goto(c, "advance", "infer")
          /\ UNCHANGED <<bound, output, body, seen>>
       \/ request # "queued" /\ Reply(c, "advance", "error") /\ UNCHANGED row
    /\ UNCHANGED <<plan, authority, loopVars, records, history>>

-----------------------------------------------------------------------------
(* infer *)

Raise(c, from, why) ==
    /\ Goto(c, from, "raise")
    /\ ended' = why
    /\ UNCHANGED <<body, seen, sends, lateSends, crashed>>

\* Repairs need retained output and no tools; then the whole envelope is checked.
RepairsAllowed == plan.repairs > 0 => plan.repairRetain /\ ~plan.tools
Infer(c) ==
    /\ \/ /\ Authorized /\ RepairsAllowed /\ WithinStage(plan)
          /\ Goto(c, "infer", "attempt")
          /\ UNCHANGED <<body, seen, history>>
       \/ ~(Authorized /\ RepairsAllowed) /\ Raise(c, "infer", "denied")
       \/ Authorized /\ RepairsAllowed /\ ~WithinStage(plan) /\ Raise(c, "infer", "envelope")
    /\ UNCHANGED <<plan, authority, row, loopVars, records>>

\* A DomainError reaches infer's handler.
Fail(c, from, k) ==
    /\ Goto(c, from, "choose")
    /\ kind' = k
    /\ UNCHANGED <<body, seen, cand, index, left, repairing, answered>>

\* _infer_once: the circuit is open, or the attempt goes on to start.
Acquire(c) ==
    /\ \/ Goto(c, "attempt", "start") /\ UNCHANGED <<body, seen, loopVars>>
       \/ Fail(c, "attempt", "circuit_open")
    /\ UNCHANGED <<plan, authority, row, records, history>>

Current == index + 1

\* The amount preflight bounds for the current request: a repair carries the previous
\* output, so its input is longer, and is refused beyond max_input_tokens.
Amounts == IF repairing THEN plan.est[cand] .. plan.full[cand] ELSE {plan.est[cand]}

\* start: check the deadline and the key, reserve, save the attempt's first revision.
Start(c) ==
    /\ keyLive /\ ~late
    /\ Goto(c, "start", "recheck")
    /\ \E a \in Amounts : spent' = spent + a
    /\ attempt' = [attempt EXCEPT ![Current] = "reserved"]
    /\ answered' = FALSE
    /\ UNCHANGED <<plan, authority, row, body, seen, cand, index, left, repairing, kind,
                   invalid, history>>

\* A hold is refused (429, or 409 for a used id), the key is gone or the repair is too
\* long (403): no attempt record.  A deadline leaves infer at once.
StartRefused(c) ==
    /\ \/ ~late /\ \E k \in {"rate_limit", "provider_failure"} : Fail(c, "start", k) /\ UNCHANGED history
       \/ ~late /\ (~keyLive \/ repairing) /\ Fail(c, "start", "capability_mismatch")
          /\ UNCHANGED history
       \/ Raise(c, "start", "late") /\ UNCHANGED loopVars
    /\ UNCHANGED <<plan, authority, row, records>>

\* The attempt failed after start: finish runs without an answer, or with one.
Broken(c, from, k, withResult) ==
    /\ Goto(c, from, "fail")
    /\ kind' = k /\ answered' = withResult
    /\ UNCHANGED <<body, seen, cand, index, left, repairing>>

\* The recheck before dispatch: deadline, policy, target and credential.
Recheck_PolicyOnly(c) ==
    /\ \/ enabled /\ Goto(c, "recheck", "dispatch") /\ UNCHANGED <<body, seen, loopVars>>
       \/ ~enabled /\ Broken(c, "recheck", "capability_mismatch", FALSE)
    /\ UNCHANGED <<plan, authority, row, records, history>>
Recheck(c) ==
    /\ \/ enabled /\ pinned /\ ~late /\ Goto(c, "recheck", "dispatch")
          /\ UNCHANGED <<body, seen, loopVars>>
       \/ Broken(c, "recheck", "timeout", FALSE)
       \/ ~late /\ ~enabled /\ Broken(c, "recheck", "capability_mismatch", FALSE)
       \/ ~late /\ enabled /\ ~pinned /\ Broken(c, "recheck", "provider_failure", FALSE)
    /\ UNCHANGED <<plan, authority, row, records, history>>

\* save_attempt with status dispatched, then the provider call.
Dispatch(c) ==
    /\ Goto(c, "dispatch", "inflight")
    /\ attempt' = [attempt EXCEPT ![Current] = "dispatched"]
    /\ sends' = sends + 1
    /\ lateSends' = IF enabled /\ pinned /\ keyLive THEN lateSends ELSE lateSends + 1
    /\ UNCHANGED <<plan, authority, row, body, seen, loopVars, invalid, spent, ended, crashed>>

\* The provider's answer passes every validation, fails one, or there is none: the
\* adapters turn every error of a target but a cancellation into a provider failure.
Validated == {"invalid_output", "quality_validation", "budget_violation", "provider_failure",
              "timeout"}
Unanswered == {"provider_failure", "timeout", "cancelled"}
Answer(c) ==
    /\ \/ /\ ~late /\ Goto(c, "inflight", "finish")
          /\ answered' = TRUE
          /\ UNCHANGED <<body, seen, cand, index, left, repairing, kind>>
       \/ \E k \in Validated : Broken(c, "inflight", k, TRUE)
       \/ \E k \in Unanswered : Broken(c, "inflight", k, FALSE)
    /\ UNCHANGED <<plan, authority, row, records, history>>

\* finish with a valid result: its cost is known, unknown, or above the reservation.
\* An overage is recorded as unknown and fails the attempt.
FinishAnswered_SettlesFirst(c) ==
    /\ request' = "succeeded"
    /\ \/ Goto(c, "finish", "deliver") /\ UNCHANGED <<body, seen, loopVars>>
       \/ Fail(c, "finish", "budget_violation")
    /\ attempt' = [attempt EXCEPT ![Current] = "succeeded"]
    /\ UNCHANGED <<plan, authority, bound, output, invalid, spent, history>>
FinishAnswered(c) ==
    /\ \/ /\ Goto(c, "finish", "deliver")
          /\ \E s \in {"succeeded", "uncertain"} : attempt' = [attempt EXCEPT ![Current] = s]
          /\ UNCHANGED <<body, seen, loopVars>>
       \/ /\ Fail(c, "finish", "budget_violation")
          /\ attempt' = [attempt EXCEPT ![Current] = "uncertain"]
    /\ UNCHANGED <<plan, authority, row, invalid, spent, history>>

Repairable == {"invalid_output", "quality_validation"}

\* The handler of _infer_once: store a rejected output that may be repaired, run finish,
\* go on as a RoutedFailure; a cancellation is raised again.
KeepsOutput == answered /\ plan.repairs > 0 /\ kind \in Repairable /\ plan.repairRetain

FinishFailed_Forgotten(c) ==
    /\ kind # "cancelled" /\ Fail(c, "fail", kind)
    /\ UNCHANGED <<plan, authority, row, attempt, invalid, spent, history>>
FinishFailed(c) ==
    /\ invalid' = [invalid EXCEPT ![Current] = IF KeepsOutput THEN "stored" ELSE "none"]
    /\ \E s \in IF kind = "cancelled" THEN {"cancelled"}
                ELSE IF answered THEN {"failed", "uncertain"} ELSE {"uncertain"} :
         attempt' = [attempt EXCEPT ![Current] = s]
    /\ \/ kind = "cancelled" /\ Raise(c, "fail", "cancelled") /\ UNCHANGED loopVars
       \/ kind # "cancelled" /\ Fail(c, "fail", kind) /\ UNCHANGED history
    /\ UNCHANGED <<plan, authority, row, spent>>

\* The rejected output is above 64 KiB: save_output raises 413 inside the handler, so finish
\* does not run, and infer meets a failure of another kind, which no repair answers.
OutputRefused(c) ==
    /\ KeepsOutput /\ Fail(c, "fail", "provider_failure")
    /\ invalid' = [invalid EXCEPT ![Current] = "refused"]
    /\ UNCHANGED <<plan, authority, row, attempt, spent, history>>

\* infer's handler: a repair on the same configuration, the next configuration, or up.
NextAttempt(c) ==
    IF index + 1 < LoopBound(plan)
    THEN /\ Goto(c, "choose", "attempt") /\ index' = index + 1 /\ UNCHANGED <<body, seen, history>>
    ELSE Raise(c, "choose", "loop") /\ UNCHANGED index

MayRepair_Unbounded == kind \in Repairable /\ plan.repairs > 0
MayRepair == kind \in Repairable /\ left > 0

Repair(c) ==
    /\ ~late /\ MayRepair /\ invalid[Current] = "stored"
    /\ left' = left - 1 /\ repairing' = TRUE
    /\ NextAttempt(c)
    /\ UNCHANGED <<plan, authority, row, cand, kind, answered, records>>

Listed == plan.fallbackOn = {} \/ kind \in plan.fallbackOn

Fallback(c) ==
    /\ ~late /\ ~MayRepair /\ Listed /\ cand < plan.n
    /\ cand' = cand + 1 /\ repairing' = FALSE
    /\ NextAttempt(c)
    /\ UNCHANGED <<plan, authority, row, left, kind, answered, records>>

\* The deadline has passed, the retained output has expired, the failure kind is not listed,
\* or this was the last configuration.
StopTrying(c) ==
    /\ \/ late /\ Raise(c, "choose", "late")
       \/ ~late /\ MayRepair /\ Raise(c, "choose", "denied")
       \/ ~late /\ ~MayRepair /\ ~Listed /\ Raise(c, "choose", "not_listed")
       \/ ~late /\ ~MayRepair /\ Listed /\ cand = plan.n /\ Raise(c, "choose", "last")
    /\ UNCHANGED <<plan, authority, row, loopVars, records>>

-----------------------------------------------------------------------------
(* complete: settle *)

Deliver(c) ==
    /\ request' = attempt[Current]
    /\ output' = plan.retain
    /\ Reply(c, "deliver", "answer")
    /\ UNCHANGED <<plan, authority, bound, loopVars, records, history>>

\* The answer is above 64 KiB and should be retained: save_output raises 413.
AnswerRefused(c) ==
    /\ plan.retain /\ Raise(c, "deliver", "oversized")
    /\ UNCHANGED <<plan, authority, row, loopVars, records>>

SettleRaised_NotSettled(c) ==
    /\ Reply(c, "raise", "error")
    /\ UNCHANGED <<plan, authority, row, loopVars, records, history>>
SettleRaised(c) ==
    /\ request' = IF request = "running" THEN "uncertain" ELSE request
    /\ Reply(c, "raise", "error")
    /\ UNCHANGED <<plan, authority, bound, output, loopVars, records, history>>

\* The API process of a call dies.
Crash(c) ==
    /\ pc[c] \notin {"idle", "done", "dead"}
    /\ pc' = [pc EXCEPT ![c] = "dead"]
    /\ crashed' = (crashed \/ pc[c] \notin {"prepare", "authorize", "register", "duplicate"})
    /\ UNCHANGED <<plan, authority, row, body, seen, loopVars, records, sends, lateSends, ended>>

Serve(c) ==
    \/ CheckKey(c) \/ Authorize(c)
    \/ Register(c) \/ FindDuplicate(c) \/ KeyConflict(c) \/ Replay(c)
    \/ Advance(c) \/ Infer(c) \/ Acquire(c) \/ Start(c) \/ StartRefused(c)
    \/ Recheck(c) \/ Dispatch(c) \/ Answer(c) \/ FinishAnswered(c) \/ FinishFailed(c)
    \/ OutputRefused(c) \/ Repair(c) \/ Fallback(c) \/ StopTrying(c)
    \/ Deliver(c) \/ AnswerRefused(c) \/ SettleRaised(c)

Next ==
    \/ Disable \/ Repin \/ Revoke \/ DeadlinePasses \/ ForgetOutput
    \/ \E c \in Call : Arrive(c) \/ Serve(c) \/ Crash(c)

Spec == Init /\ [][Next]_vars
FairSpec == Spec /\ \A c \in Call : WF_vars(Serve(c))

-----------------------------------------------------------------------------
(* Properties *)

Terminal == {"succeeded", "uncertain"}
Working == Steps \ {"idle", "prepare", "authorize", "register", "duplicate", "done", "dead"}

\* The stage cap bounds everything one request may reserve, over every fallback and every
\* repair, whose request is longer than the one preflight saw first (infer's envelope).
SpendWithinStage == spent <= plan.cap

\* A policy disabled, an endpoint or credential replaced, a key revoked: at most the one
\* provider call whose recheck had already passed still goes out; no fallback or repair
\* follows it.
AtMostOneLateSend == lateSends <= 1

\* The attempts that executable_bindings reserves are enough: infer never runs out of its
\* loop with a configuration or a repair left, it always ends on a decision.
LoopNeverRunsOut == ended # "loop"

\* Once a request is settled every attempt it started has its final record, except one whose
\* rejected output the store refused: its provider call went out and is never settled.  The
\* request is a success only if its last attempt is one with a known cost.
AccountedWhenSettled ==
    request \in Terminal =>
        /\ \A i \in Slot : attempt[i] # "reserved" /\ (attempt[i] = "dispatched" => invalid[i] = "refused")
        /\ request = "succeeded" => attempt[Current] = "succeeded"

\* "Failed output validation remains visible and accounted": the same without the exception.
EveryAttemptAccounted ==
    request \in Terminal => \A i \in Slot : attempt[i] \notin {"reserved", "dispatched"}

\* "Same idempotency key never blindly redispatches": a client gets a replay only of an
\* answer that some call delivered, and no two calls ever work on the request.
OneWorkerPerKey ==
    /\ \A c, d \in Call : pc[c] \in Working /\ pc[d] \in Working => c = d
    /\ \A c \in Call : seen[c] = "replay" =>
        request = "succeeded" /\ (crashed \/ \E d \in Call : seen[d] = "answer" /\ body[d] = body[c])

\* A request is left open with nobody working on it only if its worker died: every error
\* path of complete settles it.
OpenOnlyByCrash ==
    request \in {"queued", "running"} => crashed \/ \E c \in Call : pc[c] \in Working

\* Fallbacks and repairs stay within the money and the attempts the stage was approved for.
AttemptsAreBounded == TypeOK /\ SpendWithinStage /\ LoopNeverRunsOut

\* A request has one worker, is settled by it, and is settled with its attempts accounted,
\* but for the one gap that AccountedWhenSettled names.
RequestsAreAccounted == OneWorkerPerKey /\ AccountedWhenSettled /\ OpenOnlyByCrash

\* The gateway implements the lifecycle of a request.
Lifecycle == INSTANCE RequestLifecycle WITH state <- request, sends <- sends, Limit <- 3
ImplementsLifecycle == Lifecycle!Spec

\* A registered request is settled unless its process dies.
EveryRequestSettles == request = "queued" ~> (request \in Terminal \/ crashed)
=============================================================================
