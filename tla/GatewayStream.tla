--------------------------- MODULE GatewayStream ---------------------------
(***************************************************************************)
(* A streaming chat completion: Gateway.stream (gateway/service.py), the   *)
(* StreamCollector of stream_validation.py and the HTTP side of            *)
(* execution_api.complete, which prefetches the first event, watches for a *)
(* disconnect and ends a good stream with [DONE].                          *)
(*                                                                         *)
(* Gateway.stream is an async generator: at every yield the client may     *)
(* take the chunk or be gone (GeneratorExit), at every await before the    *)
(* first chunk it may be cancelled, and before each chunk the key and the  *)
(* policy are read again.  Registration and the holds are those of         *)
(* GatewayInference and SandboxBudget.                                     *)
(***************************************************************************)
EXTENDS Naturals, FiniteSets

CONSTANTS
    Candidates,     \* 1 .. n: the pinned configurations, in order
    FallbackLists,  \* the fallback_on lists considered; {} admits every failure
    Orderly         \* does upstream keep the order of TargetAdapters.stream

ASSUME CandidatesAssumption == \E n \in 1 .. 3 : Candidates = 1 .. n
ASSUME OrderlyAssumption == Orderly \in BOOLEAN

VARIABLES
    fallbackOn,
    enabled, pinned, keyLive, late,
    request,                  \* sandbox_requests.state
    attempt,                  \* status of the attempt on each configuration
    observed,                 \* history: the cost its terminal observation carried
    pc, cand, event,          \* the generator
    exposed, finish, used, observation,   \* its locals: delivered, StreamCollector, accounting
    kind, interrupted,
    http,                     \* what the client has: status line, chunks, end of stream
    shown, lateShown,         \* history: configurations whose output was delivered
    sends, escaped, crashed   \* history

authority == <<enabled, pinned, keyLive, late>>
locals    == <<event, exposed, finish, used, observation, kind, interrupted>>
history   == <<shown, lateShown, sends, escaped, crashed>>
vars == <<fallbackOn, authority, request, attempt, observed, pc, cand, locals, http, history>>

-----------------------------------------------------------------------------
Last == Cardinality(Candidates)
Kinds == {"provider_failure", "rate_limit", "timeout", "capability_mismatch", "cancelled",
          "circuit_open"}

\* What an upstream event is to the gateway.  A delta carries content, a tool call or a
\* role; last_delta carries one together with the finish reason.
Events == {"delta", "last_delta", "finish", "other_finish", "usage", "other_usage", "error",
           "metered", "unmetered", "overrun"}
Observations == {"metered", "unmetered", "overrun"}
Steps == {"idle", "register", "advance", "candidates", "key", "circuit", "start", "recheck",
          "dispatch", "await", "check_key", "check_policy", "yield", "complete", "settle",
          "terminal", "drained", "fail", "choose", "ended", "dead"}

TypeOK ==
    /\ fallbackOn \in FallbackLists
    /\ enabled \in BOOLEAN /\ pinned \in BOOLEAN /\ keyLive \in BOOLEAN /\ late \in BOOLEAN
    /\ request \in {"none", "queued", "running", "succeeded", "uncertain"}
    /\ attempt \in [Candidates -> {"none", "reserved", "dispatched", "succeeded", "uncertain"}]
    /\ observed \in [Candidates -> Observations \cup {"none"}]
    /\ pc \in Steps /\ cand \in Candidates /\ event \in Events
    /\ exposed \in BOOLEAN /\ finish \in {"none", "finish", "other_finish"}
    /\ used \in {"none", "usage", "other_usage"}
    /\ observation \in Observations \cup {"none"}
    /\ kind \in Kinds /\ interrupted \in BOOLEAN
    /\ http \in {"nothing", "chunks", "terminal", "done", "failed", "error", "closed"}
    /\ shown \subseteq Candidates /\ lateShown \in 0 .. 2
    /\ sends \in 0 .. 3 /\ escaped \in BOOLEAN /\ crashed \in BOOLEAN

Init ==
    /\ fallbackOn \in FallbackLists
    /\ enabled = TRUE /\ pinned = TRUE /\ keyLive = TRUE /\ late = FALSE
    /\ request = "none"
    /\ attempt = [i \in Candidates |-> "none"] /\ observed = [i \in Candidates |-> "none"]
    /\ pc = "idle" /\ cand = 1 /\ event = "delta"
    /\ exposed = FALSE /\ finish = "none" /\ used = "none" /\ observation = "none"
    /\ kind = "provider_failure" /\ interrupted = FALSE
    /\ http = "nothing" /\ shown = {} /\ lateShown = 0 /\ sends = 0
    /\ escaped = FALSE /\ crashed = FALSE

-----------------------------------------------------------------------------
Goto(from, to) == pc = from /\ pc' = to

Disable ==
    /\ enabled /\ enabled' = FALSE
    /\ UNCHANGED <<fallbackOn, pinned, keyLive, late, request, attempt, observed, pc, cand,
                   locals, http, history>>
Repin ==
    /\ pinned /\ pinned' = FALSE
    /\ UNCHANGED <<fallbackOn, enabled, keyLive, late, request, attempt, observed, pc, cand,
                   locals, http, history>>
Revoke ==
    /\ keyLive /\ keyLive' = FALSE
    /\ UNCHANGED <<fallbackOn, enabled, pinned, late, request, attempt, observed, pc, cand,
                   locals, http, history>>
DeadlinePasses ==
    /\ ~late /\ late' = TRUE
    /\ UNCHANGED <<fallbackOn, enabled, pinned, keyLive, request, attempt, observed, pc, cand,
                   locals, http, history>>

-----------------------------------------------------------------------------
(* Before the loop *)

\* context.check_cancelled and the deadline check of Authority.policy.
Elapsed_Ignored == FALSE
Elapsed == late

\* prepare and register_request; a denial or a duplicate answers 409 without a row.
Prepare ==
    /\ \/ enabled /\ keyLive /\ ~Elapsed /\ Goto("idle", "advance") /\ request' = "queued" /\ http' = http
       \/ ~(enabled /\ keyLive /\ ~Elapsed) /\ Goto("idle", "ended") /\ http' = "error"
          /\ UNCHANGED request
    /\ UNCHANGED <<fallbackOn, authority, attempt, observed, cand, locals, history>>

Advance ==
    /\ Goto("advance", "candidates")
    /\ request = "queued" /\ request' = "running"
    /\ UNCHANGED <<fallbackOn, authority, attempt, observed, cand, locals, http, history>>

\* The configurations are authorized again outside the try block: a denial here leaves
\* the generator with the request still running.
ReadCandidates ==
    /\ \/ enabled /\ ~Elapsed /\ Goto("candidates", "key") /\ UNCHANGED <<http, escaped>>
       \/ ~(enabled /\ ~Elapsed) /\ Goto("candidates", "ended") /\ http' = "error" /\ escaped' = TRUE
    /\ UNCHANGED <<fallbackOn, authority, request, attempt, observed, cand, locals, shown,
                   lateShown, sends, crashed>>

-----------------------------------------------------------------------------
(* One candidate *)

\* An exception inside the try block.
Fail(from, k) ==
    /\ Goto(from, "fail")
    /\ kind' = k /\ interrupted' = FALSE
    /\ UNCHANGED <<event, exposed, finish, used, observation>>

\* GeneratorExit or CancelledError.
Interrupt(from) ==
    /\ Goto(from, "fail")
    /\ kind' = "cancelled" /\ interrupted' = TRUE
    /\ UNCHANGED <<event, exposed, finish, used, observation>>

CheckKey ==
    /\ \/ keyLive /\ Goto("key", "circuit") /\ UNCHANGED locals
       \/ ~keyLive /\ Fail("key", "capability_mismatch")
    /\ UNCHANGED <<fallbackOn, authority, request, attempt, observed, cand, http, history>>

Acquire ==
    /\ \/ Goto("circuit", "start") /\ UNCHANGED locals
       \/ Fail("circuit", "circuit_open")
    /\ UNCHANGED <<fallbackOn, authority, request, attempt, observed, cand, http, history>>

Start ==
    /\ \/ /\ keyLive /\ ~Elapsed /\ Goto("start", "recheck")
          /\ attempt' = [attempt EXCEPT ![cand] = "reserved"]
          /\ UNCHANGED locals
       \/ /\ \/ Elapsed /\ Fail("start", "timeout")
             \/ ~Elapsed /\ ~keyLive /\ Fail("start", "capability_mismatch")
             \/ ~Elapsed /\ \E k \in {"rate_limit", "provider_failure"} : Fail("start", k)
          /\ UNCHANGED attempt
    /\ UNCHANGED <<fallbackOn, authority, request, observed, cand, http, history>>

Recheck ==
    /\ \/ enabled /\ pinned /\ ~Elapsed /\ Goto("recheck", "dispatch") /\ UNCHANGED locals
       \/ Elapsed /\ Fail("recheck", "timeout")
       \/ ~Elapsed /\ ~enabled /\ Fail("recheck", "capability_mismatch")
       \/ ~Elapsed /\ enabled /\ ~pinned /\ Fail("recheck", "provider_failure")
    /\ UNCHANGED <<fallbackOn, authority, request, attempt, observed, cand, http, history>>

Dispatch ==
    /\ Goto("dispatch", "await")
    /\ attempt' = [attempt EXCEPT ![cand] = "dispatched"]
    /\ sends' = sends + 1
    /\ UNCHANGED <<fallbackOn, authority, request, observed, cand, locals, http, shown, lateShown,
                   escaped, crashed>>

\* TargetAdapters.stream yields its observation once, after the finish reason, and last.
InOrder(e) ==
    Orderly => observation = "none" /\ (e \in Observations => finish # "none")

\* The next event, the end of the stream, a transport error or timeout, or, before the
\* headers are sent, the cancellation of the prefetch.
Receive ==
    /\ \/ \E e \in Events : /\ InOrder(e) /\ Goto("await", "check_key") /\ event' = e
                         /\ UNCHANGED <<exposed, finish, used, observation, kind, interrupted>>
       \/ (Orderly => observation # "none") /\ Goto("await", "complete") /\ UNCHANGED locals
       \/ /\ Orderly => observation = "none"
          /\ \E k \in {"provider_failure", "timeout"} : Fail("await", k)
       \/ http = "nothing" /\ Interrupt("await")
    /\ UNCHANGED <<fallbackOn, authority, request, attempt, observed, cand, http, history>>

EventKey_NotRead == /\ Goto("check_key", "check_policy") /\ UNCHANGED locals
                    /\ UNCHANGED <<fallbackOn, authority, request, attempt, observed, cand, http, history>>
EventKey ==
    /\ \/ ~Elapsed /\ keyLive /\ Goto("check_key", "check_policy") /\ UNCHANGED locals
       \/ Elapsed /\ Fail("check_key", "timeout")
       \/ ~Elapsed /\ ~keyLive /\ Fail("check_key", "capability_mismatch")
    /\ UNCHANGED <<fallbackOn, authority, request, attempt, observed, cand, http, history>>

\* StreamCollector.accept: nothing after the finish reason, one finish reason, one usage.
Accepts(e) ==
    /\ observation = "none"
    /\ e \in {"delta", "last_delta"} => finish = "none"
    /\ e \in {"finish", "other_finish"} => finish \in {"none", e}
    /\ e \in {"usage", "other_usage"} => used \in {"none", e}

IsDelta(e) == e \in {"delta", "last_delta"}
Finished(e) == CASE e \in {"last_delta", "finish"} -> "finish"
                 [] e = "other_finish" -> "other_finish" [] OTHER -> finish

\* The policy is read again, then the event is handled: accounting is kept for the end,
\* a delta is yielded without its finish reason.
HandleEvent ==
    /\ \/ (Elapsed \/ ~enabled) /\ Fail("check_policy", IF Elapsed THEN "timeout" ELSE "capability_mismatch")
          /\ UNCHANGED observed
       \/ /\ enabled /\ ~Elapsed
          /\ event = "error" \/ (event \in Observations /\ observation # "none")
             \/ (event \notin Observations \cup {"error"} /\ ~Accepts(event))
          /\ Fail("check_policy", "provider_failure")
          /\ UNCHANGED observed
       \/ /\ enabled /\ ~Elapsed /\ event \in Observations /\ observation = "none"
          /\ Goto("check_policy", "await")
          /\ observation' = event
          /\ observed' = [observed EXCEPT ![cand] = event]
          /\ UNCHANGED <<event, exposed, finish, used, kind, interrupted>>
       \/ /\ enabled /\ ~Elapsed /\ event \notin Observations \cup {"error"} /\ Accepts(event)
          /\ Goto("check_policy", IF IsDelta(event) THEN "yield" ELSE "await")
          /\ finish' = Finished(event)
          /\ used' = IF event \in {"usage", "other_usage"} THEN event ELSE used
          /\ exposed' = (exposed \/ IsDelta(event))
          /\ UNCHANGED <<event, observation, kind, interrupted, observed>>
    /\ UNCHANGED <<fallbackOn, authority, request, attempt, cand, http, history>>

\* The HTTP side takes the chunk, or finds the client gone and closes the generator.
TakeChunk ==
    /\ \/ /\ Goto("yield", "await") /\ http' = "chunks"
          /\ shown' = shown \cup {cand}
          /\ lateShown' = IF (keyLive /\ enabled) \/ lateShown = 2 THEN lateShown ELSE lateShown + 1
          /\ UNCHANGED locals
       \/ Interrupt("yield") /\ http' = "closed" /\ UNCHANGED <<shown, lateShown>>
    /\ UNCHANGED <<fallbackOn, authority, request, attempt, observed, cand, sends, escaped, crashed>>

-----------------------------------------------------------------------------
(* The end of a candidate *)

\* collector.completion, validate_completion, the output ceiling; then finish: an
\* observation above the reservation is recorded as unknown and is an error.
HasFinish_NotRequired == TRUE
HasFinish == finish # "none"

Account ==
    /\ \/ Fail("complete", "provider_failure") /\ UNCHANGED attempt
       \/ /\ HasFinish /\ observation = "overrun" /\ Fail("complete", "provider_failure")
          /\ attempt' = [attempt EXCEPT ![cand] = "uncertain"]
       \/ /\ HasFinish /\ observation # "overrun" /\ Goto("complete", "settle")
          /\ attempt' = [attempt EXCEPT ![cand] =
                           IF observation = "metered" THEN "succeeded" ELSE "uncertain"]
          /\ UNCHANGED locals
    /\ UNCHANGED <<fallbackOn, authority, request, observed, cand, http, history>>

\* The request is settled before the terminal chunk is yielded.
Settle_Later ==
    /\ Goto("settle", "terminal") /\ UNCHANGED request
    /\ UNCHANGED <<fallbackOn, authority, attempt, observed, cand, locals, http, history>>
Settle ==
    /\ Goto("settle", "terminal")
    /\ request' = attempt[cand]
    /\ UNCHANGED <<fallbackOn, authority, attempt, observed, cand, locals, http, history>>

\* The answer is above 64 KiB and should be retained: save_output raises 413 before the
\* request is settled.  Such an answer has deltas, and they have been yielded.
AnswerRefused ==
    /\ exposed /\ Fail("settle", "provider_failure")
    /\ UNCHANGED <<fallbackOn, authority, request, attempt, observed, cand, http, history>>

TakeTerminal ==
    /\ \/ Goto("terminal", "drained") /\ http' = "terminal" /\ UNCHANGED locals
       \/ Interrupt("terminal") /\ http' = "closed"
    /\ UNCHANGED <<fallbackOn, authority, request, attempt, observed, cand, history>>

\* The generator stops; a finished stream is closed with [DONE].
SendDone ==
    /\ Goto("drained", "ended") /\ http' = "done"
    /\ UNCHANGED <<fallbackOn, authority, request, attempt, observed, cand, locals, history>>

\* The handler: an attempt without a trace is finished, without its observation.
FinishBroken_Skipped ==
    /\ Goto("fail", "choose")
    /\ UNCHANGED <<fallbackOn, authority, request, attempt, observed, cand, locals, http, history>>
FinishBroken_Settles ==
    /\ Goto("fail", "choose")
    /\ request' = "uncertain"
    /\ attempt' = [attempt EXCEPT ![cand] = "uncertain"]
    /\ UNCHANGED <<fallbackOn, authority, observed, cand, locals, http, history>>
FinishBroken ==
    /\ Goto("fail", "choose")
    /\ attempt' = [attempt EXCEPT ![cand] =
                     IF @ \in {"reserved", "dispatched"} THEN "uncertain" ELSE @]
    /\ UNCHANGED <<fallbackOn, authority, request, observed, cand, locals, http, history>>

MustStop_EvenExposed ==
    interrupted \/ cand = Last \/ (fallbackOn # {} /\ kind \notin fallbackOn)
MustStop_PastLast ==
    exposed \/ interrupted \/ cand > Last \/ (fallbackOn # {} /\ kind \notin fallbackOn)
MustStop ==
    exposed \/ interrupted \/ cand = Last \/ (fallbackOn # {} /\ kind \notin fallbackOn)

\* Settle and report: 502 before the headers, partial_failure after them.
GiveUp ==
    /\ MustStop /\ Goto("choose", "ended")
    /\ request' = IF request = "running" THEN "uncertain" ELSE request
    /\ http' = IF http = "closed" THEN "closed" ELSE IF http = "nothing" THEN "error" ELSE "failed"
    /\ UNCHANGED <<fallbackOn, authority, attempt, observed, cand, locals, history>>

\* "All preceding attempts are accounted; no downstream response yet": the deadline is
\* checked outside the try block, then the next configuration is tried.
Fallback ==
    /\ ~MustStop
    /\ \/ /\ ~Elapsed /\ Goto("choose", "key") /\ cand' = cand + 1
          /\ exposed' = FALSE /\ finish' = "none" /\ used' = "none" /\ observation' = "none"
          /\ UNCHANGED <<event, kind, interrupted, http, escaped>>
       \/ /\ Elapsed /\ Goto("choose", "ended") /\ http' = "error" /\ escaped' = TRUE
          /\ UNCHANGED <<cand, locals>>
    /\ UNCHANGED <<fallbackOn, authority, request, attempt, observed, shown, lateShown, sends, crashed>>

Crash ==
    /\ pc \notin {"idle", "ended", "dead"}
    /\ pc' = "dead" /\ crashed' = TRUE
    /\ UNCHANGED <<fallbackOn, authority, request, attempt, observed, cand, locals, http, shown,
                   lateShown, sends, escaped>>

Serve ==
    \/ Advance \/ ReadCandidates \/ CheckKey \/ Acquire \/ Start \/ Recheck \/ Dispatch
    \/ Receive \/ EventKey \/ HandleEvent \/ TakeChunk \/ Account \/ Settle \/ AnswerRefused
    \/ TakeTerminal \/ SendDone \/ FinishBroken \/ GiveUp \/ Fallback

Next == Disable \/ Repin \/ Revoke \/ DeadlinePasses \/ Prepare \/ Serve \/ Crash

Spec == Init /\ [][Next]_vars
FairSpec == Spec /\ WF_vars(Serve) /\ WF_vars(DeadlinePasses)

-----------------------------------------------------------------------------
(* Properties *)

Terminal == {"succeeded", "uncertain"}
Over == pc \in {"ended", "dead"}

\* "Once any delta is exposed ... no fallback/model splicing": the client never sees the
\* output of two configurations in one answer.
OneModelPerAnswer == Cardinality(shown) <= 1

\* "[DONE] is emitted only on a valid terminal path": a client that reads it has an answer
\* whose request is settled and whose every attempt is accounted.
DoneIsAccounted ==
    http \in {"terminal", "done"} =>
        /\ request \in Terminal /\ shown \subseteq {cand} /\ finish # "none"
        /\ \A i \in Candidates : attempt[i] \in {"none", "succeeded", "uncertain"}

\* However the generator ends (error, disconnect, deadline, disabled policy), every attempt
\* it started has its final record.
AccountedAtEnd ==
    pc = "ended" => \A i \in Candidates : attempt[i] \notin {"reserved", "dispatched"}

\* A revoked key or a disabled policy stops an open stream: at most the one chunk whose
\* checks had passed is still delivered.
AtMostOneLateChunk == lateShown <= 1

\* A stream that is over leaves its request running only when it died or left the
\* generator outside the try block, and then nothing was delivered.
OpenOnlyByEscape ==
    Over /\ request \in {"queued", "running"} => crashed \/ (escaped /\ shown = {})

\* What a client and the ledger can rely on, however a stream goes.
StreamSafety ==
    /\ TypeOK /\ OneModelPerAnswer /\ DoneIsAccounted
    /\ AccountedAtEnd /\ AtMostOneLateChunk /\ OpenOnlyByEscape

\* What test_unblock.py asserts of an interrupted stream, for every way a stream ends
\* without the process dying: its request is settled.
EndedIsSettled == pc = "ended" /\ sends > 0 => request \in Terminal

\* "Actual usage is reconciled when known": an attempt whose terminal observation carried a
\* cost within its reservation does not end as uncertain.
KnownUsageReconciled ==
    \A i \in Candidates :
        pc = "ended" /\ observed[i] = "metered" => attempt[i] = "succeeded"

\* The stream implements the lifecycle of a request.
Lifecycle == INSTANCE RequestLifecycle WITH state <- request, sends <- sends, Limit <- 3
ImplementsLifecycle == Lifecycle!Spec

\* Every stream that began ends: the deadline is checked before each event.
EveryStreamEnds == request = "running" ~> Over
=============================================================================
