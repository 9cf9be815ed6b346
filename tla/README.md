# A TLA+ model of the Buildbox open-weight router

The router is a FastAPI service with worker processes over one SQL database
(SQLite or PostgreSQL). It plans workflows, researches and recommends open-weight
model configurations, and runs approved policies in a sandbox that spends bounded
amounts of money at model providers. Processes share nothing but the database:
every guarantee rests on conditional `UPDATE`s, unique keys and leases, and every
value a process has read may be stale when it is used. That is what this project
models. Paths below are relative to `router/backend/buildbox_router/`.

## Inventory

| Component | State | Operations | Interacts through | What makes it correct |
|---|---|---|---|---|
| Request ledger and runtime queue (`execution_storage.py`, `execution_jobs.py`) | `sandbox_requests`, `runtime_queue`, `queued_input` payloads | submit, cancel, claim with sweep, finish | rows; the worker calls the runner | a run is claimed once, settles once, and always settles; a key binds one run |
| Workflow runner (`gateway/runner.py`, `outcomes.py`) | run records, events, outputs, outcomes | submit, `_stage`, `_save`, cancel, events | ledger, gateway, key budget | one wave at most after a cancel; nothing recorded is replaced; records agree with the request |
| Budget ledger and application keys (`execution_storage.py`, `gateway/keys.py`) | `sandbox_budgets`, `sandbox_reservations`, key records, verifiers | provision, reserve, reconcile; issue, authenticate, check, revoke | `Gateway.start` and `finish` | holds within caps, no refunds, no second dispatch; a revoked key stays revoked |
| Deployment circuit (`gateway/health.py`) | `deployment_health` | acquire, observe, unavailable | `_infer_once`, `stream`, `finish` | opens on a streak, one recovery probe, never closed for good |
| Planning jobs (`storage.py`, `planning_storage.py`, `planning.py`, `runtime.py`, `worker.py`) | `jobs`, `provider_calls`, plan and workflow versions, submissions | submit, revise, view, export, claim, phases, paid call, complete, fail, cancel | rows, the provider | one worker per attempt, linear versions, terminal states final |
| Gateway inference (`gateway/service.py`) | attempts, traces, the request row | prepare, complete, infer, `_infer_once`, start, finish | ledger, budgets, circuit, providers | attempts bounded and paid for in advance, fallback only where allowed, everything accounted |
| Streaming (`gateway/service.py`, `stream_validation.py`, `execution_api.py`) | one collector per stream | stream, prefetch, disconnect | as above, and the client | no fallback after a chunk; `[DONE]` only after accounting |
| Adapters and transports (`gateway/adapters.py`, `inference_transport.py`) | decoder buffer | feed, finish, frames | the provider's socket | a truncated answer is never taken for a whole one |
| Stage authority and preflight (`gateway/preflight.py`) | the selection cache | stage, `_eligible`, `cost_bound`, preflight | called before every provider call | only current evidence authorizes; the reservation covers the charge |
| Policy control plane (`execution_storage.py`, `execution_policy.py`) | policy revisions, heads, admissions, aliases | create, transition, alias, edit, variant | re-read before dispatch | only admitted revisions are enabled; no lost transition |
| Comparisons (`execution_comparisons.py`) | comparison revisions with cells | submit, get | runner, gateway, sample checks | one approved cap; every child tracked; older views never replace newer |
| Public research (`research/`) | ledger and catalog snapshots, shared budget | run, three roles, read, publish | recorded sources | partial results are never published as evidence |
| Routing and selection (`routing_service.py`, `intelligence/selection/`) | none | filter, rank, search, recommend, compile | called by planning | hard constraints are never traded; best mapping within the search bound |
| Interpretation, HTTP API and authentication, contracts, migrations, web UI | none of their own | parsing, validation, I/O | – | not modelled, see below |

Hard behaviours: processes interleaving at every statement, a sweep that acts on
rows read before they moved, worker deaths, leases that run out while the worker
lives, late observations, cancels racing every write, generators abandoned at a
yield, provider calls whose cost stays unknown, caches that outlive their evidence,
and handlers that run a second time. `PROJECT.json` lists the hazards with their
lines and the properties that watch them.

## Modules

| Module | Models |
|---|---|
| `RequestLifecycle` | abstract: one idempotency key's request is registered once, begins once, is sent a bounded number of times and only while running, and is settled at most once |
| `RuntimeQueue` | request ledger, queue, inputs; API submit and cancel; workers from claim to finish |
| `RunRecords` | revisions, events and outcome of a run, written by worker and canceller |
| `SandboxBudget` | budgets and reservations under concurrent attempts of one application key |
| `ApplicationKeys` | chains of key records, verifiers, authenticated requests |
| `DeploymentHealth` | one circuit row, shared by the calls of policies with different thresholds |
| `GatewayInference` | a chat completion with duplicates, fallbacks and repairs; implements `RequestLifecycle` |
| `GatewayStream` | a streamed completion and its HTTP side; implements `RequestLifecycle` |
| `SseStream` | blocks of bytes, the SSE decoder, frames, the final observation |
| `StageAuthority` | the checks before a call, the selection cache, the cost bound |
| `PlanningJobs` | one job row, its provider calls, the workers and a canceller |
| `PlanSubmissions` | plans, their versions, idempotent submissions, exports and drafts |
| `PolicyLifecycle` | revisions, transitions, admissions, aliases, and their reading by requests |
| `PolicyEdits` | the revision that an edit or a variant derives, and its validation |
| `Comparisons` | a comparison's envelope, children, cells and concurrent reads |
| `ControlPlane` | the five tables of studio users together: `PolicyLifecycle`, `ApplicationKeys`, `PolicyEdits`, `PlanSubmissions`, `Comparisons` |
| `ResearchRun` | a research run: cache, roles in threads, shared budget, publication |
| `Selection` | filter, ranking, bounded search, recommendation, compilation of a draft |
| `Evidence` | what is done with public evidence: `ResearchRun`, `Selection`, `StageAuthority` |
| `Executions` | what an execution leaves behind: `GatewayStream` and `RunRecords` |
| `...Proofs` | theorems about `RuntimeQueue`, `SandboxBudget`, `DeploymentHealth`, `PlanningJobs`, `GatewayInference`, `Executions`, `Evidence`, `ControlPlane` |
| `MC...` | the instances TLC checks |

Operators named `X_...` directly before `X` are deliberately wrong variants of
`X`; they are used only to confirm that a property notices the mistake.

`ControlPlane`, `Executions` (with `MCExecutions`), `Evidence` and `MCProgress` put several
components that share no table together: `part` says which one a behaviour
exercises. Where components do interact, one module takes the other's answers as
choices (a hold may be refused, a circuit may be open, a call may fail), and the
other module shows which answers occur.

In every module an action is one transaction, or one read whose value is used after
other processes may have run; an HTTP handler or a worker is a program counter.
History variables (named in the modules) only record what happened, for the
properties.

### RuntimeQueue and RunRecords

`sub`, `rkey`, `rhash`, `deadline` are a submission (one per HTTP call, which mints the
request id); `request`, `queue`, `lease`, `input`, `expires` are columns; `seen` is what
a cancel handler has read; `wpc`, `wrun`, `wnow`, `wexp`, `wres` are a worker's locals.
`claim_runtime` is `ClaimSelect` (clock and expired rows) followed by `ClaimCommit`
(sweep, claim, deletion of inputs): under READ COMMITTED other transactions commit
between the `SELECT` and the `UPDATE`s, and the queue row is overwritten without a test
of its state. `WorkflowRunner.submit` is `Admit`, `Start`, `SaveStarted`, the loop
`WaveCheck`/`Dispatch`/`WaveEnd`, then `SettleRaise` or
`SettleRead`/`SettleSwap`/`SaveFinal`; `work_once` ends in `Finish` or, after any
exception, `GiveUp`. Time is counted in units in which `Ttl` is the 120 s of a context
or an input and `Lease` the 125 s of a claim; only their order and expiry matter.

`RuntimeQueue` leaves open whether a save succeeds. `RunRecords` has what it does:
`_save` reads the newest revision, appends the next, counts the events (at most a page
of them) and appends the next event, four database steps in which worker and canceller
collide. Only one cancel of a run can ever save (the compare-and-set of the request
lets one through), so one canceller is enough; a wave is one stage.

### SandboxBudget and ApplicationKeys

`held` per budget (the admission's, the key's, one window per minute); reservations as
`rstate`, `rbudget`, `reserved`, `actual`, indexed by kind and attempt id as the code
builds their ids; callers step through `window`, `rate`, `key`, `call` (the holds of
`start`), `dispatch`, `inflight`, `settle_call`, `settle_key`, `save` (`finish`).
`reserve` rolls back its `UPDATE` when the `INSERT` violates a unique key, so it is one
action that succeeds or does nothing. `FinishAgain` is the exception handler that calls
`finish` again when any statement of it failed before the trace was saved. `Unknown` is a cost the provider did not report.

The sums of `HoldsAreBacked` are numbers of micro-dollars, counted as the cardinality of a
set (`Units`), and so are those of `Comparisons` (`Total`); TLC confirms on small functions that
this is the sum.

A key in `ApplicationKeys` is a chain of immutable versions; `issue` chooses the grants in
one step and writes verifier, record and budget in one later transaction, before which
the process may die.

### DeploymentHealth

`open_until` and `probe_until` are kept as time left, so the clock needs no bound;
`failures` stops at the highest threshold, the largest value the code compares with.
Every observation uses the threshold and cooldown of the policy of the call that made
it, although the row is shared: the circuit is open only during a streak long enough
for some policy and always during one long enough for all (`OpenByStreak`). `Vanish` is
a call that acquired and is never observed.

### GatewayInference, GatewayStream, SseStream

`GatewayInference`: several HTTP calls present one key; the one whose insert registers
the request becomes its worker and goes through the pinned configurations, with repairs
on each, authorization, circuit, holds, send and accounting as separate steps. The
operator disables the policy, replaces the pins or revokes the key, the deadline
passes, the client leaves and the process dies at any step. `Plans` is the set of
pinned stages (fallbacks, repairs, caps, `fallback_on`).

The store refuses an output above 64 KiB (`execution_storage.py:619`), and a provider's
answer may be larger. `OutputRefused` is that refusal in the exception handler of
`_infer_once`, where it comes before `finish`: the attempt stays `dispatched` and its holds
are never settled, while the request goes on to a fallback or its end.
`AccountedWhenSettled` names this exception and admits no other. `AnswerRefused`, in both
modules, is the same refusal of a successful answer; the attempt has been accounted then,
and the request ends `uncertain`. In `GatewayStream` the client has seen deltas of such an
answer (`exposed`).

`GatewayStream`: the async generator with its yields (the client may be gone at each),
the key and policy re-read before each chunk, the collector's verdict, and the HTTP
side. `Orderly` restricts upstream events to well-formed orders (for the liveness run);
the safety run takes every order. `SseStream` is below it: `exchange` cuts the bytes
into blocks anywhere, and the decoder must not notice.

### StageAuthority and Selection

Evidence has an interval of validity, and every check reads the clock anew. `Selection`
compares the bounded search with an unbounded one (the best mapping over all eligible
configurations), and asks of a compiled draft that its configurations passed every mandatory
check when compiled. `StageAuthority` has overlapping calls over the cache
of selection results (the lock is released while the selector runs), and, as a part of
its own in `MCEvidence`, every small deployment and request for `preflight`, against the
largest charge the request could cause. Prices are in fractions of a micro-dollar.

### PlanningJobs and PlanSubmissions

One row of `jobs` as status, attempts and the payload's accounting field; `call` is
`provider_calls` by the attempt that reserved them; `leaseLeft` is what remains of the
60 s after `updated_at`. Every read is a step of its own: `claim` is `ClaimSelect`,
`ClaimCount` and `ClaimTake`, `ClaimClose` or `ClaimLost`; `phase` is
`PhaseCheck`/`PhaseRead`/`PhaseWrite`; the end of `PlanningService.run` is
`FinishCheck`/`FinishRead`/`FinishWrite`; its handler is
`ExceptRead`/`ExceptCount`/`FailWrite`; the paid call is `BuildAdapter` to `AccountWrite`.
What a plan contains does not matter to the row, so interpretation, research and
selection are the choice between another phase, the paid call, the local model, an
exception and the end. `PlanSubmissions` has the requests that create plans, versions
and jobs: their `SELECT`s are steps of their own, the `INSERT`s one step with their
unique keys.

### PolicyLifecycle, PolicyEdits, Comparisons, ResearchRun

`PolicyLifecycle`: sessions draft revisions, decide transitions on a head row and move
aliases; a request reads alias, head, revision and admission one after the other.
`PolicyEdits` takes a policy to its stages, pins, repairs, attempts and prompts, and
derives the next revision; of a requested prompt template it knows whether its
placeholders are the variables of the prompt (`misfits`). Such a template, an output
schema, and a prompt that stages share are the only reasons for an edit to fail after its
checks (`EditsValidate`). In `Comparisons` a run's output is the number of its
checkpointed stages, and a cell's checks are the output they were computed from.
In `ResearchRun` a source is its version and a claim is what it was read from. A
repository has at most one capability and one deployment specification. With several, one
that fails need not leave an issue: `run` drops the roles' partial ones and computes
coverage per artifact (`research/service.py:183-201`); `PublishedIsComplete` says nothing
about that.

## Runs

A property of a run is often the conjunction of the properties of one component; each
part is stated and explained in the component's module, and has wrong variants of the
code that violate it (`PROJECT.json`, mutants).

| Run | Instance | Properties (and their parts) |
|---|---|---|
| `queue` | 2 runs, 2 keys, 2 contents, 2 workers, `Ttl` 1, `Lease` 2, clock to 4, 1 crash | `OneOwner` (`OneRunPerKey`, `ClaimedOnce`, `SoleWorker`), `AtMostOneLateWave`, `LedgerAgrees`, `SettledIsFinal` |
| `budget` | 2 callers, 2 attempt ids, caps 2 (admission), 3 (key) and 1 per minute, 2 minutes, reserved costs to 2, reported costs to 3 or unknown | `LimitsHold` (`HeldWithinCap`, `WindowCountsAttempts`), `HoldsCoverSpend` (`HoldsAreBacked`, `SpendWithinHold`), `DispatchedOnce`, `LedgersAgree`, `SpentStaysSpent` (`NeverRefund`, `FrozenForGood`) |
| `planning` | 2 workers, 2 attempts, lease 1, 2 calls in the budget, 1 phase, 1 crash | `Fenced` (`OneWorkerPerAttempt`, `FreshRecommendation`), `AccountedSuccess`, `TerminalIsFinal`, `EveryJobEnds` |
| `inference` | 1 call over stages with up to 2 fallbacks, 2 repairs, 3 attempts, two caps and two `fallback_on` lists; 2 calls with one key and equal or different bodies | `AttemptsAreBounded` (`SpendWithinStage`, `LoopNeverRunsOut`), `AtMostOneLateSend`, `RequestsAreAccounted` (`OneWorkerPerKey`, `AccountedWhenSettled`, `OpenOnlyByCrash`), `ImplementsLifecycle`, `EveryRequestSettles` |
| `executions` | a stream over 2 configurations with any order of upstream events; byte streams of up to three parts, whole or cut short, in blocks of up to 4; a run of 2 stages with its worker and a canceller | `StreamSafety` (`OneModelPerAnswer`, `DoneIsAccounted`, `AccountedAtEnd`, `AtMostOneLateChunk`, `OpenOnlyByEscape`), `DecodingIsExact` (`OutputIsPrefix`, `ObservedIsComplete`, `CompleteIsAccepted`), `RecordsAgree` (`OutcomeIsTheSettlement`, `NewestRecordAgrees`, `EventsWithinPage`), `ImplementsLifecycle`, `RecordsEndure` (`AppendOnly`, `EveryRunSettles`) |
| `progress` | 4 calls of a strict (1 failure) and a tolerant (3 failures) policy; 1 run, 2 workers, 1 crash; a stream; a research run | `CircuitSafety` (`OpenByStreak`, `ClosedRefusesNobody`, `OneUndisturbedProbe`), `NeverBanned`, `WorkEnds` (`EveryRunSettles`, `InputIsDeleted`, `EveryStreamEnds`, `EveryRunEnds` of research) |
| `control_plane` | 2 users on policies (2 revisions, 2 contents, 2 admissions), keys (2), edits (three families of policies), submissions (2 keys, 2 plans, quota 1), comparisons (2 policies, 1 sample) | `PolicySafety` (`SequentialRevisions`, `GaplessHistory`, `EnabledWasAdmitted`, `AuthorizedWasLive`, `AuthorizedAsPinned`), `KeySafety` (`RevocationIsFinal`, `AuthorityNeverGrows`, `KeyIsBudgeted`), `EditSafety` (`ExcludedIsGone`, `KeptIsKept`, `NewModelsAreEligible`, `EditsValidate`), `SubmissionSafety` (`OneSubmissionPerVersion`, `RevisionsAreLinear`, `AnswerIsForRequest`, `OldExportsFail`, `QuotaOverrun`, `PolicyHasPlan`), `ComparisonSafety` (`ChildrenAreTracked`, `WithinEnvelope`, `CompletedAccountsForAll`), `RecordsStay` (`Immutable`, `OneRevocation`, `FinalCellsStay`, `ChecksNeverLost`) |
| `evidence` | 2 research runs over changing recordings, 4 reads, 1 retry; 3 configurations in 11 shapes under 4 workflows; 2 overlapping authorizations; all small deployments and requests in preflight | `ResearchSafety` (`PublishedIsComplete`, `LedgerBeforeCatalog`, `MergeIsValid`, `OneLateReadPerRole`), `SearchSafety` (`SearchIsOptimal`, `UnknownPriceLast`), `AuthoritySafety` (`CacheIsFresh`, `AuthorizedIsCurrent`, `RefusalIsCurrent`, `ReservedCoversCharge`), `DraftIsAdmissible` |
| `planning_stale_commit`, `planning_paid_twice`, `circuit_one_probe`, `stream_settled` | as above | violations, below |

The conjunctions named `...Safety` (but `CircuitSafety`), `AttemptsAreBounded`, `DecodingIsExact` and
`RecordsAgree` include the type invariant of their module.

### Bounds

Two workers, sessions or callers are all a race over a row needs: one that has read
and one that writes in between; a third only repeats the second. In `queue` the clock
runs far enough for a submission to be claimed, its lease to run out and a sweep to
follow it (`MaxSubmit + Ttl + Lease`). In `budget` the second attempt of a minute is
refused by the window and that of the next minute meets the caps of key and admission;
two attempts reach every refusal, a duplicate id, and an overage on a budget with
another hold on it. Thresholds 1 and 3 let a streak that is long enough for one policy
be too short for the other; four calls are two old ones and two probes. Two attempts of
a job are a stale worker and its successor; the limit of three claims in the code is
the parameter `MaxAttempts`. Two fallbacks, two repairs and three attempts are the
limits of the contracts themselves. The recorded sources of `ResearchRun` change once
between two runs, and four reads are fewer than the roles want, so the shared budget
runs out in every role. `QuotaOverrun` bounds the overrun of the pending quota by the
number of submissions between count and insert, which is what two clients can show.

### Fairness

* `planning` and the queue part of `progress`: time passes, and *one* worker process
  keeps polling, as the loop of `worker.main` does, and is restarted when it dies.
  Workers are interchangeable, so it may be `w1`. All others may stop for ever.
* `inference`, and the stream part of `progress`: the serving coroutine goes on until its
  process dies, and the deadline passes; provider calls are bounded by
  `asyncio.timeout`. `EveryRequestSettles` excludes a crash: nothing sweeps chat
  requests, and `OpenOnlyByCrash` says that nothing else leaves one open.
* The circuit needs only the clock. Research needs its own threads and its deadline;
  no source is assumed to answer.
* `executions`: a worker that lives goes on, and the run of one that died is swept
  (which `queue` and `progress` establish).

Clients, operators and providers need not act in any run. `CHECK_DEADLOCK` is off in
`inference`, `executions`, `progress`, `control_plane`, `evidence` and `stream_settled`,
whose requests, runs or users end and leave nothing to do; it is on in the others.

### Refinement

`GatewayInference` and `GatewayStream` each instantiate `RequestLifecycle` with a
refinement mapping (`ImplementsLifecycle`): the row of the request, and the number of
calls sent to providers. Every step of the handlers is a lifecycle step or a stutter
(checked, and proved as `RefinesLifecycle` in `GatewayInferenceProofs` and
`ExecutionsProofs`), so a duplicate never begins a request again, nothing is sent for a
request that is not running, and no settled request changes.

## Where code and documents disagree

Shown by a run:

* `planning_stale_commit`. `storage.py:90`: "CAS claim and attempt token prevent stale
  workers from committing." `planning.py:465-466` checks the claim, then reads the row
  again and completes with *that* row. If another worker claims between the two, the
  superseded worker holds the new attempt number and its commit succeeds.
  `FreshRecommendation`, proved, is the statement for recommendation jobs, which pass
  the row they claimed.
* `planning_paid_twice`. `docs/handoffs/04-integration.md:50-51`: "Recovery after any paid
  reservation requires reconciliation, including a crash after known accounting but
  before result persistence." `claim` counts the provider calls before a
  compare-and-swap on status and attempts only, so a call that a stalled worker makes in
  between is missed and the next attempt pays again. `AccountedSuccess` is what does
  hold: a call that is still open stops the next claimant before it plans.
* `circuit_one_probe`. `docs/OPEN_WEIGHT_ROUTER_ARCHITECTURE.md:210-211`: "An atomic lease
  allows one recovery probe after cooldown." `observe` clears the lease for every call's
  observation. `OneUndisturbedProbe`, proved, is what does hold.
* `stream_settled`. `tests/gateway/test_unblock.py:249` asserts that a stream without
  success leaves its request `uncertain`, and the non-streaming path settles on every
  exception. The deadline check between two configurations (`gateway/service.py:768`) is
  outside the `try` block: the request stays `running` for ever. `OpenOnlyByEscape` says
  that this and a crash are the only ways.

Kept as definitions in the modules, refuted by TLC when named as an `INVARIANT`:

| Definition | The text | The code |
|---|---|---|
| `GatewayStream.KnownUsageReconciled` | `docs/API_COMPATIBILITY.md:81`: "Actual usage is reconciled when known" | a stream that fails after its terminal observation is finished without it (`gateway/service.py:748`) |
| `RunRecords.CheckpointsKept` | `gateway/runner.py:348`: "Durable checkpoint before next frontier." | cancel saves the copy it read before the checkpoint (`gateway/runner.py:149`) |
| `RunRecords.OutcomeForEveryEnd` | `docs/OPEN_WEIGHT_ROUTER_ARCHITECTURE.md:240`: "Terminal workflow executions append content-free `ExecutionOutcome` observations" | a cancel between the read and the advance of the request ends `submit` before it records one (`gateway/runner.py:398`) |
| `GatewayInference.EveryAttemptAccounted` | `docs/OPEN_WEIGHT_ROUTER_ARCHITECTURE.md:186`: "Failed output validation remains visible and accounted." | a rejected output above 64 KiB is refused by the store (`gateway/service.py:427`) before `finish` runs (`gateway/service.py:458`): the attempt stays `dispatched` |
| `PolicyEdits.OtherPinsKept` | `execution_policy.py:27`: "Explicit stage edits keep every other pin unchanged." | an edit empties the fallbacks of every model stage (`execution_policy.py:111`) |
| `Selection.SelectionIsEligible` | `tests/gateway/stakeholder_setup.py:137`: "assert selected in rec.filter_result.eligible" | the stored filter result is computed after the search, with a later clock (`intelligence/selection/engine.py:419`) |
| `Comparisons.ChecksMatchOutput` | `sample_checks.py:13`: "Workflow outputs have an explicit result envelope; expected_output describes its value." | a cell may keep the checks of an intermediate output (`execution_comparisons.py:111`) |

Most of these need a process that stalls between two statements, or a clock that
passes an expiry there.

## Proofs

All theorems are of the form `Spec => []P`, `Spec => [][A]_v` or `Spec => Abstract!Spec`, for
every value of the constants that satisfies the named assumptions. Since the bounds are
arbitrary naturals, they cover any clock and any number of crashes, phases and
submissions. The assumptions, each next to its constants: positive leases, thresholds
and cooldowns, natural bounds, finitely many attempt ids; the pinned stages are ones that
the contracts and preflight admit (`PlansAssumption`), and there is a request body
(`BodyAssumption`); versions are `1 .. n`; the compared policies, the samples and the sessions
of studio users are finitely many (`ComparedAssumption`, `SubmissionsAssumption`); edits are requests and valid policies over `1 .. n`
configurations (`EditsAssumption`); the worker is not one of the cancellers
(`RunsAssumption`); configurations are numbered `1 .. n`, and prices, limits and instants are
natural numbers where they are known (`SelectionAssumption`, `AuthorityAssumption`); `None` is none of the values it stands beside
(`NoneAssumption` and others). In each module a theorem `Inductive`, or lemmas for `Init`
and for each kind of step, establish the inductive invariant, and the properties are
read off it.

* **RuntimeQueue** (`OneOwner`, `LedgerAgrees`, `AtMostOneLateWave`, `SettledIsFinal`).
  `IndInv` joins the tables to what a worker holds. `ClaimedOnce` alone is not
  inductive: that a row still queued was never claimed (`ClaimInv`), that a sweep's
  snapshot names existing rows (`SnapshotInv`), and that a worker holding a run knows its
  row has left the queue (`HolderInv`) make it so. `LateInv` adds that after a late wave
  nobody is about to dispatch another, which is why one is the limit. `SettledIsFinal`
  follows from a case analysis of every write of a request.
* **SandboxBudget** (`LimitsHold`, `HoldsCoverSpend`, `DispatchedOnce`, `LedgersAgree`,
  `SpentStaysSpent`). `HoldsInv` says which holds a caller has taken at each step,
  `OwnerInv` that only one caller is past an attempt's first hold (its unique key),
  `SentInv` that it has not been sent before; together they give `DispatchedOnce`.
  `SettleInv` describes how far apart the two reconciliations may be and gives
  `LedgersAgree`. `WindowCountsAttempts` counts a finite set that grows by one element.
  `HoldsAreBacked` is inductive with the caps: a new row adds its amount to the sum of one
  budget (`TotalAdds`), and on a frozen budget, which is full, only an amount of zero
  fits; that is also why a freeze lasts. `SpendWithinHold` follows, since a reconciled row
  never records more than it reserved (`RowsInv`, `TotalMonotone`).
* **DeploymentHealth** (`CircuitSafety`). The conjunction of the three properties with the
  type invariant is inductive, for any threshold and cooldown of each call.
* **PlanningJobs** (`Fenced`, `TerminalIsFinal`, `AccountedSuccess`). `WorkStep` states once
  what any step of a worker does: attempts only grow, a terminal status stays, other
  workers' locals are untouched, and a claimed step is entered only with the next attempt
  number. Each action is shown to be such a step; `OneWorkerPerAttempt` follows because
  every held token is at most the row's attempts (`AdapterInv`). `ReadInv` records what
  earlier reads can still say, which is what keeps terminal rows terminal. `PathInv`
  separates recommendations from planning. `AccountedSuccess` needs `CallInv`: a worker
  reserves under its own claim only, and the latest claimant leaves no call open but the
  one it waits for. A superseded worker may still reserve nothing, because the check
  after it read the row compares the attempt it claimed.
* **GatewayInference** (`AttemptsAreBounded`, `AtMostOneLateSend`, `RequestsAreAccounted`,
  `ImplementsLifecycle`). `WorkerInv` says that one call works on the request, in the state
  its step expects; `ReplayInv` that only the bound body is answered; `LoopInv` that every
  attempt but the first is a fallback or a repair, so the attempts of the contract are
  enough; `RecordInv` gives each attempt's record at each step, with the one
  whose rejected output was refused as the only earlier record that is not final (`Closed`). `SpendWithinStage` is not
  inductive: `SpendInv` bounds what is reserved after `n` configurations and `r` repairs by
  the part of the checked envelope that they make up (`Allowance`), and
  `AllowanceFacts` shows how it grows. `LateInv` says that after a late send nobody is past
  a check that the change of authority would stop. The refinement maps each step from
  `WorkerInv` and `SendInv` (at most three sends, none unless running).
* **GatewayStream** (`StreamSafety`, `ImplementsLifecycle`). `RequestInv` and `RecordInv` tie the
  request and the attempts to the generator's step; in the handler the request may already
  be terminal, but only after an interruption. `ShownInv` says that the client has seen the
  current configuration only, and that the generator then knows it, which is why there is
  no fallback after a chunk. `LateInv` and `SendInv` are as above.
* **PolicyLifecycle** (`PolicySafety`, `Immutable`). `SessionInv` says that what a session has
  read is still true when it commits, because revisions and records are never replaced;
  the head's compare-and-set does the rest. `RequestInv` connects what a request has read
  at the head with whether the alias was live since the request arrived: the history
  variable `never` alone is not inductive. That a set of versions has a least and a greatest
  member comes from the well-founded order of the naturals (`WFMin`).
* **ApplicationKeys** (`KeySafety`, `OneRevocation`), as the instance `Key` of `ControlPlane`:
  `PlaneKeys` shows that the composition changes keys by its steps only.
  `ChainInv` says that a key's chain is empty, an issued version, or that and a revocation,
  which every acknowledged revocation has; `IssuerInv` that an unsaved key belongs to one
  session and that a revocation under way goes on from version 1; `BearerInv` that a
  request marked late has a key whose revocation was acknowledged, so it cannot be
  authenticated. Issuing and revoking are first shown to be one kind of write (`WritesKey`).
* **PlanSubmissions** (`SubmissionSafety`), as the instance `Submissions`. `VersionInv` says that the
  versions of a plan are `1 .. n`, each with what its request asked for, `BindingInv` that each
  is bound to one key and a key to a stored version, `JobInv` that pending jobs are those of
  submissions. `ClientInv` says that what a
  request has read stays true, because versions are only added, and that a plan about to be
  published is nobody else's (`Apart`). `QuotaInv` counts pending jobs together with the
  requests past the count. Every action either stores a version (`StoreStep`) or moves one
  request (`MoveStep`), and the invariant is shown for these two kinds of step.
* **Comparisons** (`ComparisonSafety`, `FinalCellsStay`, `ChecksNeverLost`), as the instance
  `Compare`. `RunsInv` says that each stored cell describes its run as it was at some time
  (`GoodCell`), `CallersInv` the same of the cells a caller has in hand, and that they follow
  the stored ones (`Follows`), since runs only move forward (`Later`); the newest revision is the one they started from or
  their write is refused, so a late writer cannot take a final cell back. `SaverInv`: one caller registers the comparison and saves its
  first revision; a child is started only under a saved comparison whose envelope was checked. `WithinEnvelope` is a comparison of two counts: the units of the children's costs
  are mapped one to one to units of the policies' costs paired with samples.
* **PolicyEdits** (`EditSafety`), as the instance `Edits`. `EditInv` adds to the properties that the
  newest revision is a policy record. `NewConfig` says which configuration an edited stage
  gets: its own, a pinned one, or the cheapest of those that are eligible and not excluded.
  The validation of what `variant` derives cannot fail (`TypeOK` contains `Executable`):
  without fallbacks the pins are distinct, and its prompts are those of the policy before.
* `RecordsStay` of `ControlPlane` is the conjunction of the four action properties above
  (`RecordsAreKept`).
* **RunRecords** (`RecordsAgree`, `AppendOnly`), as the instance `Records` of `Executions`, for any
  number of stages, attempts and cancellers. `RunInv` is inductive. `CancelInv`: one
  cancellation at most is ever written, because the compare-and-set of the request lets one
  caller through. `WorkerInv`: once the worker's copy is final it agrees with the request,
  and so does the outcome. `WaveInv` and `EventInv` count: at each place of the worker the
  events stay below a `Limit`, plus one for the cancellation, which is owed from the moment the
  request is cancelled (`Credit`) and paid when its event is inserted. `NewestInv` is the
  reason that the newest record shows the request: what another has appended since the
  worker read the latest version is the cancellation's, so either the worker's append is
  refused, which ends the run with an exception, or its record is the last.
* **ResearchRun** (`ResearchSafety`). `RoleInv` says which roles are at work and on what,
  `ClaimsInv` that what was collected is what the recordings give, `CacheInv` the same for
  the cache. `PublishedIsComplete` needs `ProgressInv`: of every specification a role still
  has it to do, or has its claim or its issue, or some role was stopped, in which case
  nothing is published. The reads of all roles are first shown to be one kind of step
  (`Turn`).
* **Selection** (`SearchSafety`, `DraftIsAdmissible`), as the instance `Select` of `Evidence`,
  for any catalog, workflow and positive bounds. `SearchIsOptimal` is about an exponential
  set of mappings, and about positions that `CHOOSE` picks. The proof finds the best one:
  `One` gives every stage the configuration ranked first (`RankedFacts`), it comes first
  in the enumeration (`OneComesFirst`), so that no bound can cut it off, and its score is the
  least of all (`OneScoresBest`), so the search finds it (`SearchFinds`). A compiled draft
  passed the checks at that instant, and each supported check is one of the
  requirements (`CompiledMeets`).
* **StageAuthority** (`AuthoritySafety`), as the instance `Authority` of `Evidence`, for any callers,
  keys, catalogs, deployments, time to live and capacity. `CacheIsFresh` alone is not inductive: an entry is
  built from what each configuration was at a different instant. `GoodCall` says for each step what a call
  has seen since it read the clock (`WasCurrent`, `WasNotCurrent`), and `GoodEntry`
  what an entry keeps of that: its deadline is before every expiry, every record has been
  observed, and what it excludes has expired. From that a hit has a witness between the
  clock the call read and now (`EntryAnswers`), even for an entry that another call wrote
  later than that. `OrderInv` ties the keys of the cache to their order
  (`MovedToEnd`, `BoundedOrder`). `ReservedCoversCharge` is `RoundedUp` and `CostGrows`.
  It needs that a request asks for at least one token, as its contract says
  (`execution_contracts.py:543`): with none, an admitted prompt could exceed the context.

Only model-checked: the liveness properties and everything under fairness, and `SseStream`,
whose decoder folds over sequences of bytes, so that `DecodingIsExact` would need induction
over data.

## Not modelled

* Workflow interpretation, HTTP parsing, authentication of studio users, contracts
  (validation of single values), migrations and the web UI keep no state that processes
  share. What they produce (a refusal, an input, a deadline) is an input of the models.
* The optimizer's scoring of workload profiles (`intelligence/optimization.py`) and the
  normalizers of captured pages are arithmetic and text over one input; `ResearchRun`
  takes a page to be usable or not.
* The buffered adapter calls, sockets, DNS pinning and TLS: their outcome is a choice in
  `GatewayInference`.
* Two effects are in the models without a property that forbids them, because no text
  of the repository does: a crash of `Comparisons.submit` before its first revision leaves
  the idempotency key registered, and a repeated request finds no comparison
  (`Latest`); the cancel of a planning job writes back the accounting column it read
  (`CancelWrite`), so a call reserved in between is only visible in `provider_calls`.

## Plan

1. A composition of `GatewayInference` with `SandboxBudget` over one table of
   reservations, if its state space allows.
