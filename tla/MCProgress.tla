----------------------------- MODULE MCProgress -----------------------------
(***************************************************************************)
(* Progress of deployments, queued runs, streams and research runs.  The   *)
(* four share no state: a behaviour exercises one of them, and the others  *)
(* stay as they began.                                                     *)
(***************************************************************************)
EXTENDS MCDeploymentHealth, Sequences

CONSTANTS w1, w2, r1, k1, h1, NoValue

VARIABLES
    part,        \* what the behaviour exercises
    now, sub, rkey, rhash, deadline, request, queue, claimLease, input, expires, seen,
    wpc, wrun, wnow, wexp, wres, claims, late, crashes,
    fallbackOn, enabled, pinned, keyLive, elapsedHere, row, attempt, observed, pc, cand, event,
    exposed, finish, used, observation, kind, interrupted, http, shown, lateShown, sends,
    escaped, crashed,
    source, age, cancelled, elapsed, phase, calls, role, found, evidence, issues, cache, draft,
    ledgers, catalogs, runs, changes, lateReads

queueVars == <<now, sub, rkey, rhash, deadline, request, queue, claimLease, input, expires, seen,
               wpc, wrun, wnow, wexp, wres, claims, late, crashes>>
streamVars == <<fallbackOn, enabled, pinned, keyLive, elapsedHere, row, attempt, observed, pc,
                cand, event, exposed, finish, used, observation, kind, interrupted, http, shown,
                lateShown, sends, escaped, crashed>>
researchVars == <<source, age, cancelled, elapsed, phase, calls, role, found, evidence, issues,
                  cache, draft, ledgers, catalogs, runs, changes, lateReads>>

Queue == INSTANCE RuntimeQueue WITH
    Run <- {r1}, Key <- {k1}, Content <- {h1}, Worker <- {w1, w2},
    Ttl <- 1, Lease <- 2, MaxTime <- 4, MaxSubmit <- 0, MaxCrashes <- 1,
    lease <- claimLease

Stream == INSTANCE GatewayStream WITH
    Candidates <- {1}, FallbackLists <- {{}}, Orderly <- TRUE, late <- elapsedHere, request <- row

Research == INSTANCE ResearchRun WITH
    Repos <- {r1}, Capabilities <- {r1}, Deployments <- {r1}, MaxCalls <- 4, MaxRetries <- 1,
    MaxVersion <- 2, MaxChanges <- 0, MaxRuns <- 1, claims <- evidence, late <- lateReads,
    None <- NoValue

allVars == <<part, vars, queueVars, streamVars, researchVars>>

MCInit ==
    /\ part \in {"circuit", "queue", "stream", "research"}
    /\ Init /\ Queue!Init /\ Stream!Init /\ Research!Init

InCircuit == part = "circuit" /\ UNCHANGED <<part, queueVars, streamVars, researchVars>>
InQueue == part = "queue" /\ UNCHANGED <<part, vars, streamVars, researchVars>>
InStream == part = "stream" /\ UNCHANGED <<part, vars, queueVars, researchVars>>
InResearch == part = "research" /\ UNCHANGED <<part, vars, queueVars, streamVars>>

MCNext ==
    \/ InCircuit /\ Next
    \/ InQueue /\ Queue!Next
    \/ InStream /\ Stream!Next
    \/ InResearch /\ Research!Next

\* The fairness of each part: time passes; one worker process keeps polling (workers are
\* interchangeable, so it may be w1); the server runs; no source is bound to answer.
MCFairSpec ==
    /\ MCInit /\ [][MCNext]_allVars
    /\ WF_allVars(InCircuit /\ Tick)
    /\ WF_allVars(InQueue /\ Queue!Tick) /\ WF_allVars(InQueue /\ Queue!Work(w1))
    /\ WF_allVars(InStream /\ Stream!Serve) /\ WF_allVars(InStream /\ Stream!DeadlinePasses)
    /\ WF_allVars(InResearch /\ Research!Run) /\ WF_allVars(InResearch /\ Research!Deadline)
    /\ \A k \in Research!Kinds : WF_allVars(InResearch /\ Research!Proceed(k))

\* What is begun ends: an accepted run settles, whatever crashes, and its private input is
\* deleted; a stream ends with its deadline; a research run ends whether or not the sources
\* answer.
WorkEnds ==
    /\ Queue!EveryRunSettles /\ Queue!InputIsDeleted
    /\ Stream!EveryStreamEnds /\ Research!EveryRunEnds
=============================================================================
