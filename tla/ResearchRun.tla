----------------------------- MODULE ResearchRun -----------------------------
(***************************************************************************)
(* Public research: PublicResearch.run (research/service.py), the bounded  *)
(* reader and its shared budget (research/bounds.py), the three roles      *)
(* (research/jobs.py) and the publication of a snapshot                    *)
(* (research/catalog.py).  Artifact discovery runs first; then the         *)
(* capability and the deployment role run in two threads over one budget.  *)
(* Between runs the recorded sources may be replaced, dropped or grow old, *)
(* and the ledger of the last run is a cache.                              *)
(*                                                                         *)
(* A source is its version; a claim is what it was read from and the       *)
(* artifact it is about.  Every claim of one source has one expiry here.   *)
(* A role takes its specifications in any order; no endpoint list is empty.*)
(* A repository has at most one specification of a kind, so the coverage   *)
(* that run computes again for each artifact is that of its specification. *)
(***************************************************************************)
EXTENDS Naturals, Sequences, FiniteSets

CONSTANTS
    Repos,          \* plan.artifacts.repositories
    Capabilities,   \* the repositories with a capability specification
    Deployments,    \* the repositories with a deployment specification
    MaxCalls, MaxRetries,   \* Limits
    MaxVersion,     \* bound: recordings of one source
    MaxChanges,     \* bound: changes of the recorded sources
    MaxRuns,        \* bound: runs of the service
    None

ASSUME PlanAssumption ==
    Capabilities \subseteq Repos /\ Deployments \subseteq Repos /\ None \notin Repos
ASSUME LimitsAssumption ==
    /\ MaxCalls \in Nat /\ MaxRetries \in Nat /\ MaxVersion \in Nat \ {0}
    /\ MaxRuns \in Nat /\ MaxChanges \in Nat

VARIABLES
    source, age,    \* the recorded captures and whether their evidence is current
    cancelled, elapsed,     \* the cancellation event; the run's deadline has passed
    phase,          \* where run is
    calls,          \* BudgetLedger._calls
    role,           \* what each role is doing
    found,          \* the version of each artifact found, 0 for none
    claims, issues, \* collected so far
    cache,          \* the ledger behind self.cached
    draft,          \* the ledger being published
    ledgers, catalogs,      \* the stored objects, by content
    runs, changes,  \* bounds
    late            \* history: reservations a role made after the cancellation

store == <<ledgers, catalogs>>
world == <<source, age, cancelled, elapsed>>
vars == <<world, phase, calls, role, found, claims, issues, cache, draft, store, runs, changes, late>>

-----------------------------------------------------------------------------
Kinds == {"artifact", "capability", "deployment"}
Urls == {"hub", "card", "model", "endpoint"}

\* The sources a specification is read from, in this order.
Reads(kind) == CASE kind = "artifact" -> <<"hub">>
                 [] kind = "capability" -> <<"card">>
                 [] kind = "deployment" -> <<"model", "endpoint">>

Version == 0 .. MaxVersion      \* 0: not captured
Claim == [kind : Kinds, repo : Repos, read : Seq(Version), subject : Version]
Stops == {"cancelled", "timeout", "budget"}     \* stop_issue
Issue == [kind : Kinds, repo : Repos, status : Stops \cup {"unusable"}]
Ledger == [source : [Repos -> [Urls -> Version]], claims : SUBSET Claim, issues : SUBSET Issue]

Idle == [at |-> "idle", todo |-> {}, repo |-> None, step |-> 1, tries |-> 0]
RoleState ==
    [at : {"idle", "next", "capture", "check", "reserve", "wait", "ended"}, todo : SUBSET Repos,
     repo : Repos \cup {None}, step : 1 .. 2, tries : 0 .. MaxRetries]

IsLedger(l) ==
    /\ l.source \in [Repos -> [Urls -> Version]]
    /\ \A c \in l.claims : c \in Claim
    /\ l.issues \subseteq Issue

TypeOK ==
    /\ source \in [Repos -> [Urls -> Version]]
    /\ age \in [Repos -> [Urls -> {"future", "fresh", "expired"}]]
    /\ cancelled \in BOOLEAN /\ elapsed \in BOOLEAN
    /\ phase \in {"idle", "artifact", "roles", "ledger", "catalog"}
    /\ calls \in 0 .. MaxCalls /\ role \in [Kinds -> RoleState]
    /\ found \in [Repos -> Version]
    /\ \A c \in claims : c \in Claim
    /\ issues \subseteq Issue
    /\ \A l \in {cache, draft} : l = None \/ IsLedger(l)
    /\ \A l \in ledgers \cup catalogs : IsLedger(l)
    /\ runs \in 0 .. MaxRuns /\ changes \in 0 .. MaxChanges /\ late \in [Kinds -> Nat]

Init ==
    /\ source = [r \in Repos |-> [u \in Urls |-> 1]]
    /\ age = [r \in Repos |-> [u \in Urls |-> "fresh"]]
    /\ cancelled = FALSE /\ elapsed = FALSE /\ phase = "idle" /\ calls = 0
    /\ role = [k \in Kinds |-> Idle]
    /\ found = [r \in Repos |-> 0] /\ claims = {} /\ issues = {}
    /\ cache = None /\ draft = None /\ ledgers = {} /\ catalogs = {}
    /\ runs = 0 /\ changes = 0 /\ late = [k \in Kinds |-> 0]

-----------------------------------------------------------------------------
(* The world: run reads a fixed set of recordings at a fixed "now" *)

\* A new recording, a dropped one, evidence growing old, a recording dated ahead.
Rerecord(r, u) ==
    /\ phase = "idle" /\ changes < MaxChanges
    /\ \/ /\ \E v \in Version \ {source[r][u]} : source' = [source EXCEPT ![r][u] = v]
          /\ \E a \in {"fresh", "future"} : age' = [age EXCEPT ![r][u] = a]
       \/ age[r][u] # "expired" /\ age' = [age EXCEPT ![r][u] = "expired"] /\ UNCHANGED source
    /\ changes' = changes + 1
    /\ UNCHANGED <<cancelled, elapsed, phase, calls, role, found, claims, issues, cache, draft, store, runs, late>>

Cancel ==
    /\ ~cancelled /\ cancelled' = TRUE
    /\ UNCHANGED <<source, age, elapsed, phase, calls, role, found, claims, issues, cache, draft, store, runs, changes, late>>

Deadline ==
    /\ phase # "idle" /\ ~elapsed /\ elapsed' = TRUE
    /\ UNCHANGED <<source, age, cancelled, phase, calls, role, found, claims, issues, cache, draft, store, runs, changes, late>>

-----------------------------------------------------------------------------
(* Cached evidence *)

\* The claims of the cached ledger on specification (kind, r) about artifact version v.
Rows(kind, r, v) ==
    IF cache = None THEN {} ELSE {c \in cache.claims : c.kind = kind /\ c.repo = r /\ c.subject = v}

\* _fresh looks at a row's sources in order: one that was dropped raises, unless an earlier
\* one already made the row unusable.
Current_AnyDigest(c, i) == source[c.repo][Reads(c.kind)[i]] # 0 /\ age[c.repo][Reads(c.kind)[i]] = "fresh"
Current(c, i) ==
    /\ source[c.repo][Reads(c.kind)[i]] = c.read[i]
    /\ age[c.repo][Reads(c.kind)[i]] = "fresh"
Fresh(rows) == rows # {} /\ \A c \in rows : \A i \in DOMAIN c.read : Current(c, i)
Raises(rows) ==
    \E c \in rows : \E i \in DOMAIN c.read :
        /\ source[c.repo][Reads(c.kind)[i]] = 0
        /\ \A j \in 1 .. i - 1 : Current(c, j)

\* What the cache holds for a repository, whatever version of the artifact it is about.
CachedArtifact(r) == UNION {Rows("artifact", r, v) : v \in Version}

-----------------------------------------------------------------------------
(* run, up to the first role *)

\* The run returns or raises: budget, reader and partial results are its own.
EndRun ==
    /\ phase' = "idle" /\ role' = [k \in Kinds |-> Idle] /\ calls' = 0 /\ elapsed' = FALSE
    /\ found' = [r \in Repos |-> 0] /\ claims' = {} /\ issues' = {} /\ draft' = None
    /\ late' = [k \in Kinds |-> 0]

Start ==
    /\ phase = "idle" /\ runs < MaxRuns /\ ~cancelled
    /\ runs' = runs + 1
    /\ LET reused == {r \in Repos : Fresh(CachedArtifact(r))} IN
        \/ /\ \E r \in Repos : Raises(CachedArtifact(r))
           /\ EndRun
        \/ /\ ~\E r \in Repos : Raises(CachedArtifact(r))
           /\ phase' = "artifact"
           /\ claims' = UNION {CachedArtifact(r) : r \in reused}
           /\ found' = [r \in Repos |-> IF r \in reused THEN source[r]["hub"] ELSE 0]
           /\ role' = [role EXCEPT !["artifact"] = [Idle EXCEPT !.at = "next", !.todo = Repos \ reused]]
           /\ UNCHANGED <<elapsed, calls, issues, draft, late>>
    /\ UNCHANGED <<source, age, cancelled, cache, store, changes>>

\* check, at the beginning of run.
StartRefused ==
    /\ phase = "idle" /\ runs < MaxRuns /\ cancelled
    /\ runs' = runs + 1
    /\ UNCHANGED <<world, phase, calls, role, found, claims, issues, cache, draft, store, changes, late>>

-----------------------------------------------------------------------------
(* One role: read each specification's sources through BoundedReader.call *)

Step(k, state) == role' = [role EXCEPT ![k] = state]
Item(k) == role[k]
Url(k) == Reads(k)[Item(k).step]

\* The specification in hand is done with; the role goes on to the next one.
Skip(k) == Step(k, [Item(k) EXCEPT !.at = "next", !.repo = None, !.step = 1, !.tries = 0])
Note(k, status) == issues' = issues \cup {[kind |-> k, repo |-> Item(k).repo, status |-> status]}
Stop(k, status) == Note(k, status) /\ Step(k, [Item(k) EXCEPT !.at = "ended"])
Unusable(k) == Note(k, "unusable") /\ Skip(k)

Pick(k) ==
    /\ Item(k).at = "next"
    /\ \/ /\ Item(k).todo = {} /\ Step(k, [Item(k) EXCEPT !.at = "ended"])
       \/ \E r \in Item(k).todo :
            Step(k, [Item(k) EXCEPT !.at = "capture", !.repo = r, !.todo = @ \ {r}])
    /\ UNCHANGED <<world, phase, calls, found, claims, issues, cache, draft, store, runs, changes, late>>

\* read: the destination must have been recorded.  Artifact discovery checks before that too.
Capture(k) ==
    /\ Item(k).at = "capture"
    /\ \/ k = "artifact" /\ cancelled /\ Stop(k, "cancelled")
       \/ k = "artifact" /\ ~cancelled /\ elapsed /\ Stop(k, "timeout")
       \/ source[Item(k).repo][Url(k)] = 0 /\ Unusable(k)
       \/ /\ source[Item(k).repo][Url(k)] # 0 /\ Step(k, [Item(k) EXCEPT !.at = "check"])
          /\ UNCHANGED issues
    /\ UNCHANGED <<world, phase, calls, found, claims, cache, draft, store, runs, changes, late>>

\* BoundedReader.check, before each attempt.
Check_FirstAttempt(k) ==
    /\ Item(k).at = "check"
    /\ \/ cancelled /\ Item(k).tries = 0 /\ Stop(k, "cancelled")
       \/ ~cancelled /\ elapsed /\ Stop(k, "timeout")
       \/ /\ ~(cancelled /\ Item(k).tries = 0) /\ ~elapsed
          /\ Step(k, [Item(k) EXCEPT !.at = "reserve"]) /\ UNCHANGED issues
    /\ UNCHANGED <<world, phase, calls, found, claims, cache, draft, store, runs, changes, late>>
Check(k) ==
    /\ Item(k).at = "check"
    /\ \/ cancelled /\ Stop(k, "cancelled")
       \/ ~cancelled /\ elapsed /\ Stop(k, "timeout")
       \/ /\ ~cancelled /\ ~elapsed
          /\ Step(k, [Item(k) EXCEPT !.at = "reserve"]) /\ UNCHANGED issues
    /\ UNCHANGED <<world, phase, calls, found, claims, cache, draft, store, runs, changes, late>>

\* BudgetLedger.reserve, then the read is submitted.
HasCall_OneMore == calls <= MaxCalls
HasCall == calls + 1 <= MaxCalls
Reserve(k) ==
    /\ Item(k).at = "reserve"
    /\ \/ ~HasCall /\ Stop(k, "budget") /\ UNCHANGED <<calls, late>>
       \/ /\ HasCall /\ calls' = calls + 1 /\ Step(k, [Item(k) EXCEPT !.at = "wait"])
          /\ late' = IF cancelled THEN [late EXCEPT ![k] = @ + 1] ELSE late
          /\ UNCHANGED issues
    /\ UNCHANGED <<world, phase, found, claims, cache, draft, store, runs, changes>>

\* The wait polls the event and the deadline; a slow source is given up, never retried.
GiveUp_OnCancel(k) ==
    /\ Item(k).at = "wait" /\ cancelled /\ Stop(k, "cancelled")
    /\ UNCHANGED <<world, phase, calls, found, claims, cache, draft, store, runs, changes, late>>
GiveUp(k) ==
    /\ Item(k).at = "wait"
    /\ \/ cancelled /\ Stop(k, "cancelled")
       \/ ~cancelled /\ Stop(k, "timeout")
    /\ UNCHANGED <<world, phase, calls, found, claims, cache, draft, store, runs, changes, late>>

\* Only a rate limit is retried, a bounded number of times.
RateLimited(k) ==
    /\ Item(k).at = "wait"
    /\ \/ /\ Item(k).tries < MaxRetries
          /\ Step(k, [Item(k) EXCEPT !.at = "check", !.tries = @ + 1]) /\ UNCHANGED issues
       \/ Item(k).tries = MaxRetries /\ Unusable(k)
    /\ UNCHANGED <<world, phase, calls, found, claims, cache, draft, store, runs, changes, late>>

\* The capability specification names the publisher card of one revision of the artifact.
Extracts(k, r, artifact) == k = "capability" => artifact = 1
ReadOf(k, r) == [i \in DOMAIN Reads(k) |-> source[r][Reads(k)[i]]]
ClaimOf(k, r, artifact) == [kind |-> k, repo |-> r, read |-> ReadOf(k, r), subject |-> artifact]
Subject(k, r) == IF k = "artifact" THEN source[r]["hub"] ELSE found[r]

\* The source answered and check passed; the bytes may differ or not parse.
Answered(k) ==
    /\ Item(k).at = "wait" /\ ~cancelled /\ ~elapsed
    /\ LET r == Item(k).repo IN
        \/ /\ Item(k).step < Len(Reads(k))
           /\ Step(k, [Item(k) EXCEPT !.at = "capture", !.step = @ + 1, !.tries = 0])
           /\ UNCHANGED <<claims, issues, found>>
        \/ /\ Item(k).step = Len(Reads(k)) /\ Extracts(k, r, Subject(k, r))
           /\ claims' = claims \cup {ClaimOf(k, r, Subject(k, r))}
           /\ found' = [found EXCEPT ![r] = Subject(k, r)]
           /\ Skip(k) /\ UNCHANGED issues
        \/ /\ Unusable(k) /\ UNCHANGED <<claims, found>>
    /\ UNCHANGED <<world, phase, calls, cache, draft, store, runs, changes, late>>

-----------------------------------------------------------------------------
(* run, between and after the roles *)

Stopped == cancelled \/ elapsed

\* Which cached claims are reused depends on the artifacts found.
Specs(k) == IF k = "capability" THEN Capabilities ELSE Deployments
Others == {"capability", "deployment"}
CachedSpec_AnyArtifact(k, r) == UNION {Rows(k, r, v) : v \in Version}
CachedSpec(k, r) == IF found[r] = 0 THEN {} ELSE Rows(k, r, found[r])
Reused(k) == {r \in Specs(k) : Fresh(CachedSpec(k, r))}
StartRoles ==
    /\ phase = "artifact" /\ role["artifact"].at = "ended"
    /\ LET broken == \E k \in Others : \E r \in Specs(k) : Raises(CachedSpec(k, r))
           over == \E i \in issues : i.status = "budget" IN
        \/ (Stopped \/ over \/ broken) /\ EndRun
        \/ /\ ~Stopped /\ ~over /\ ~broken
           /\ phase' = "roles"
           /\ claims' = claims \cup UNION {UNION {CachedSpec(k, r) : r \in Reused(k)} : k \in Others}
           /\ role' = [k \in Kinds |-> IF k = "artifact" THEN Idle
                        ELSE [Idle EXCEPT !.at = "next",
                                          !.todo = {r \in Specs(k) \ Reused(k) : found[r] # 0}]]
           /\ UNCHANGED <<elapsed, calls, found, issues, draft, late>>
    /\ UNCHANGED <<source, age, cancelled, cache, store, runs, changes>>

\* Both threads have ended.  A role that stopped early, or evidence from the future, means
\* nothing is published.
MayPublish_NotBudget == \A i \in issues : i.status \notin {"cancelled", "timeout"}
MayPublish == \A i \in issues : i.status \notin Stops
Future(c) == \E i \in DOMAIN c.read : age[c.repo][Reads(c.kind)[i]] = "future"
Merge ==
    /\ phase = "roles" /\ \A k \in Others : role[k].at = "ended"
    /\ \/ (Stopped \/ ~MayPublish \/ \E c \in claims : Future(c)) /\ EndRun
       \/ /\ ~Stopped /\ MayPublish /\ \A c \in claims : ~Future(c)
          /\ phase' = "ledger" /\ role' = [k \in Kinds |-> Idle]
          /\ draft' = [source |-> source, claims |-> claims, issues |-> issues]
          /\ UNCHANGED <<elapsed, calls, found, claims, issues, late>>
    /\ UNCHANGED <<source, age, cancelled, cache, store, runs, changes>>

\* validate_ledger derives every record again from the recordings.
Artifacts(l) == {c \in l.claims : c.kind = "artifact"}
Derived(l, c) ==
    /\ c = ClaimOf(c.kind, c.repo, c.subject)
    /\ \E a \in Artifacts(l) : a.repo = c.repo /\ a.subject = c.subject
    /\ Extracts(c.kind, c.repo, c.subject)
Valid(l) == l.source = source /\ \A c \in l.claims : Derived(l, c)

\* The last check, then publish: the ledger first.  Without an artifact there is no snapshot.
PutLedger_CatalogFirst ==
    /\ phase = "ledger" /\ ~Stopped /\ Artifacts(draft) # {} /\ Valid(draft)
    /\ catalogs' = catalogs \cup {draft} /\ phase' = "catalog"
    /\ UNCHANGED <<world, calls, role, found, claims, issues, cache, draft, ledgers, runs, changes, late>>
PutLedger ==
    /\ phase = "ledger"
    /\ \/ (Stopped \/ Artifacts(draft) = {} \/ ~Valid(draft)) /\ EndRun /\ UNCHANGED ledgers
       \/ /\ ~Stopped /\ Artifacts(draft) # {} /\ Valid(draft)
          /\ ledgers' = ledgers \cup {draft} /\ phase' = "catalog"
          /\ UNCHANGED <<elapsed, calls, role, found, claims, issues, draft, late>>
    /\ UNCHANGED <<source, age, cancelled, cache, catalogs, runs, changes>>

\* put_once of the catalog; the published snapshot becomes the cache.
PutCatalog ==
    /\ phase = "catalog"
    /\ catalogs' = catalogs \cup {draft} /\ cache' = draft
    /\ EndRun
    /\ UNCHANGED <<source, age, cancelled, ledgers, runs, changes>>

\* The process dies; a new one has no cache and a new cancellation event.
Crash ==
    /\ phase # "idle" \/ cancelled
    /\ runs < MaxRuns
    /\ EndRun /\ cache' = None /\ cancelled' = FALSE
    /\ UNCHANGED <<source, age, store, runs, changes>>

-----------------------------------------------------------------------------
Proceed(k) == Pick(k) \/ Capture(k) \/ Check(k) \/ Reserve(k) \/ GiveUp(k)
Read(k) == Proceed(k) \/ RateLimited(k) \/ Answered(k)
Run == StartRoles \/ Merge \/ PutLedger \/ PutCatalog

Next ==
    \/ \E r \in Repos, u \in Urls : Rerecord(r, u)
    \/ Cancel \/ Deadline \/ Start \/ StartRefused \/ Crash
    \/ \E k \in Kinds : Read(k)
    \/ Run

Spec == Init /\ [][Next]_vars

\* Threads run and time passes; no source is bound to answer.
FairSpec ==
    /\ Spec /\ WF_vars(Run) /\ WF_vars(Deadline)
    /\ \A k \in Kinds : WF_vars(Proceed(k))

-----------------------------------------------------------------------------
(* Properties *)

\* A stored catalog always has its ledger, whatever a crash interrupts and however often a
\* run is repeated: publish stores the ledger first and both under the same content.
LedgerBeforeCatalog == catalogs \subseteq ledgers

\* What a ledger is published for: each specification of an artifact has the claim its
\* recording gives, or an issue of its own says why not.
Explained(l, k, r) == \E i \in l.issues : i.kind = k /\ i.repo = r /\ i.status = "unusable"
Holds(l, k, r) ==
    \E c \in l.claims :
        /\ c.kind = k /\ c.repo = r
        /\ \A i \in DOMAIN c.read : c.read[i] = l.source[r][Reads(k)[i]]

Complete(l) ==
    /\ \A r \in Repos : Holds(l, "artifact", r) \/ Explained(l, "artifact", r)
    /\ \A k \in Others : \A r \in Specs(k) :
         Holds(l, "artifact", r) => Holds(l, k, r) \/ Explained(l, k, r)

\* A published snapshot is complete: a role that ran out of budget or time, or was
\* cancelled, never shows as missing evidence.
PublishedIsComplete == \A l \in catalogs : Complete(l)

\* Reused claims and the claims of two concurrent roles always make a ledger that
\* validate_ledger accepts: a stale cache costs reads, never a run.
MergeIsValid == phase = "ledger" => Valid(draft)

\* After the cancellation each role starts at most the one read whose check had passed.
OneLateReadPerRole == \A k \in Kinds : late[k] <= 1

\* What is published is complete, derived from the recordings and stored whole, and a
\* cancelled run stops reading.
ResearchSafety ==
    /\ TypeOK /\ PublishedIsComplete /\ LedgerBeforeCatalog /\ MergeIsValid /\ OneLateReadPerRole

\* Every run ends, whether or not the sources answer.
EveryRunEnds == phase # "idle" ~> phase = "idle"
=============================================================================
