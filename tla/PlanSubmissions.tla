--------------------------- MODULE PlanSubmissions ---------------------------
(***************************************************************************)
(* Plans, their versions and the requests that create them                 *)
(* (planning_storage.py, the plan endpoints of api.py): submit, revise,    *)
(* view, export, and the plan a routing decision's draft publishes         *)
(* (routing_service.py), for one owner.                                    *)
(*                                                                         *)
(* Each SELECT is a step of its own: at the isolation the databases run    *)
(* at, what it returned may be stale when the INSERTs of the same          *)
(* transaction follow.  Those are one step, with their unique keys         *)
(* (kind, id, version) and (owner, request_key).  A job is named by the    *)
(* request key that created it; PlanningJobs has what happens to it.       *)
(***************************************************************************)
EXTENDS Naturals, FiniteSets

CONSTANTS
    Clients,
    Keys,          \* idempotency keys
    Plans,         \* identifiers uuid4 gives, each once
    Inputs,        \* contents of a PlanInput
    Quota,         \* pending jobs of an owner: 4 in the code
    MaxVersion,    \* bound: versions of a plan
    None

VARIABLES
    records,       \* plan versions: what was asked for, by (plan, version)
    submissions,   \* the submissions table, by key; a published plan's key is its own
    pending,       \* keys whose job is queued or running
    used,          \* identifiers given so far
    policy,        \* plan of the policy drafted from the routing decision, or None
    pc, call,      \* what each client waits for, and what its request holds
    answer         \* its answer, until its next request

tables == <<records, submissions, pending>>
vars == <<tables, used, policy, pc, call, answer>>

-----------------------------------------------------------------------------
Numbers == 1 .. MaxVersion
\* The digest of a request covers input, plan and prior version; the key is not part of it.
Digest == [input : Inputs, plan : Plans \cup {None}, prior : 0 .. MaxVersion]
Published == [input |-> None, plan |-> None, prior |-> 0]

Nothing == [op |-> None, key |-> None, digest |-> Published, plan |-> None, version |-> 0,
            latest |-> 0, floor |-> 0]

Latest(p) == Cardinality({v \in Numbers : <<p, v>> \in DOMAIN records})

TypeOK ==
    /\ DOMAIN records \subseteq Plans \X Numbers
    /\ \A x \in DOMAIN records : records[x] \in Digest \cup {Published}
    /\ DOMAIN submissions \subseteq Keys \cup Plans
    /\ \A k \in DOMAIN submissions : submissions[k] \in [plan : Plans, version : Numbers]
    /\ pending \subseteq DOMAIN submissions /\ used \subseteq Plans /\ policy \in used \cup {None}
    /\ pc \in [Clients -> {"idle", "lookup", "count", "latest", "insert", "view", "job", "publish", "create"}]
    /\ \A c \in Clients : answer[c] = None \/ answer[c].version \in 1 .. MaxVersion

Init ==
    /\ records = <<>> /\ submissions = <<>> /\ pending = {} /\ used = {} /\ policy = None
    /\ pc = [c \in Clients |-> "idle"] /\ call = [c \in Clients |-> Nothing]
    /\ answer = [c \in Clients |-> None]

With(f, x, y) == [z \in DOMAIN f \cup {x} |-> IF z = x THEN y ELSE f[z]]

Goto(c, step, mine) ==
    /\ pc' = [pc EXCEPT ![c] = step] /\ call' = [call EXCEPT ![c] = mine]
    /\ answer' = [answer EXCEPT ![c] = None]
\* The request ends with a view, or with an error.
End(c, view) ==
    /\ pc' = [pc EXCEPT ![c] = "idle"] /\ call' = [call EXCEPT ![c] = Nothing]
    /\ answer' = [answer EXCEPT ![c] = view]
Refused(c) == End(c, None)

-----------------------------------------------------------------------------
(* submit: create_plan and revise_plan *)

Submit(c, k, d) ==
    /\ pc[c] = "idle"
    /\ (d.plan = None) = (d.prior = 0)
    /\ Goto(c, "lookup", [Nothing EXCEPT !.op = "submit", !.key = k, !.digest = d])
    /\ UNCHANGED <<tables, used, policy>>

\* A known key repeats the answer of the request it was first used for.
Bound(k) == submissions[k]
SameRequest_AnyBody(k, d) == TRUE
SameRequest(k, d) == records[<<Bound(k).plan, Bound(k).version>>] = d
Lookup(c) ==
    /\ pc[c] = "lookup"
    /\ LET mine == call[c] IN
        \/ mine.key \notin DOMAIN submissions /\ Goto(c, "count", mine)
        \/ /\ mine.key \in DOMAIN submissions /\ SameRequest(mine.key, mine.digest)
           /\ Goto(c, "view", [mine EXCEPT !.plan = Bound(mine.key).plan, !.version = Bound(mine.key).version])
        \/ mine.key \in DOMAIN submissions /\ ~SameRequest(mine.key, mine.digest) /\ Refused(c)
    /\ UNCHANGED <<tables, used, policy>>

QuotaReached_OneMore == Cardinality(pending) > Quota
QuotaReached == Cardinality(pending) >= Quota
Count(c) ==
    /\ pc[c] = "count"
    /\ \/ QuotaReached /\ Refused(c) /\ UNCHANGED used
       \/ /\ ~QuotaReached /\ call[c].digest.plan # None
          /\ Goto(c, "latest", call[c]) /\ UNCHANGED used
       \/ /\ ~QuotaReached /\ call[c].digest.plan = None
          /\ \E p \in Plans \ used :
                used' = used \cup {p} /\ Goto(c, "insert", [call[c] EXCEPT !.plan = p, !.version = 1])
    /\ UNCHANGED <<tables, policy>>

\* Only the latest version can be revised.  (An edited workflow that does not name the new
\* version is refused here as well; refusals change nothing.)
MayRevise_Saved(d) == Latest(d.plan) > 0
MayRevise(d) == Latest(d.plan) > 0 /\ Latest(d.plan) = d.prior
LatestVersion(c) ==
    /\ pc[c] = "latest"
    /\ LET d == call[c].digest IN
        \/ /\ MayRevise(d) /\ Latest(d.plan) < MaxVersion
           /\ Goto(c, "insert", [call[c] EXCEPT !.plan = d.plan, !.version = Latest(d.plan) + 1])
        \/ ~MayRevise(d) /\ Refused(c)
    /\ UNCHANGED <<tables, used, policy>>

\* Plan, job and submission in one transaction; a unique key that is taken undoes all.
Free_KeyOnly(p, v, k) == k \notin DOMAIN submissions
Free(p, v, k) == <<p, v>> \notin DOMAIN records /\ k \notin DOMAIN submissions
Store_WithoutKey(p, v, k, d) == records' = With(records, <<p, v>>, d) /\ UNCHANGED submissions
Store(p, v, k, d) ==
    /\ records' = With(records, <<p, v>>, d)
    /\ submissions' = With(submissions, k, [plan |-> p, version |-> v])
Insert(c) ==
    /\ pc[c] = "insert"
    /\ LET mine == call[c] IN
        \/ /\ Free(mine.plan, mine.version, mine.key)
           /\ Store(mine.plan, mine.version, mine.key, mine.digest)
           /\ pending' = pending \cup {mine.key}
           /\ Goto(c, "view", mine)
        \/ ~Free(mine.plan, mine.version, mine.key) /\ Refused(c) /\ UNCHANGED tables
    /\ UNCHANGED <<used, policy>>

-----------------------------------------------------------------------------
(* view and plan_policy *)

Read(c, op, p, v) ==
    /\ pc[c] = "idle" /\ op \in {"read", "export"} /\ <<p, v>> \in DOMAIN records
    /\ Goto(c, "view", [Nothing EXCEPT !.op = op, !.plan = p, !.version = v, !.floor = Latest(p)])
    /\ UNCHANGED <<tables, used, policy>>

View(c) ==
    /\ pc[c] = "view"
    /\ Goto(c, "job", [call[c] EXCEPT !.latest = Latest(call[c].plan)])
    /\ UNCHANGED <<tables, used, policy>>

\* The submission of the version names its job: exactly one, or view raises.
JobsOf(p, v) == {k \in DOMAIN submissions : submissions[k] = [plan |-> p, version |-> v]}
Stale_Never(mine) == FALSE
Stale(mine) == mine.version # mine.latest
Job(c) ==
    /\ pc[c] = "job"
    /\ LET mine == call[c] IN
        IF mine.op = "export" /\ (Stale(mine) \/ JobsOf(mine.plan, mine.version) \subseteq pending)
        THEN Refused(c)
        ELSE End(c, [op |-> mine.op, digest |-> mine.digest, plan |-> mine.plan,
                     version |-> mine.version, floor |-> mine.floor])
    /\ UNCHANGED <<tables, used, policy>>

-----------------------------------------------------------------------------
(* draft: a policy from the saved routing decision *)

\* A policy that is there already is the answer.
Draft(c) ==
    /\ pc[c] = "idle" /\ policy = None
    /\ \E p \in Plans \ used :
        /\ used' = used \cup {p}
        /\ Goto(c, "publish", [Nothing EXCEPT !.op = "draft", !.plan = p, !.version = 1])
    /\ UNCHANGED <<tables, policy>>

\* publish_deterministic: a plan with its result and a job that has succeeded.
Publish_Later(c) ==
    /\ pc[c] = "publish" /\ Goto(c, "create", call[c])
    /\ UNCHANGED <<tables, used, policy>>
Publish(c) ==
    /\ pc[c] = "publish"
    /\ Store(call[c].plan, 1, call[c].plan, Published) /\ UNCHANGED pending
    /\ Goto(c, "create", call[c])
    /\ UNCHANGED <<used, policy>>

\* create_policy: the second of two drafts conflicts, and its plan stays unused.
Create(c) ==
    /\ pc[c] = "create" /\ Refused(c)
    /\ policy' = IF policy = None THEN call[c].plan ELSE policy
    /\ UNCHANGED <<tables, used>>

-----------------------------------------------------------------------------
\* The job of a key succeeds, fails or is cancelled.
JobEnds(k) ==
    /\ k \in pending /\ pending' = pending \ {k}
    /\ UNCHANGED <<records, submissions, used, policy, pc, call, answer>>

\* The API process dies: its clients get no answer.
Crash(c) == pc[c] # "idle" /\ Refused(c) /\ UNCHANGED <<tables, used, policy>>

Next ==
    \/ \E c \in Clients :
        \/ \E k \in Keys, d \in Digest : Submit(c, k, d)
        \/ \E op \in {"read", "export"}, p \in Plans, v \in Numbers : Read(c, op, p, v)
        \/ Lookup(c) \/ Count(c) \/ LatestVersion(c) \/ Insert(c) \/ View(c) \/ Job(c)
        \/ Draft(c) \/ Publish(c) \/ Create(c) \/ Crash(c)
    \/ \E k \in Keys : JobEnds(k)

Spec == Init /\ [][Next]_vars

-----------------------------------------------------------------------------
(* Properties *)

\* view reads the job of a version with scalar_one: whatever requests raced, every stored
\* version has exactly one submission, and every submission a stored version.
OneSubmissionPerVersion ==
    /\ \A x \in DOMAIN records : Cardinality(JobsOf(x[1], x[2])) = 1
    /\ \A k \in DOMAIN submissions : <<Bound(k).plan, Bound(k).version>> \in DOMAIN records

\* "Plan changed; reload the exact latest version": a plan's versions are 1 .. n, and each
\* revision named the version before it as the one it revises, so no two revisions of the
\* same version are both accepted.
RevisionsAreLinear ==
    \A x \in DOMAIN records :
        /\ x[2] <= Latest(x[1])
        /\ records[x] # Published => records[x].prior = x[2] - 1

\* A client is answered with the version its own request created: never with the version of
\* another request that came with the same key.
AnswerIsForRequest ==
    \A c \in Clients : answer[c] # None /\ answer[c].op = "submit" =>
        records[<<answer[c].plan, answer[c].version>>] = answer[c].digest

\* "changed constraints create a new version and old exports fail": an export that began when
\* a later version existed is refused.
OldExportsFail ==
    \A c \in Clients : answer[c] # None /\ answer[c].op = "export" =>
        answer[c].version >= answer[c].floor

\* The quota is counted before the insert: submissions that overlap pass it together, but
\* the jobs and the submissions past the count exceed it by no more than the other clients.
QuotaOverrun ==
    Cardinality(pending) + Cardinality({c \in Clients : pc[c] \in {"latest", "insert"}})
        < Quota + Cardinality(Clients)

\* The policy drafted from a decision names a plan whose result is stored, although two
\* drafts race and processes die between the plan and the policy.
PolicyHasPlan == policy # None => <<policy, 1>> \in DOMAIN records

\* Overlapping and repeated requests leave plans, submissions and jobs that belong together.
SubmissionSafety ==
    /\ TypeOK /\ OneSubmissionPerVersion /\ RevisionsAreLinear /\ AnswerIsForRequest
    /\ OldExportsFail /\ QuotaOverrun /\ PolicyHasPlan
=============================================================================
