---------------------------- MODULE ControlPlane ----------------------------
(***************************************************************************)
(* The tables that studio users work on: policies (PolicyLifecycle),       *)
(* application keys, derived revisions (PolicyEdits), plan submissions and *)
(* comparisons.  No action touches two of them: a behaviour exercises one  *)
(* of the five, and the others stay as they began.                         *)
(***************************************************************************)
EXTENDS PolicyLifecycle, Sequences

CONSTANTS
    Keys, Aliases,                                                     \* ApplicationKeys
    Nodes, Configs, Source, Originals, Changes, MaxRevisions,          \* PolicyEdits
    PlanKeys, Plans, Inputs, Quota, MaxVersion,                        \* PlanSubmissions
    Compared, Samples, Cost, Caps, Stages, MaxAttempts, MaxReads, MaxChanges   \* Comparisons

\* Keys of requests are not identifiers of plans, and there is a user.
ASSUME SubmissionsAssumption ==
    /\ Quota \in Nat /\ MaxVersion \in Nat \ {0} /\ None \notin Plans
    /\ PlanKeys \cap Plans = {} /\ IsFiniteSet(Sessions) /\ Sessions # {}

VARIABLES
    part,                                                                   \* what is exercised
    keyTime, pinned, record, verifier, budget, issuer, bearer, acknowledged,   \* ApplicationKeys
    newest, eligible, outcome, last, revisions,                                \* PolicyEdits
    records, submissions, pending, used, drafted, pc, call, answer,            \* PlanSubmissions
    cap, registered, comparison, cells, run, gone, samples, step, local, reads, changes

keyVars == <<keyTime, pinned, record, verifier, budget, issuer, bearer, acknowledged>>
editVars == <<newest, eligible, outcome, last, revisions>>
planVars == <<records, submissions, pending, used, drafted, pc, call, answer>>
comparisonVars == <<cap, registered, comparison, cells, run, gone, samples, step, local, reads, changes>>
planeVars == <<part, vars, keyVars, editVars, planVars, comparisonVars>>

Key == INSTANCE ApplicationKeys WITH now <- keyTime, session <- issuer, request <- bearer

Edits == INSTANCE PolicyEdits WITH Policies <- Originals, Requests <- Changes, policy <- newest

Submissions == INSTANCE PlanSubmissions WITH Clients <- Sessions, Keys <- PlanKeys, policy <- drafted

Compare == INSTANCE Comparisons WITH
    Policies <- Compared, Callers <- Sessions, revision <- comparison, pc <- step

\* ComparisonRequest: policies and samples are distinct, and there are some.
ASSUME ComparedAssumption ==
    /\ IsFiniteSet(Compared) /\ IsFiniteSet(Samples) /\ Compared \X Samples # {}
    /\ Cost \in [Compared -> Nat] /\ Stages \in [Compared -> Nat] /\ Caps \subseteq Nat
    /\ MaxAttempts \in Nat /\ MaxReads \in Nat /\ MaxChanges \in Nat /\ None \notin Compare!Run

\* PolicyEditRequest and ExecutablePolicy: requests name stages and configurations, and a
\* history of edits begins with a valid policy.
ASSUME EditsAssumption ==
    /\ IsFiniteSet(Nodes) /\ Nodes = 1 .. Cardinality(Nodes) /\ Configs \subseteq Nat
    /\ Source \in [Nodes -> Nodes \cup {None}] /\ MaxRevisions \in Nat
    /\ Originals \subseteq [id : {"policy"}, version : Nat, stages : [Nodes -> Edits!Stage],
                            prompts : Seq(Edits!Prompt), decided : BOOLEAN]
    /\ \A p \in Originals : Edits!Executable(p)
    /\ Changes \subseteq [pins : UNION {[d -> Configs] : d \in SUBSET Nodes}, excluded : SUBSET Configs,
                          cheaper : SUBSET Nodes, kept : Nodes \cup {None}, schemas : SUBSET Nodes,
                          misfits : SUBSET Nodes]

-----------------------------------------------------------------------------
PlaneInit ==
    /\ part \in {"policies", "keys", "edits", "plans", "comparisons"}
    /\ Init /\ Key!Init /\ Edits!Init /\ Submissions!Init /\ Compare!Init

PlaneNext ==
    /\ UNCHANGED part
    /\ \/ part = "policies" /\ Next /\ UNCHANGED <<keyVars, editVars, planVars, comparisonVars>>
       \/ part = "keys" /\ Key!Next /\ UNCHANGED <<vars, editVars, planVars, comparisonVars>>
       \/ part = "edits" /\ Edits!Next /\ UNCHANGED <<vars, keyVars, planVars, comparisonVars>>
       \/ part = "plans" /\ Submissions!Next /\ UNCHANGED <<vars, keyVars, editVars, comparisonVars>>
       \/ part = "comparisons" /\ Compare!Next /\ UNCHANGED <<vars, keyVars, editVars, planVars>>

PlaneSpec == PlaneInit /\ [][PlaneNext]_planeVars

-----------------------------------------------------------------------------
(* Properties of the parts; each is explained where it is stated *)

\* A key is worth what it was issued for, until it is revoked: revocation is final for all
\* that arrive later, no version grants more, and a usable key has a budget.
KeySafety == part = "keys" => Key!KeySafety

\* In a derived revision exclusions are gone, kept models stay, and a model is new only if the
\* request named or excluded the one before, and eligible; only output schemas, templates that
\* do not fit and shared prompts make an edit fail after its checks.
EditSafety == part = "edits" => Edits!EditSafety

\* Overlapping and repeated requests leave linear versions, each with one submission; a key
\* answers its own request, old exports fail, the quota is overrun by overlapping requests
\* only, and a drafted policy has its plan.
SubmissionSafety == part = "plans" => Submissions!SubmissionSafety

\* Every child run of a comparison is tracked, all together stay within the cap, and a
\* completed cell accounts for every attempt.
ComparisonSafety == part = "comparisons" => Compare!ComparisonSafety

\* What is written stays: revisions, transitions and the alias pin; the versions of a key,
\* with one revocation; the final cells of a comparison and its checks.
RecordsStay ==
    /\ Immutable /\ Key!OneRevocation
    /\ Compare!FinalCellsStay /\ Compare!ChecksNeverLost
=============================================================================
