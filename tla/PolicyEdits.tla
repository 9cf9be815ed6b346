----------------------------- MODULE PolicyEdits -----------------------------
(***************************************************************************)
(* How the next revision of a policy is derived: edit and variant of       *)
(* execution_policy.py, and the validation every revision passes           *)
(* (ExecutablePolicy.executable_bindings in execution_contracts.py).       *)
(*                                                                         *)
(* The stages are the model stages of the workflow; the others are copied. *)
(* Configurations are numbered in the selector's order, cheapest first;    *)
(* which of them have mandatory evidence changes between edits.  Of a new  *)
(* prompt template it matters only whether its placeholders are the        *)
(* variables of the prompt (misfits: the stages where they are not).       *)
(***************************************************************************)
EXTENDS Naturals, Sequences, FiniteSets

CONSTANTS
    Nodes, Configs,     \* model stages, and configurations: each 1 .. n
    Source,             \* the stage each stage reads its text from, or None
    Policies,           \* the revisions a history may begin with
    Requests,           \* PolicyEditRequest
    MaxRevisions,       \* bound: revisions derived
    None

VARIABLES
    policy,             \* the newest revision
    eligible,           \* configurations the selector finds eligible now
    outcome,            \* of the last request
    last,               \* history: the request, and the revision and evidence it met
    revisions           \* bound

vars == <<policy, eligible, outcome, last, revisions>>

-----------------------------------------------------------------------------
Prompt == [id : {"a", "b"}, version : Nat]
Stage == [config : Configs, fallbacks : Seq(Configs), repairs : 0 .. 2, attempts : 1 .. 3,
          prompt : Prompt, output : {"text", "json"},
          profile : (SUBSET Configs) \cup {None}]     \* what the workload profile admits

RangeOf(s) == {s[i] : i \in DOMAIN s}

\* executable_bindings: attempts cover fallbacks and repairs, fallback pins are distinct,
\* no prompt revision is listed twice, and outputs fit the stages that read them.
Attempts(s) == 1 + s.repairs + Len(s.fallbacks) <= s.attempts
Distinct(s) == s.config \notin RangeOf(s.fallbacks) /\ Cardinality(RangeOf(s.fallbacks)) = Len(s.fallbacks)
OneOfEach(p) == Cardinality(RangeOf(p.prompts)) = Len(p.prompts)
Bound(p) == \A n \in Nodes : Source[n] # None => p.stages[Source[n]].output = "text"
Executable(p) ==
    /\ \A n \in Nodes : Attempts(p.stages[n]) /\ Distinct(p.stages[n])
    /\ OneOfEach(p) /\ Bound(p)

TypeOK ==
    /\ policy.version \in Nat /\ policy.id \in {"policy", "variant"}
    /\ \A n \in Nodes : policy.stages[n] \in Stage
    /\ Executable(policy)
    /\ eligible \subseteq Configs /\ outcome \in {"none", "derived", "refused", "invalid"}
    /\ revisions \in 0 .. MaxRevisions

Init ==
    /\ policy \in Policies /\ eligible = Configs /\ outcome = "none" /\ last = None
    /\ revisions = 0

\* Evidence expires or is renewed: the selector reads it at each request.
Evidence ==
    /\ outcome # "none" \/ eligible = Configs
    /\ \E e \in SUBSET Configs : e # eligible /\ eligible' = e
    /\ outcome' = "none" /\ last' = None
    /\ UNCHANGED <<policy, revisions>>

-----------------------------------------------------------------------------
Cheapest(set) == CHOOSE c \in set : \A d \in set : c <= d
Ranked_WithExcluded(q) == eligible
Ranked(q) == eligible \ q.excluded

\* The kept stage must not be touched by the rest of the request.
KeepConflict_CheaperOnly(q) == q.kept # None /\ q.kept \in q.cheaper
KeepConflict(q) ==
    /\ q.kept # None
    /\ LET c == policy.stages[q.kept].config IN
       q.kept \in q.cheaper \/ c \in q.excluded \/ (q.kept \in DOMAIN q.pins /\ q.pins[q.kept] # c)

Pinned(q, n) == IF n \in DOMAIN q.pins THEN q.pins[n] ELSE policy.stages[n].config
Replaced(q, n) == n \in q.cheaper \/ Pinned(q, n) \in q.excluded
Config(q, n) == IF Replaced(q, n) THEN Cheapest(Ranked(q)) ELSE Pinned(q, n)

PinsAdmitted_Any(q) == TRUE
PinsAdmitted(q) == \A n \in DOMAIN q.pins : q.pins[n] \in Ranked(q)

\* The stages are revised one after the other: an alternative is chosen, the prompt gets its
\* template, the profile is consulted.  A template that does not fit stops the edit there.
Exhausted(q, n) == Replaced(q, n) /\ Ranked(q) = {}
OffProfile(q, n) ==
    ~Exhausted(q, n) /\ policy.stages[n].profile # None /\ Config(q, n) \notin policy.stages[n].profile
Denied(q) ==
    \E n \in Nodes :
        \/ Exhausted(q, n) /\ (\A m \in q.misfits : n <= m)
        \/ OffProfile(q, n) /\ (\A m \in q.misfits : n < m)
Refused(q) == KeepConflict(q) \/ ~PinsAdmitted(q) \/ Denied(q)

\* Every model stage gets the next revision of its prompt and loses its fallbacks.
Revised(prompt) == [prompt EXCEPT !.version = @ + 1]
Edited_KeepsFallbacks(q, n) ==
    LET s == policy.stages[n] IN
    [s EXCEPT !.config = Config(q, n), !.attempts = 1 + s.repairs,
              !.prompt = Revised(s.prompt),
              !.output = IF n \in q.schemas THEN "json" ELSE @]
Edited(q, n) ==
    LET s == policy.stages[n] IN
    [s EXCEPT !.config = Config(q, n), !.fallbacks = <<>>, !.attempts = 1 + s.repairs,
              !.prompt = Revised(s.prompt),
              !.output = IF n \in q.schemas THEN "json" ELSE @]

\* edit lists one prompt for each stage, whether or not stages share it.
Revision(q) ==
    LET stages == [n \in Nodes |-> Edited(q, n)] IN
    [id |-> policy.id, version |-> policy.version + 1, stages |-> stages,
     prompts |-> [n \in Nodes |-> stages[n].prompt], decided |-> FALSE]

Answer(q, result) ==
    /\ outcome' = result
    /\ last' = [request |-> q, before |-> policy, eligible |-> eligible]
    /\ revisions' = revisions + 1
    /\ UNCHANGED eligible

\* PromptRevision.placeholders, then executable_bindings.
Valid(q) == q.misfits = {} /\ Executable(Revision(q))

Edit(q) ==
    /\ revisions < MaxRevisions
    /\ \/ Refused(q) /\ Answer(q, "refused") /\ UNCHANGED policy
       \/ ~Refused(q) /\ Valid(q) /\ policy' = Revision(q) /\ Answer(q, "derived")
       \/ ~Refused(q) /\ ~Valid(q) /\ Answer(q, "invalid") /\ UNCHANGED policy

\* variant: a first revision of another policy, every model stage on the first-ranked
\* configuration; refused for policies the optimizer decided or that have profiles.  It is
\* validated like every revision, and TypeOK shows that this cannot fail.
Varied_KeepsFallbacks(n) ==
    LET s == policy.stages[n] IN
    [s EXCEPT !.config = Cheapest(eligible), !.attempts = 1 + s.repairs]
Varied(n) ==
    LET s == policy.stages[n] IN
    [s EXCEPT !.config = Cheapest(eligible), !.fallbacks = <<>>, !.attempts = 1 + s.repairs]
VariantAllowed == ~policy.decided /\ \A n \in Nodes : policy.stages[n].profile = None
Variant ==
    /\ revisions < MaxRevisions /\ policy.id = "policy"
    /\ LET q == [pins |-> <<>>, excluded |-> {}, cheaper |-> Nodes, kept |-> None, schemas |-> {},
                 misfits |-> {}] IN
        \/ (~VariantAllowed \/ eligible = {}) /\ Answer(q, "refused") /\ UNCHANGED policy
        \/ /\ VariantAllowed /\ eligible # {}
           /\ policy' = [policy EXCEPT !.id = "variant", !.version = 1,
                                       !.stages = [n \in Nodes |-> Varied(n)]]
           /\ Answer(q, "derived")

Next == Evidence \/ Variant \/ \E q \in Requests : Edit(q)

Spec == Init /\ [][Next]_vars

-----------------------------------------------------------------------------
(* Properties *)

Derived == outcome = "derived"

\* A configuration the user excluded is gone from the whole revision, fallbacks included.
ExcludedIsGone ==
    Derived => \A n \in Nodes :
        ({policy.stages[n].config} \cup RangeOf(policy.stages[n].fallbacks)) \cap last.request.excluded = {}

\* A stage whose model the user asked to keep keeps it, whatever else the request says.
KeptIsKept ==
    Derived /\ last.request.kept # None =>
        policy.stages[last.request.kept].config = last.before.stages[last.request.kept].config

\* A stage gets a new model only from the configurations eligible at that moment, and only
\* when the request named it or excluded the model it had.
NewModelsAreEligible ==
    Derived => \A n \in Nodes :
        policy.stages[n].config # last.before.stages[n].config =>
            /\ policy.stages[n].config \in last.eligible
            /\ \/ n \in last.request.cheaper \cup DOMAIN last.request.pins
               \/ last.before.stages[n].config \in last.request.excluded

\* An edit that passed its checks gives a valid revision, unless it changes an output that
\* another stage reads, brings a template that does not fit its prompt, or two stages share a
\* prompt: no chain of edits gets stuck.
EditsValidate ==
    outcome = "invalid" =>
        \/ last.request.schemas # {} \/ last.request.misfits # {}
        \/ \E m, n \in Nodes : m # n /\ policy.stages[m].prompt = policy.stages[n].prompt

\* A derived revision excludes, keeps and replaces what its request asked for, and is valid.
EditSafety == TypeOK /\ ExcludedIsGone /\ KeptIsKept /\ NewModelsAreEligible /\ EditsValidate

\* "Explicit stage edits keep every other pin unchanged."
OtherPinsKept ==
    Derived /\ last.request.excluded = {} => \A n \in Nodes :
        n \notin last.request.cheaper \cup DOMAIN last.request.pins =>
            /\ policy.stages[n].config = last.before.stages[n].config
            /\ policy.stages[n].fallbacks = last.before.stages[n].fallbacks
=============================================================================
