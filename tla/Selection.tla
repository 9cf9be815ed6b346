------------------------------ MODULE Selection ------------------------------
(***************************************************************************)
(* The deterministic selector (intelligence/selection/engine.py) and the   *)
(* compiler of inactive drafts (intelligence/selection/policy.py).         *)
(* Every mandatory check of a configuration is supported, contradicted or  *)
(* unknown; only configurations with every check supported are eligible,   *)
(* the cheapest known price ranks first, and a bounded search maps model   *)
(* stages to configurations.                                               *)
(*                                                                         *)
(* Each check reads the clock anew, and recommend and compile filter       *)
(* several times: evidence may expire, or become valid, between any two.   *)
(* A configuration is its number, in the order of identifiers.  Facts      *)
(* without a valid source are unknown already.                             *)
(***************************************************************************)
EXTENDS Naturals, Sequences, FiniteSets

CONSTANTS
    Configs,        \* catalog.configurations: 1 .. n in the order of their identifiers
    Stages,         \* number of model stages of the workflow, in the order of node ids
    Shapes,         \* what the catalog may say about a configuration
    Workflows,      \* the requirements of a workflow
    MaxCandidates, MaxMappings,     \* bounds of the search
    MaxTime,        \* bound: the last instant
    None

VARIABLES
    catalog, workflow,  \* the inputs, fixed
    now,
    pc,                 \* where recommend, and then compile, is
    filtered,           \* the filter result in hand
    mapping,            \* the mapping the search found, a configuration for each stage
    recommendation, draft

vars == <<catalog, workflow, now, pc, filtered, mapping, recommendation, draft>>

-----------------------------------------------------------------------------
(* assess and filter *)

Current(s, t) == s.observed <= t /\ t < s.expires

Supported(b) == IF b THEN "true" ELSE "unknown"
Compared(known, b) == IF ~known THEN "unknown" ELSE IF b THEN "true" ELSE "false"

\* The checks of one configuration at time t.  Ceilings and contradicted facts are decided;
\* what is missing, stale or cannot be represented is unknown.
Checks(s, w, t) ==
    {s.weight, Supported(Current(s, t) /\ s.access)}
        \cup (IF w.ceiling = None THEN {} ELSE {Compared(s.price # None, s.price <= w.ceiling)})
        \cup (IF w.parameters THEN {Supported(Current(s, t) /\ s.parameters)} ELSE {})
        \cup (IF w.deployment = "any" THEN {}
              ELSE {Compared(Current(s, t) /\ s.deployment # None, s.deployment = w.deployment)})
        \cup (IF w.unrepresented THEN {"unknown"} ELSE {})

Eligible_NotContradicted(t) == {c \in Configs : "false" \notin Checks(catalog[c], workflow, t)}
Eligible(t) == {c \in Configs : Checks(catalog[c], workflow, t) = {"true"}}

\* filter's answer, which callers compare: the eligible, and the reasons of the others.
Filter(t) ==
    [eligible |-> Eligible(t),
     excluded |-> [c \in Configs \ Eligible(t) |-> Checks(catalog[c], workflow, t) \ {"true"}]]

-----------------------------------------------------------------------------
(* rank and _search *)

\* _price_key: a known price before an unknown one, then the price, then the identifier.
Cheaper_UnknownIsZero(a, b) ==
    LET p(c) == IF catalog[c].price = None THEN 0 ELSE catalog[c].price
    IN  p(a) < p(b) \/ (p(a) = p(b) /\ a < b)
Cheaper(a, b) ==
    LET pa == catalog[a].price
        pb == catalog[b].price
    IN  \/ pa # None /\ pb = None
        \/ pa # None /\ pb # None /\ (pa < pb \/ (pa = pb /\ a < b))
        \/ pa = None /\ pb = None /\ a < b
Ranked(eligible) ==
    CHOOSE s \in [1 .. Cardinality(eligible) -> eligible] :
        \A i, j \in DOMAIN s : i < j => Cheaper(s[i], s[j])

\* A mapping of the stages to positions in the ranking.
Mappings(k) == [1 .. Stages -> 1 .. k]
Used(m) == {m[i] : i \in DOMAIN m}
Size(m) == Cardinality(Used(m))
Portfolio(m) ==
    CHOOSE s \in [1 .. Size(m) -> Used(m)] : \A i, j \in DOMAIN s : i < j => s[i] < s[j]
Precedes(s, t) ==
    \E i \in DOMAIN s : s[i] < t[i] /\ \A j \in 1 .. i - 1 : s[j] = t[j]

\* The order of enumeration: small portfolios first, then combinations and products.
Before_LargeFirst(a, b) ==
    \/ Size(a) > Size(b)
    \/ Size(a) = Size(b) /\ Precedes(Portfolio(a), Portfolio(b))
    \/ Used(a) = Used(b) /\ Precedes(a, b)
Before(a, b) ==
    \/ Size(a) < Size(b)
    \/ Size(a) = Size(b) /\ Precedes(Portfolio(a), Portfolio(b))
    \/ Used(a) = Used(b) /\ Precedes(a, b)
Searched(k) ==
    LET all == {m \in Mappings(k) : Size(m) <= 3}
    IN  {m \in all : Cardinality({x \in all : Before(x, m)}) < MaxMappings}

\* The sum of the ranks, counted from 0: the pairs of a stage and a rank below its own.
RankSum(m) == Cardinality({x \in (DOMAIN m) \X Configs : x[2] < m[x[1]]})
Score(m, ranked) ==
    <<RankSum(m) + 2 * (Size(m) - 1), Size(m)>> \o [i \in DOMAIN m |-> ranked[m[i]]]
Better(a, b, ranked) == Precedes(Score(a, ranked), Score(b, ranked))
Search_OnePerPortfolio(ranked) == <<ranked[1]>>
Search(ranked) ==
    LET k == IF Len(ranked) <= MaxCandidates THEN Len(ranked) ELSE MaxCandidates
        best == CHOOSE m \in Searched(k) : \A x \in Searched(k) \ {m} : Better(m, x, ranked)
    IN  [i \in 1 .. Stages |-> ranked[best[i]]]

-----------------------------------------------------------------------------
TypeOK ==
    /\ now \in 0 .. MaxTime
    /\ pc \in {"start", "search", "refilter", "compare", "summary", "recommended", "compiled", "refused"}
    /\ mapping \in Seq(Configs)
    /\ recommendation # None => DOMAIN recommendation.mapping = 1 .. Stages
    /\ draft # None => draft \in Seq(Configs) /\ Cardinality(Used(draft)) <= 3

Init ==
    /\ catalog \in [Configs -> Shapes] /\ workflow \in Workflows
    /\ now = 0 /\ pc = "start" /\ filtered = None /\ mapping = <<>>
    /\ recommendation = None /\ draft = None

Tick ==
    /\ now < MaxTime /\ now' = now + 1
    /\ UNCHANGED <<catalog, workflow, pc, filtered, mapping, recommendation, draft>>

\* The filter handed to rank, and rank's own: they must agree.
TakeFilter(from, to) ==
    /\ pc = from /\ pc' = to
    /\ filtered' = Filter(now)
    /\ UNCHANGED <<catalog, workflow, now, mapping, recommendation, draft>>
StartSearch == TakeFilter("start", "search")

Rankable == filtered = Filter(now) /\ filtered.eligible # {}
Refuse(from) ==
    /\ pc = from /\ pc' = "refused"
    /\ UNCHANGED <<catalog, workflow, now, filtered, mapping, recommendation, draft>>

RankAndSearch ==
    /\ pc = "search" /\ Rankable
    /\ pc' = "refilter" /\ mapping' = Search(Ranked(filtered.eligible))
    /\ UNCHANGED <<catalog, workflow, now, filtered, recommendation, draft>>
SearchRefused == ~Rankable /\ Refuse("search")

\* recommend keeps a filter result of its own.
Refilter ==
    /\ pc = "refilter" /\ pc' = "compare"
    /\ recommendation' = [mapping |-> mapping, filter |-> Filter(now)]
    /\ UNCHANGED <<catalog, workflow, now, filtered, mapping, draft>>

\* compare_stacks searches once more; only its words are used.
StartCompare == TakeFilter("compare", "summary")
Compare ==
    /\ pc = "summary" /\ Rankable /\ pc' = "recommended"
    /\ UNCHANGED <<catalog, workflow, now, filtered, mapping, recommendation, draft>>
CompareRefused == ~Rankable /\ Refuse("summary")

\* SafeDraftCompiler.compile.
Admissible_Assigned == Used(recommendation.mapping) \subseteq recommendation.filter.eligible
Admissible ==
    /\ Filter(now) = recommendation.filter
    /\ Used(recommendation.mapping) \subseteq Eligible(now)
    /\ Cardinality(Used(recommendation.mapping)) <= 3
Compile ==
    /\ pc = "recommended" /\ Admissible /\ pc' = "compiled"
    /\ draft' = recommendation.mapping
    /\ UNCHANGED <<catalog, workflow, now, filtered, mapping, recommendation>>
CompileRefused == pc = "recommended" /\ ~Admissible /\ Refuse("recommended")

Next ==
    \/ Tick \/ StartSearch \/ RankAndSearch \/ SearchRefused \/ Refilter \/ StartCompare
    \/ Compare \/ CompareRefused \/ Compile \/ CompileRefused

Spec == Init /\ [][Next]_vars

-----------------------------------------------------------------------------
(* Properties *)

\* The requirements hold, said directly of a configuration at one instant.
Meets(c, t) ==
    LET s == catalog[c] IN
    /\ s.weight = "true" /\ s.access /\ s.observed <= t /\ t < s.expires
    /\ workflow.ceiling # None => s.price # None /\ s.price <= workflow.ceiling
    /\ workflow.parameters => s.parameters
    /\ workflow.deployment # "any" => s.deployment = workflow.deployment
    /\ ~workflow.unrepresented

\* A draft is compiled only while every configuration in it meets the workflow's
\* requirements on current evidence: unknown is never taken for yes, and evidence that
\* expired since the recommendation is noticed.
DraftIsAdmissible == [][draft' # draft => \A i \in DOMAIN draft' : Meets(draft'[i], now)]_vars

\* The mapping is the best of all mappings over all eligible configurations, although only
\* MaxCandidates of them and MaxMappings mappings are looked at.
SearchIsOptimal ==
    pc = "refilter" =>
        LET ranked == Ranked(filtered.eligible) IN
        \A m \in {x \in Mappings(Len(ranked)) : Size(x) <= 3} :
            [i \in DOMAIN m |-> ranked[m[i]]] # mapping =>
                \E b \in Mappings(Len(ranked)) :
                    /\ [i \in DOMAIN b |-> ranked[b[i]]] = mapping
                    /\ Better(b, m, ranked)

\* An unknown price is not zero: no stage is given a configuration without a price while an
\* eligible one has a known price, or a dearer one while a cheaper is eligible.
UnknownPriceLast ==
    pc = "refilter" =>
        \A c \in Used(mapping), e \in filtered.eligible :
            catalog[e].price # None => catalog[c].price # None /\ catalog[c].price <= catalog[e].price

\* The bounded search finds what an unbounded one would.
SearchSafety == TypeOK /\ SearchIsOptimal /\ UnknownPriceLast

\* What a test asserts of a recommendation: its selection is eligible by its own filter
\* result.
SelectionIsEligible ==
    recommendation # None => Used(recommendation.mapping) \subseteq recommendation.filter.eligible
=============================================================================
