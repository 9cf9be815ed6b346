------------------------------ MODULE Evidence ------------------------------
(***************************************************************************)
(* What is done with public evidence: it is researched (ResearchRun),      *)
(* configurations are selected on it (Selection), and calls are authorized *)
(* on it (StageAuthority).  They share no state: a behaviour exercises one *)
(* of them, and the others stay as they began.                             *)
(***************************************************************************)
EXTENDS ResearchRun

CONSTANTS
    Configs, Stages, Shapes, Workflows, MaxCandidates, MaxMappings, MaxClock,   \* Selection
    Callers, Keys, Listed, Catalogs, Terms, Offers, Asks, Ttl, Capacity, Scale,
    MaxTime                                                                     \* StageAuthority

VARIABLES
    part,                                                                       \* what is exercised
    models, workflow, clock, at, filtered, mapping, recommendation, compiled,   \* Selection
    records, terms, offer, ask, instant, results, order, pc, call               \* StageAuthority

selectionVars == <<models, workflow, clock, at, filtered, mapping, recommendation, compiled>>
authorityVars == <<records, terms, offer, ask, instant, results, order, pc, call>>
evidenceVars == <<part, vars, selectionVars, authorityVars>>

Select == INSTANCE Selection WITH
    MaxTime <- MaxClock, catalog <- models, now <- clock, pc <- at, draft <- compiled

Authority == INSTANCE StageAuthority WITH
    Calls <- Callers, Configs <- Listed,
    catalog <- records, now <- instant, cache <- results

\* A selector with validated bounds, for a workflow with model stages.  A price or a
\* deployment may be unknown, and a workflow may have no ceiling.
ASSUME SelectionAssumption ==
    /\ IsFiniteSet(Configs) /\ Configs = 1 .. Cardinality(Configs)
    /\ Stages \in Nat \ {0} /\ MaxCandidates \in Nat \ {0} /\ MaxMappings \in Nat \ {0}
    /\ MaxClock \in Nat /\ None \notin Nat
    /\ \A s \in Shapes :
         /\ s.observed \in Nat /\ s.expires \in Nat /\ s.price \in Nat \cup {None}
         /\ s.access \in BOOLEAN /\ s.parameters \in BOOLEAN /\ s.deployment \in {"local", "hosted", None}
    /\ \A w \in Workflows :
         /\ w.ceiling \in Nat \cup {None} /\ w.parameters \in BOOLEAN
         /\ w.deployment \in {"any", "local", "hosted"} /\ w.unrepresented \in BOOLEAN

\* Evidence, grants and credentials expire at some time, and the terms of a deployment are
\* numbers where they are known.  A request asks for at least one token.
ASSUME AuthorityAssumption ==
    /\ IsFiniteSet(Listed) /\ Listed = 1 .. Cardinality(Listed)
    /\ \A r \in Catalogs : \A c \in Listed : r[c].observed \in Nat /\ r[c].expires \in Nat
    /\ Terms \subseteq [{"target", "grant", "credential"} -> Nat]
    /\ \A o \in Offers :
         /\ o.local \in BOOLEAN /\ o.prices \in Nat \X Nat
         /\ o.context \in Nat \cup {None} /\ o.prompt \in Nat \cup {None} /\ o.output \in Nat \cup {None}
    /\ \A q \in Asks : q.count \in Nat /\ q.max \in Nat \ {0}
    /\ Ttl \in Nat /\ Capacity \in Nat \ {0} /\ Scale \in Nat \ {0} /\ MaxTime \in Nat

-----------------------------------------------------------------------------
EvidenceInit ==
    /\ part \in {"research", "selection", "authority", "preflight"}
    /\ Init /\ Select!Init /\ Authority!Init

EvidenceNext ==
    /\ UNCHANGED part
    /\ \/ part = "research" /\ Next /\ UNCHANGED <<selectionVars, authorityVars>>
       \/ part = "selection" /\ Select!Next /\ UNCHANGED <<vars, authorityVars>>
       \/ part \in {"authority", "preflight"} /\ Authority!Next /\ UNCHANGED <<vars, selectionVars>>

EvidenceSpec == EvidenceInit /\ [][EvidenceNext]_evidenceVars

-----------------------------------------------------------------------------
(* Properties of the parts; each is explained where it is stated *)

\* A draft is compiled only while every configuration in it meets the workflow's
\* requirements on current evidence: unknown is never taken for yes, and evidence that
\* expired since the recommendation is noticed.
DraftIsAdmissible == Select!DraftIsAdmissible

\* The bounded search finds what an unbounded one would, and an unknown price is not zero.
SearchSafety == Select!SearchSafety

\* A call is authorized or refused on what was current at some instant since it began,
\* although results are cached and overlapping calls overwrite them; and the amount it
\* reserves covers whatever it can be charged.
AuthoritySafety == Authority!DecisionsAreCurrent /\ Authority!ReservedCoversCharge
=============================================================================
