--------------------------- MODULE StageAuthority ---------------------------
(***************************************************************************)
(* Authority.stage and preflight (gateway/preflight.py): what is checked   *)
(* before a pinned configuration is called, and the cache of selection     *)
(* results, Authority._eligible.                                           *)
(*                                                                         *)
(* Calls overlap; every check reads the clock anew, the selector once for  *)
(* each configuration.  A cache entry is the result for one workflow and   *)
(* catalog (its key).  An eligibility record supports its configuration    *)
(* from observed up to expires; Selection has the other checks of filter.  *)
(* Prices are in fractions of a micro-dollar, Scale to one.                *)
(***************************************************************************)
EXTENDS Naturals, Sequences, FiniteSets, FiniteSetsExt, SequencesExt

CONSTANTS
    Calls,
    Keys,           \* workflow and catalog contents
    Configs,        \* configurations of a catalog, 1 .. n
    Catalogs,       \* eligibility records considered: [Configs -> [observed, expires]]
    Terms,          \* expiry of target, grant and credential considered
    Offers, Asks,   \* deployments and requests considered
    Ttl, Capacity,  \* five seconds; 128 entries
    Scale,
    MaxTime,        \* bound: the last instant
    None

VARIABLES
    catalog, terms, offer, ask,     \* the inputs, fixed
    now,
    cache, order,   \* _selection_cache: its entries, and their keys, least recent first
    pc, call        \* where each call is, and what it holds

input == <<catalog, terms, offer, ask>>
vars == <<input, now, cache, order, pc, call>>

-----------------------------------------------------------------------------
Nothing == [key |-> None, config |-> None, since |-> 0, at |-> 0, result |-> {}, next |-> 1, amount |-> 0]
Ended == {"authorized", "ineligible", "denied"}

TypeOK ==
    /\ now \in 0 .. MaxTime
    /\ DOMAIN cache = Range(order) /\ Cardinality(Range(order)) = Len(order) /\ Len(order) <= Capacity
    /\ \A k \in DOMAIN cache : cache[k].deadline \in Nat /\ cache[k].result \subseteq Configs
    /\ pc \in [Calls -> {"idle", "target", "clock", "lookup", "assess", "keep", "answer", "grant",
                         "credential", "preflight"} \cup Ended]

Init ==
    /\ catalog \in [Keys -> Catalogs] /\ terms \in Terms /\ offer \in Offers /\ ask \in Asks
    /\ now = 0 /\ cache = <<>> /\ order = <<>>
    /\ pc = [p \in Calls |-> "idle"] /\ call = [p \in Calls |-> Nothing]

Tick ==
    /\ now < MaxTime /\ now' = now + 1
    /\ UNCHANGED <<input, cache, order, pc, call>>

Goto(p, step, mine) == pc' = [pc EXCEPT ![p] = step] /\ call' = [call EXCEPT ![p] = mine]
Leave == UNCHANGED <<input, now, cache, order>>

-----------------------------------------------------------------------------
(* stage, up to the eligibility check *)

\* The policy is enabled and the configuration pinned; see PolicyLifecycle.
Begin(p, k, c) ==
    /\ pc[p] \in {"idle"} \cup Ended
    /\ Goto(p, "target", [Nothing EXCEPT !.key = k, !.config = c, !.since = now])
    /\ Leave

\* A check of something that expires.
Unexpired(p, thing, from, to) ==
    /\ pc[p] = from
    /\ Goto(p, IF terms[thing] > now THEN to ELSE "denied", call[p])
    /\ Leave
Target(p) == Unexpired(p, "target", "target", "clock")

-----------------------------------------------------------------------------
(* _eligible *)

Current(r, t) == r.observed <= t /\ t < r.expires

ReadClock(p) == pc[p] = "clock" /\ Goto(p, "lookup", [call[p] EXCEPT !.at = now]) /\ Leave

MoveToEnd(k) == Append(RemoveFirst(order, k), k)

Hit_AnyAge(p) == call[p].key \in DOMAIN cache
Hit(p) == call[p].key \in DOMAIN cache /\ call[p].at < cache[call[p].key].deadline
Lookup(p) ==
    /\ pc[p] = "lookup"
    /\ \/ /\ Hit(p) /\ order' = MoveToEnd(call[p].key)
          /\ Goto(p, "answer", [call[p] EXCEPT !.result = cache[call[p].key].result])
       \/ ~Hit(p) /\ Goto(p, "assess", call[p]) /\ UNCHANGED order
    /\ UNCHANGED <<input, now, cache>>

\* filter: one configuration after the other.
Assess(p) ==
    /\ pc[p] = "assess"
    /\ LET mine == call[p]
           kept == IF Current(catalog[mine.key][mine.next], now) THEN {mine.next} ELSE {} IN
       Goto(p, IF mine.next = Cardinality(Configs) THEN "keep" ELSE "assess",
            [mine EXCEPT !.result = @ \cup kept, !.next = @ + 1])
    /\ Leave

\* Cached for Ttl, never beyond the first expiry; not at all while a record is still to come.
Records(k) == {catalog[k][c] : c \in Configs}
Deadline_TtlOnly(k, at) == at + Ttl
Deadline(k, at) == Min({at + Ttl} \cup {r.expires : r \in Records(k)})
Cacheable_AnyRecord(k, at) == TRUE
Cacheable(k, at) == \A r \in Records(k) : r.observed <= at
Bounded_KeepAll(s) == s
Bounded(s) == SubSeq(s, Len(s) - Min({Len(s), Capacity}) + 1, Len(s))
Keep(p) ==
    /\ pc[p] = "keep"
    /\ LET mine == call[p]
           kept == Bounded(MoveToEnd(mine.key))
           entry == [deadline |-> Deadline(mine.key, mine.at), result |-> mine.result] IN
        \/ /\ Cacheable(mine.key, mine.at) /\ order' = kept
           /\ cache' = [k \in Range(kept) |-> IF k = mine.key THEN entry ELSE cache[k]]
        \/ ~Cacheable(mine.key, mine.at) /\ UNCHANGED <<cache, order>>
    /\ Goto(p, "answer", call[p])
    /\ UNCHANGED <<input, now>>

Answer(p) ==
    /\ pc[p] = "answer"
    /\ Goto(p, IF call[p].config \in call[p].result THEN "grant" ELSE "ineligible", call[p])
    /\ Leave

-----------------------------------------------------------------------------
(* The rest of stage, and preflight *)

Grant(p) == Unexpired(p, "grant", "grant", "credential")
Credential(p) == Unexpired(p, "credential", "credential", "preflight")

\* effective_output_limit; a local deployment knows no limit on the prompt alone.
Limit_WholeContext(o, count) == o.output
Limit(o, count) ==
    IF None \in {o.context, o.output} \/ (o.prompt = None /\ ~o.local) THEN None
    ELSE IF (~o.local /\ count > o.prompt) \/ count >= o.context THEN 0
    ELSE Min({o.output, o.context - count})

\* cost_bound: denied unless prompt, completion and request prices are complete and
\* unconditional, with no surcharge and nothing else billed; rounded up.
Priced(o) == o.local \/ (o.complete /\ o.extra = "none")
CostBound_Down(o, in, out) ==
    IF o.local THEN 0 ELSE (o.prices[1] * in + o.prices[2] * out) \div Scale
CostBound(o, in, out) ==
    IF o.local THEN 0 ELSE (o.prices[1] * in + o.prices[2] * out + Scale - 1) \div Scale

Admitted(a, o) ==
    /\ a.count <= a.budget.input /\ a.max <= a.budget.output
    /\ Limit(o, a.count) # None /\ a.max <= Limit(o, a.count)
    /\ o.meets          \* privacy, restrictions, parameters, endpoint, region, workload profile
    /\ Priced(o) /\ CostBound(o, a.count, a.max) <= a.budget.cost
Preflight(p) ==
    /\ pc[p] = "preflight"
    /\ IF Admitted(ask, offer)
       THEN Goto(p, "authorized", [call[p] EXCEPT !.amount = CostBound(offer, ask.count, ask.max)])
       ELSE Goto(p, "denied", call[p])
    /\ Leave

-----------------------------------------------------------------------------
Next ==
    \/ Tick
    \/ \E p \in Calls :
        \/ \E k \in Keys, c \in Configs : Begin(p, k, c)
        \/ Target(p) \/ ReadClock(p) \/ Lookup(p) \/ Assess(p) \/ Keep(p) \/ Answer(p)
        \/ Grant(p) \/ Credential(p) \/ Preflight(p)

Spec == Init /\ [][Next]_vars

-----------------------------------------------------------------------------
(* Properties *)

Since(p) == call[p].since .. now
Eligible(k, t) == {c \in Configs : Current(catalog[k][c], t)}

\* "never beyond eligibility expiry": from now until its deadline, a cache entry is what the
\* selector would answer, although its clock and the one the deadline counts from differ and
\* overlapping calls overwrite each other's entries.
CacheIsFresh ==
    \A k \in DOMAIN cache : \A t \in 0 .. MaxTime :
        now <= t /\ t < cache[k].deadline => cache[k].result = Eligible(k, t)

\* An authorized configuration had current evidence, target, grant and credential at some
\* instant since the request began.
AuthorizedIsCurrent ==
    \A p \in Calls : pc[p] = "authorized" =>
        /\ \E t \in Since(p) : call[p].config \in Eligible(call[p].key, t)
        /\ \A thing \in DOMAIN terms : \E t \in Since(p) : t < terms[thing]

\* The cache refuses nothing either: a configuration found ineligible was so at some instant
\* since the request began.
RefusalIsCurrent ==
    \A p \in Calls : pc[p] = "ineligible" =>
        \E t \in Since(p) : call[p].config \notin Eligible(call[p].key, t)

\* Whatever the model answers within the admitted bounds, its charge, rounded up as the
\* adapter rounds it, is at most the amount reserved, and the conversation fits.
ReservedCoversCharge ==
    \A p \in Calls : pc[p] = "authorized" =>
        \A in \in 0 .. ask.count, out \in 0 .. ask.max :
            /\ (IF offer.local THEN 0
                ELSE offer.prices[1] * in + offer.prices[2] * out) <= Scale * call[p].amount
            /\ in + out <= offer.context /\ out <= offer.output
            /\ call[p].amount <= ask.budget.cost

\* A decision is one the evidence of some instant of the request justifies, cached or not.
DecisionsAreCurrent == TypeOK /\ CacheIsFresh /\ AuthorizedIsCurrent /\ RefusalIsCurrent
=============================================================================
