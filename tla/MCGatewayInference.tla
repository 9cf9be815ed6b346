------------------------- MODULE MCGatewayInference -------------------------
(* GatewayInference for TLC: a family of pinned stages. *)
EXTENDS GatewayInference

CONSTANTS c1, c2, b1, b2

\* A request costs 1 on every configuration, 2 with the whole input on the second.
Costs(n, high) == [i \in Slot |-> IF i > n THEN 0 ELSE IF i \in high THEN 2 ELSE 1]
Stage(n, cap, repairs, attempts, fallbackOn, retain, tools, calls) ==
    [n |-> n, est |-> Costs(n, {}), full |-> Costs(n, {2}), cap |-> cap,
     repairs |-> repairs, attempts |-> attempts, fallbackOn |-> fallbackOn,
     retain |-> retain, repairRetain |-> ~tools, tools |-> tools, calls |-> calls]

\* One call: up to two fallbacks and two repairs, two caps, two fallback_on lists.
Single ==
    {Stage(n, cap, r, a, f, FALSE, FALSE, [c \in {c1} |-> b1]) :
        n \in Slot, cap \in {3, 5}, r \in 0 .. 2, a \in {2, 3},
        f \in {{}, {"timeout", "quality_validation"}}}

\* Duplicates: no fallback, a retained answer.  Tools deny repairs, and so does the
\* missing retention of repairs.
Repeated == {Stage(1, 1, r, 2, {}, TRUE, TRUE, [c \in Call |-> IF c = c1 THEN b1 ELSE b]) :
        r \in 0 .. 1, b \in Body}

MCPlans ==
    {p \in Single \cup Repeated :
        /\ Bindings(p) /\ Priced(p)
        /\ p.n > 1 => p.attempts = 3
        /\ p.fallbackOn = {} => p.cap # 3}
=============================================================================
