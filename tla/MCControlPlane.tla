---------------------------- MODULE MCControlPlane ----------------------------
(* ControlPlane for TLC: the tables of the parts start as follows. *)
EXTENDS ControlPlane, FiniteSetsExt, TLC

CONSTANTS a, b, c1, c2

\* An admission that expires, and one that lasts for other content.
MCAdmissions ==
    {[version |-> 1, content |-> c1, expires |-> 1],
     [version |-> 1, content |-> c2, expires |-> 2]}

\* The first policy compared costs 2 and has two stages, the second costs 1 and has one; a
\* request comes with enough for both or for the first only.
MCCost == <<2, 1>>
MCStages == <<2, 1>>

\* Total is the sum of its function.
ASSUME TotalIsSum ==
    \A S \in SUBSET (1 .. 3), f \in [1 .. 3 -> 0 .. 3] :
        Compare!Total(f, S) = MapThenSumSet(LAMBDA i : f[i], S)

-----------------------------------------------------------------------------
(* Edits: two model stages, the second reading the first, and three configurations *)

St(config, fallbacks, repairs, attempts, prompt, profile) ==
    [config |-> config, fallbacks |-> fallbacks, repairs |-> repairs, attempts |-> attempts,
     prompt |-> [id |-> prompt, version |-> 1], output |-> "text", profile |-> profile]
Po(s, t, decided) ==
    [id |-> "policy", version |-> 1, stages |-> <<s, t>>, decided |-> decided,
     prompts |-> IF s.prompt = t.prompt THEN <<s.prompt>> ELSE <<s.prompt, t.prompt>>]
MCSource == <<None, 1>>
MCOriginals ==
    {Po(St(3, <<>>, 0, 1, "a", o[1]), t, o[2]) :
        o \in {<<None, FALSE>>, <<None, TRUE>>, <<{2, 3}, FALSE>>},
        t \in {St(2, <<3, 1>>, 0, 3, "b", None), St(1, <<>>, 2, 3, "a", None), St(1, <<2>>, 1, 3, "b", None)}}
Pins == {<<>>, [n \in {1} |-> 1], [n \in {2} |-> 2]}
MCChanges ==
    {q \in [pins : Pins, excluded : {{}, {1}, {3}}, cheaper : {{}, {1}, {2}},
            kept : {None, 1, 2}, schemas : {{}, {1}, {2}}, misfits : {{}, {1}, {2}}] :
        /\ q.kept # None => q.cheaper # {}
        /\ q.schemas # {} => q.cheaper = {}
        /\ q.misfits # {} => q.kept = None /\ q.pins = <<>> /\ q.cheaper = {} /\ q.schemas = {}}

-----------------------------------------------------------------------------
\* A part that is not exercised starts in one way only.
MCInit ==
    /\ PlaneInit
    /\ part # "edits" => newest = Po(St(3, <<>>, 0, 1, "a", None), St(1, <<>>, 2, 3, "a", None), FALSE)
    /\ part # "comparisons" => cap = 3

MCSpec == MCInit /\ [][PlaneNext]_planeVars

\* Users are interchangeable.
MCSymmetry == Permutations({a, b})
=============================================================================
