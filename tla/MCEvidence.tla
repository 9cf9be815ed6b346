----------------------------- MODULE MCEvidence -----------------------------
(***************************************************************************)
(* Evidence on small instances: research over changing recordings, every   *)
(* small catalog and workflow for the selector, overlapping calls on few   *)
(* catalogs, and one call on every small deployment and request.           *)
(***************************************************************************)
EXTENDS Evidence, TLC

CONSTANTS a, b, k1, k2

\* Selection: configurations described in every way that the checks tell apart.
Good == [weight |-> "true", access |-> TRUE, parameters |-> TRUE, deployment |-> "local",
         price |-> 1, observed |-> 0, expires |-> 3]
MCShapes ==
    {Good, [Good EXCEPT !.price = 2], [Good EXCEPT !.price = None], [Good EXCEPT !.expires = 2],
     [Good EXCEPT !.observed = 1], [Good EXCEPT !.weight = "unknown", !.price = 0],
     [Good EXCEPT !.weight = "false"], [Good EXCEPT !.access = FALSE, !.price = 0],
     [Good EXCEPT !.parameters = FALSE, !.price = 0], [Good EXCEPT !.deployment = None, !.price = 0],
     [Good EXCEPT !.deployment = "hosted", !.price = 0]}

Plain == [ceiling |-> None, parameters |-> FALSE, deployment |-> "any", unrepresented |-> FALSE]
MCWorkflows ==
    {Plain, [Plain EXCEPT !.ceiling = 1], [Plain EXCEPT !.parameters = TRUE, !.deployment = "local"],
     [Plain EXCEPT !.unrepresented = TRUE]}

\* Authority: records that stay current, expire soon, or are still to be observed.
Long == [observed |-> 0, expires |-> 9]
Soon == [observed |-> 0, expires |-> 2]
Later == [observed |-> 2, expires |-> 9]
MCCatalogs == {<<Long, Soon>>, <<Long, Later>>}
Lasting == [target |-> 9, grant |-> 9, credential |-> 9]
Ending == [target |-> 2, grant |-> 3, credential |-> 1]
MCTerms == {Lasting, Ending}

\* For preflight: every deployment that differs from a usual one in a few terms.
Hosted == [local |-> FALSE, complete |-> TRUE, extra |-> "none", meets |-> TRUE,
           prices |-> <<1, 3>>, context |-> 6, prompt |-> 4, output |-> 4]
Usual == [count |-> 2, max |-> 2, budget |-> [input |-> 4, output |-> 3, cost |-> 3]]
MCOffers ==
    {Hosted} \cup
    {[local |-> l, complete |-> c, extra |-> e, meets |-> m, prices |-> <<x, y>>,
      context |-> n, prompt |-> q, output |-> o] :
        l \in BOOLEAN, c \in BOOLEAN, e \in {"none", "billed"}, m \in BOOLEAN,
        x \in 0 .. 2, y \in 0 .. 3, n \in {None, 3, 6}, o \in {None, 4}, q \in {None, 3}}
MCAsks == {[Usual EXCEPT !.count = n, !.max = m] : n \in 1 .. 5, m \in 1 .. 3}

-----------------------------------------------------------------------------
Fixed == records = [k \in {k1, k2} |-> <<Long, Soon>>] /\ terms = Lasting
MCInit ==
    /\ part \in {"research", "selection", "authority", "preflight"}
    /\ part # "selection" => models = <<Good, Good, Good>> /\ workflow = Plain
    /\ part # "authority" => Fixed
    /\ part # "preflight" => offer = Hosted /\ ask = Usual
    /\ Init /\ Select!Init /\ Authority!Init

\* In the last part one call goes through once, at the first instant.
OneCall ==
    /\ instant' = instant
    /\ \E p \in {a, b} : pc'[p] = "idle"
    /\ \A p \in {a, b} : call'[p].key # k2 /\ call'[p].config # 2
MCNext == EvidenceNext /\ (part = "preflight" => OneCall)

MCSpec == MCInit /\ [][MCNext]_evidenceVars

\* Calls are interchangeable.
MCSymmetry == Permutations({a, b})
=============================================================================
