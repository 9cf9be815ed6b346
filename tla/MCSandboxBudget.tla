-------------------------- MODULE MCSandboxBudget --------------------------
(* SandboxBudget for TLC: callers and attempt ids are interchangeable. *)
EXTENDS SandboxBudget, FiniteSetsExt, TLC

Symmetry == Permutations(Caller) \cup Permutations(Attempt)

\* Total is the sum of its function.
ASSUME TotalIsSum ==
    \A S \in SUBSET (1 .. 3), f \in [1 .. 3 -> 0 .. 3] : Total(f, S) = MapThenSumSet(LAMBDA i : f[i], S)
=============================================================================
