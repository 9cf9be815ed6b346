-------------------------- MODULE MCRuntimeQueue --------------------------
(* Small instances of RuntimeQueue for TLC. *)
EXTENDS RuntimeQueue, TLC

\* Runs, workers, keys and contents are interchangeable; used by the safety run only.
Symmetry == Permutations(Run) \cup Permutations(Worker)
            \cup Permutations(Key) \cup Permutations(Content)
=============================================================================
