------------------------- MODULE MCDeploymentHealth -------------------------
(* DeploymentHealth for TLC: calls of a strict and of a tolerant policy. *)
EXTENDS DeploymentHealth

CONSTANTS c1, c2, c3, c4

Strict == Call \cap {c1, c2}
MCThreshold == [c \in Call |-> IF c \in Strict THEN 1 ELSE 3]
MCCooldown == [c \in Call |-> IF c \in Strict THEN 2 ELSE 1]
=============================================================================
