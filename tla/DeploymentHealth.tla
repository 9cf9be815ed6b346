-------------------------- MODULE DeploymentHealth --------------------------
(***************************************************************************)
(* One row of deployment_health (gateway/health.py): the circuit of a      *)
(* (tenant, configuration, catalog), as concurrent calls of the gateway    *)
(* use it.  A call acquires the circuit before it starts and observes it   *)
(* when it finishes; between the two, other calls do the same.  The row is *)
(* shared: each call comes with the CircuitPolicy of the policy it serves. *)
(*                                                                         *)
(* Times are kept as what is left of them, so the clock needs no bound:    *)
(* open_until is (opened, openLeft), probe_until is probeLeft.  The sums   *)
(* total, successes, timeouts and latency_total_ms are written and never   *)
(* read by the circuit; they are left out.                                 *)
(***************************************************************************)
EXTENDS Naturals, FiniteSets

CONSTANTS
    Call,        \* concurrent inference attempts on the deployment
    Threshold,   \* CircuitPolicy.failures of each call's policy
    Cooldown,    \* CircuitPolicy.cooldown_seconds of each call's policy
    Highest,     \* a threshold no policy exceeds: 20 in the code
    Lease        \* the 120 s of a recovery probe

ASSUME CircuitAssumption ==
    /\ Call # {} /\ Highest \in Nat \ {0} /\ Lease \in Nat \ {0}
    /\ Threshold \in [Call -> 1 .. Highest] /\ Cooldown \in [Call -> Nat \ {0}]

VARIABLES
    opened,      \* open_until > 0
    openLeft,    \* open_until - now, while positive
    probeLeft,   \* probe_until - now, while positive
    failures,    \* consecutive unhealthy observations; only failures + 1 >= threshold is
                 \* ever tested, so the model stops counting at the highest threshold
    calling,     \* acquired and not yet observed
    lease,       \* what is left of the lease each call took for a probe
    disturbed    \* history: probes during which another call was observed

vars == <<opened, openLeft, probeLeft, failures, calling, lease, disturbed>>

TypeOK ==
    /\ opened \in BOOLEAN
    /\ openLeft \in Nat /\ \E c \in Call : openLeft <= Cooldown[c]
    /\ probeLeft \in 0 .. Lease
    /\ failures \in 0 .. Highest
    /\ calling \in SUBSET Call
    /\ lease \in [Call -> 0 .. Lease]
    /\ disturbed \in SUBSET Call

\* The INSERT of a missing row: every column starts at zero.
Init ==
    /\ opened = FALSE /\ openLeft = 0 /\ probeLeft = 0 /\ failures = 0
    /\ calling = {}
    /\ lease = [c \in Call |-> 0]
    /\ disturbed = {}

-----------------------------------------------------------------------------
Less(n) == IF n = 0 THEN 0 ELSE n - 1

\* Mutant: a lease ends only when its probe is observed.
Tick_LeaseNeverEnds ==
    /\ openLeft' = Less(openLeft)
    /\ UNCHANGED <<opened, probeLeft, lease, failures, calling, disturbed>>

Tick ==
    /\ openLeft' = Less(openLeft)
    /\ probeLeft' = Less(probeLeft)
    /\ lease' = [c \in Call |-> Less(lease[c])]
    /\ UNCHANGED <<opened, failures, calling, disturbed>>

\* The WHERE clause of acquire's UPDATE; unavailable selects the rows that fail it.
Acquirable_IgnoreProbe == openLeft = 0
Acquirable == openLeft = 0 /\ probeLeft = 0

ProbeLease_Doubled == 2 * Lease
ProbeLease == Lease

\* acquire succeeds.  A call through an open, cooled down circuit is its recovery probe.
Acquire(c) ==
    /\ c \notin calling
    /\ Acquirable
    /\ calling' = calling \cup {c}
    /\ probeLeft' = IF opened THEN ProbeLease ELSE probeLeft
    /\ lease' = [lease EXCEPT ![c] = IF opened THEN Lease ELSE 0]
    /\ disturbed' = disturbed \ {c}
    /\ UNCHANGED <<opened, openLeft, failures>>

\* start raised after acquire, or the process died: the call is never observed.
Vanish(c) ==
    /\ c \in calling
    /\ calling' = calling \ {c}
    /\ lease' = [lease EXCEPT ![c] = 0]
    /\ UNCHANGED <<opened, openLeft, probeLeft, failures, disturbed>>

\* observe: provider_failure, rate_limit and timeout are unhealthy; success and every
\* other failure kind (a validation failure says nothing of the provider) are not.
Trips_OneLate(c, unhealthy) == unhealthy /\ failures >= Threshold[c]
Trips(c, unhealthy) == unhealthy /\ failures + 1 >= Threshold[c]

ProbeAfterObserve_Kept == probeLeft
ProbeAfterObserve == 0

Observe(c, unhealthy) ==
    /\ c \in calling
    /\ opened' = Trips(c, unhealthy)
    /\ openLeft' = IF Trips(c, unhealthy) THEN Cooldown[c] ELSE 0
    /\ failures' = IF ~unhealthy THEN 0 ELSE IF failures < Highest THEN failures + 1 ELSE failures
    /\ probeLeft' = ProbeAfterObserve
    /\ calling' = calling \ {c}
    /\ lease' = [lease EXCEPT ![c] = 0]
    /\ disturbed' = calling \ {c}

Next ==
    \/ Tick
    \/ \E c \in Call :
        Acquire(c) \/ Vanish(c) \/ \E unhealthy \in BOOLEAN : Observe(c, unhealthy)

Spec == Init /\ [][Next]_vars

\* Time passes.
FairSpec == Spec /\ WF_vars(Tick)

-----------------------------------------------------------------------------
(* Properties *)

\* The probes in flight whose lease has not run out.
Probes == {c \in calling : lease[c] > 0}

\* The circuit is open only during a streak of unhealthy observations, whichever calls they
\* came from, that is long enough for some policy, and it is open whenever the streak is long
\* enough for every policy.  In between it depends on who was observed last: a call that
\* fails under a tolerant policy closes what a strict one opened.
OpenByStreak ==
    /\ opened => \E c \in Call : failures >= Threshold[c]
    /\ (\A c \in Call : failures >= Threshold[c]) => opened

\* A cooldown or a probe lease exists only on an open circuit: a closed circuit refuses
\* nobody.
ClosedRefusesNobody == ~opened => Acquirable

\* What the lease does guarantee: of the probes in flight during which no other call was
\* observed there is at most one, and it still holds the circuit.
OneUndisturbedProbe ==
    \A c \in Probes \ disturbed :
        probeLeft >= lease[c] /\ \A d \in Probes \ disturbed : c = d

\* What the circuit of a deployment promises to the policies that share it.
CircuitSafety == OpenByStreak /\ ClosedRefusesNobody /\ OneUndisturbedProbe

\* "no model bans": whatever calls fail, vanish or never return, the circuit can be
\* acquired again and again.
NeverBanned == []<>Acquirable

\* "An atomic lease allows one recovery probe after cooldown": no second probe is in
\* flight while the first one's lease lasts.
OneProbe == \A c, d \in Probes : c = d
=============================================================================
