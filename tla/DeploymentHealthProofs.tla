----------------------- MODULE DeploymentHealthProofs -----------------------
(***************************************************************************)
(* Proofs about DeploymentHealth for any number of concurrent calls, any   *)
(* mixture of thresholds and cooldowns, and any lease.                     *)
(***************************************************************************)
EXTENDS DeploymentHealth, TLAPS

\* A disturbed probe has lost the lease; an undisturbed one holds it, alone.
IndInv == OpenByStreak /\ ClosedRefusesNobody /\ OneUndisturbedProbe

\* The circuit starts closed and unused.
LEMMA CircuitInit == Init => TypeOK /\ IndInv
  <1> SUFFICES ASSUME Init PROVE TypeOK /\ IndInv
    OBVIOUS
  <1>1. TypeOK
    <2>1. opened \in BOOLEAN
      BY Zenon DEF Init
    <2>2. 0 \in 0 .. Lease /\ 0 \in 0 .. Highest /\ \E c \in Call : 0 <= Cooldown[c]
      BY CircuitAssumption
    <2> QED BY <2>1, <2>2 DEF Init, TypeOK
  <1>2. OpenByStreak /\ ClosedRefusesNobody
    BY CircuitAssumption DEF Init, OpenByStreak, ClosedRefusesNobody, Acquirable
  <1>3. OneUndisturbedProbe
    BY DEF Init, OneUndisturbedProbe, Probes
  <1> QED BY <1>1, <1>2, <1>3 DEF IndInv

\* Each operation on the row keeps the types and the three properties.
LEMMA CircuitStep == TypeOK /\ IndInv /\ [Next]_vars => TypeOK' /\ IndInv'
  <1> SUFFICES ASSUME TypeOK, IndInv, [Next]_vars PROVE TypeOK' /\ IndInv'
    OBVIOUS
  <1> USE CircuitAssumption
      DEF TypeOK, IndInv, OpenByStreak, ClosedRefusesNobody, Acquirable, OneUndisturbedProbe, Probes
  <1>1. CASE Tick
    BY <1>1 DEF Tick, Less
  <1>2. ASSUME NEW c \in Call, Acquire(c) PROVE TypeOK' /\ IndInv'
    BY <1>2 DEF Acquire, ProbeLease
  <1>3. ASSUME NEW c \in Call, Vanish(c) PROVE TypeOK' /\ IndInv'
    BY <1>3 DEF Vanish
  <1>4. ASSUME NEW c \in Call, NEW u \in BOOLEAN, Observe(c, u) PROVE TypeOK' /\ IndInv'
    BY <1>4 DEF Observe, Trips, ProbeAfterObserve
  <1>5. CASE UNCHANGED vars
    BY <1>5 DEF vars
  <1> QED BY <1>1, <1>2, <1>3, <1>4, <1>5 DEF Next

\* The row keeps its types.
THEOREM TypeCorrect == Spec => []TypeOK
  <1> QED BY CircuitInit, CircuitStep, PTL DEF Spec

\* The circuit is open only during a streak long enough for some policy, and always during
\* one long enough for every policy.
THEOREM OpenByStreakHolds == Spec => []OpenByStreak
  <1>1. IndInv => OpenByStreak
    BY DEF IndInv
  <1> QED BY <1>1, CircuitInit, CircuitStep, PTL DEF Spec

\* A closed circuit has neither a cooldown nor a probe lease left to refuse a call with.
THEOREM ClosedRefusesNobodyHolds == Spec => []ClosedRefusesNobody
  <1>1. IndInv => ClosedRefusesNobody
    BY DEF IndInv
  <1> QED BY <1>1, CircuitInit, CircuitStep, PTL DEF Spec

\* At most one probe is in flight among those no other call's observation disturbed.
THEOREM OneUndisturbedProbeHolds == Spec => []OneUndisturbedProbe
  <1>1. IndInv => OneUndisturbedProbe
    BY DEF IndInv
  <1> QED BY <1>1, CircuitInit, CircuitStep, PTL DEF Spec

\* The circuit opens by streaks, refuses nobody when closed and lets one undisturbed probe
\* through, for any set of policies that share it.
THEOREM CircuitSafetyHolds == Spec => []CircuitSafety
  BY OpenByStreakHolds, ClosedRefusesNobodyHolds, OneUndisturbedProbeHolds, PTL DEF CircuitSafety
=============================================================================
