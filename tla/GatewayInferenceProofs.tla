----------------------- MODULE GatewayInferenceProofs -----------------------
(***************************************************************************)
(* Proofs about GatewayInference for any number of HTTP calls with one     *)
(* idempotency key, any request bodies and every pinned stage that the     *)
(* policy contract and preflight admit.                                    *)
(***************************************************************************)
EXTENDS GatewayInference, TLAPS

\* The steps of infer's loop, before and after start has reserved.
Opening == {"attempt", "start"}
Started == {"recheck", "dispatch", "inflight", "finish", "fail"}
Looping == Opening \cup Started \cup {"choose"}
Final == {"none", "succeeded", "failed", "cancelled", "uncertain"}

\* One call at a time works on the request, in the state its step expects; it presented the
\* body the key is bound to, and so did every duplicate.
WorkerInv ==
    /\ \A c, d \in Call : pc[c] \in Working /\ pc[d] \in Working => c = d
    /\ \A c \in Call :
        /\ pc[c] = "advance" => request = "queued"
        /\ pc[c] \in Working \ {"advance"} => request = "running"
        /\ pc[c] \in Working \cup {"duplicate"} => body[c] = bound
        /\ pc[c] = "duplicate" => request # "none"

\* A success was delivered to a call with the bound body, and only such a body is replayed.
ReplayInv ==
    /\ \A c \in Call : pc[c] # "done" => seen[c] = "nothing"
    /\ request = "succeeded" => \E d \in Call : seen[d] = "answer" /\ body[d] = bound
    /\ \A c \in Call : seen[c] = "replay" => request = "succeeded" /\ body[c] = bound

\* Every attempt but the first is a fallback or a repair.
LoopInv ==
    /\ cand <= plan.n /\ left <= plan.repairs
    /\ index = (cand - 1) + (plan.repairs - left)
    /\ repairing => left < plan.repairs
    /\ LoopNeverRunsOut

\* What infer has done before its loop: nothing.
Untouched == /\ attempt = [i \in Slot |-> "none"]
             /\ spent = 0 /\ sends = 0 /\ lateSends = 0 /\ index = 0 /\ ~repairing

\* The worker is done with an attempt: its record is final, or its provider call went out and
\* the answer could not be stored.
Closed(i) == attempt[i] \in Final \/ (attempt[i] = "dispatched" /\ invalid[i] = "refused")

\* The record of each attempt at each step of the worker.
RecordInv ==
    /\ request \in {"none", "queued"} => Untouched
    /\ \A c \in Call :
        /\ pc[c] = "infer" => Untouched
        /\ pc[c] \in Looping \cup {"deliver", "raise"} =>
            \A i \in Slot : i # Current => Closed(i)
        /\ pc[c] \in Opening => \A i \in Slot : i >= Current => attempt[i] = "none"
        /\ pc[c] \in Looping => \A i \in Slot : i > Current => attempt[i] = "none"
        /\ pc[c] = "deliver" => attempt[Current] \in {"succeeded", "uncertain"}
        /\ pc[c] = "inflight" \/ (pc[c] = "fail" /\ answered) => attempt[Current] = "dispatched"
        /\ pc[c] \in {"choose", "raise"} => Closed(Current)
    /\ AccountedWhenSettled

\* Each attempt sends at most once, and an answer has been sent for.
SendInv ==
    /\ sends <= 3
    /\ \A c \in Call :
        /\ pc[c] \in Opening \cup {"recheck", "dispatch"} => sends <= index
        /\ pc[c] \in Looping => sends <= Current
        /\ pc[c] \in {"inflight", "finish", "deliver"} => sends > 0

\* After a late send nobody is past a check that the change of authority would stop.
LateInv ==
    /\ lateSends <= 1
    /\ lateSends = 1 =>
        /\ ~(enabled /\ pinned /\ keyLive)
        /\ \A c \in Call : /\ pc[c] # "dispatch"
                           /\ pc[c] = "recheck" => ~(enabled /\ pinned)

\* The envelope that infer checks, spelled out: the first n configurations and r repairs.
Upto(f, n) == IF n = 0 THEN 0 ELSE IF n = 1 THEN f[1] ELSE IF n = 2 THEN f[1] + f[2] ELSE Total(f)
Times(r, x) == IF r = 0 THEN 0 ELSE IF r = 1 THEN x ELSE x + x
Allowance(p, n, r) == Upto(Envelopes(p), n) + Times(r, Largest(Envelopes(p)))

\* What has been reserved stays within the configurations tried and the repairs used.
SpendInv ==
    /\ SpendWithinStage
    /\ \A c \in Call :
        /\ pc[c] \in Looping => WithinStage(plan)
        /\ pc[c] \in Opening =>
             spent <= IF repairing THEN Allowance(plan, cand, plan.repairs - left - 1)
                                   ELSE Allowance(plan, cand - 1, plan.repairs - left)
        /\ pc[c] \in Started \cup {"choose"} => spent <= Allowance(plan, cand, plan.repairs - left)

IndInv ==
    /\ TypeOK /\ WorkerInv /\ ReplayInv /\ OpenOnlyByCrash /\ LoopInv /\ RecordInv
    /\ SendInv /\ LateInv /\ SpendInv
-----------------------------------------------------------------------------
(* The steps *)

\* What the policy contract and preflight guarantee about the pinned stage.
LEMMA PlanFacts ==
    ASSUME NEW p \in Plans
    PROVE  /\ p.n \in Slot /\ p.repairs \in 0 .. 2 /\ p.attempts \in Slot /\ p.cap \in Nat
           /\ p.est \in [Slot -> Nat] /\ p.full \in [Slot -> Nat]
           /\ \A i \in Slot : p.est[i] <= p.full[i]
           /\ p.n > 1 \/ p.repairs > 0 => p.n + p.repairs <= p.attempts
           /\ p.retain \in BOOLEAN
  <1>1. p \in Plan /\ Bindings(p) /\ Priced(p)
    BY PlansAssumption
  <1>2. /\ p.n \in Slot /\ p.repairs \in 0 .. 2 /\ p.attempts \in Slot /\ p.cap \in Nat
        /\ p.est \in [Slot -> Nat] /\ p.full \in [Slot -> Nat] /\ p.retain \in BOOLEAN
    BY <1>1 DEF Plan
  <1> QED BY <1>1, <1>2 DEF Bindings, Priced

\* The attempts are enough: a repair or a configuration that is left has an attempt left.
LEMMA LoopFits ==
    ASSUME TypeOK, LoopInv, MayRepair \/ cand < plan.n
    PROVE  index + 1 < LoopBound(plan) /\ index + 1 \in 0 .. 2
  <1>1. plan \in Plans
    BY DEF TypeOK
  <1>2. /\ plan.n \in 1 .. 3 /\ plan.repairs \in 0 .. 2 /\ plan.attempts \in 1 .. 3
        /\ plan.n > 1 \/ plan.repairs > 0 => plan.n + plan.repairs <= plan.attempts
    BY <1>1, PlanFacts DEF Slot
  <1>3. /\ cand \in 1 .. 3 /\ left \in 0 .. 2 /\ cand <= plan.n /\ left <= plan.repairs
        /\ index = (cand - 1) + (plan.repairs - left)
        /\ left > 0 \/ cand < plan.n
    BY DEF TypeOK, LoopInv, MayRepair, Slot
  <1>4. plan.n + plan.repairs <= plan.attempts /\ index + 1 < plan.n + plan.repairs
    BY <1>2, <1>3
  <1>5. LoopBound(plan) = plan.n + plan.repairs
    BY <1>2, <1>4 DEF LoopBound
  <1>6. index \in Nat
    BY <1>2, <1>3
  <1> QED BY <1>2, <1>4, <1>5, <1>6

\* How the allowance grows with each configuration and each repair, within the stage cap.
LEMMA AllowanceFacts ==
    ASSUME NEW p \in Plans
    PROVE  /\ \A n \in 0 .. 3, r \in 0 .. 2 : Allowance(p, n, r) \in Nat
           /\ \A n \in Slot, r \in 0 .. 2 :
                Allowance(p, n - 1, r) + p.est[n] <= Allowance(p, n, r)
           /\ \A n \in Slot, r \in {1, 2} :
                p.repairs > 0 => Allowance(p, n, r - 1) + p.full[n] <= Allowance(p, n, r)
           /\ WithinStage(p) =>
                \A n \in Slot, r \in 0 .. p.repairs : Allowance(p, n, r) <= p.cap
  <1> DEFINE E == Envelopes(p)
             L == Largest(E)
  <1>1. E \in [Slot -> Nat] /\ \A i \in Slot : p.est[i] <= E[i]
    BY PlanFacts DEF Envelopes, Slot
  <1>2. E[1] \in Nat /\ E[2] \in Nat /\ E[3] \in Nat
    BY <1>1 DEF Slot
  <1>3. L \in Nat /\ E[1] <= L /\ E[2] <= L /\ E[3] <= L
    BY <1>2 DEF Largest
  <1>4. p.repairs > 0 => E = p.full
    BY DEF Envelopes
  <1>5. \A n \in 0 .. 3, r \in 0 .. 2 : Allowance(p, n, r) = Upto(E, n) + Times(r, L)
    BY DEF Allowance
  <1>6. WithinStage(p) => Total(E) + p.repairs * L <= p.cap
    BY DEF WithinStage
  <1> HIDE DEF E, L
  <1>7. \A n \in 0 .. 3 : Upto(E, n) \in Nat /\ Upto(E, n) <= Total(E)
    BY <1>2 DEF Upto, Total
  <1>8. \A n \in Slot : Upto(E, n - 1) + E[n] = Upto(E, n)
    BY <1>2 DEF Upto, Total, Slot
  <1>9. \A r \in 0 .. 2 : Times(r, L) \in Nat
    BY <1>3 DEF Times
  <1>10. \A r \in {1, 2} : Times(r - 1, L) + L = Times(r, L)
    BY <1>3 DEF Times
  <1>11. \A r \in 0 .. p.repairs : Times(r, L) <= p.repairs * L
    <2>1. CASE p.repairs = 0
      BY <1>3, <2>1 DEF Times
    <2>2. CASE p.repairs = 1
      BY <1>3, <2>2 DEF Times
    <2>3. CASE p.repairs = 2
      BY <1>3, <2>3 DEF Times
    <2> QED BY <2>1, <2>2, <2>3, PlanFacts
  <1>12. \A n \in 0 .. 3, r \in 0 .. 2 : Allowance(p, n, r) \in Nat
    BY <1>5, <1>7, <1>9
  <1>13. ASSUME NEW n \in Slot, NEW r \in 0 .. 2
         PROVE  Allowance(p, n - 1, r) + p.est[n] <= Allowance(p, n, r)
    <2>1. n - 1 \in 0 .. 3 /\ n \in 0 .. 3 /\ p.est[n] \in Nat /\ E[n] \in Nat
      BY <1>1, PlanFacts DEF Slot
    <2>2. p.est[n] <= E[n]
      BY <1>1
    <2> QED BY <1>5, <1>7, <1>8, <1>9, <2>1, <2>2
  <1>14. ASSUME NEW n \in Slot, NEW r \in {1, 2}, p.repairs > 0
         PROVE  Allowance(p, n, r - 1) + p.full[n] <= Allowance(p, n, r)
    <2>1. n \in 0 .. 3 /\ r \in 0 .. 2 /\ r - 1 \in 0 .. 2 /\ E[n] \in Nat /\ E[n] <= L
      BY <1>1, <1>3 DEF Slot
    <2>2. p.full[n] = E[n]
      BY <1>4, <1>14
    <2> QED BY <1>3, <1>5, <1>7, <1>9, <1>10, <2>1, <2>2
  <1>15. ASSUME WithinStage(p), NEW n \in Slot, NEW r \in 0 .. p.repairs
         PROVE  Allowance(p, n, r) <= p.cap
    <2>1. n \in 0 .. 3 /\ r \in 0 .. 2 /\ p.repairs * L \in Nat /\ Total(E) \in Nat
      BY <1>2, <1>3, PlanFacts DEF Slot, Total
    <2> QED BY <1>5, <1>6, <1>7, <1>9, <1>11, <1>15, <2>1, PlanFacts
  <1> QED BY <1>12, <1>13, <1>14, <1>15

\* An attempt that start lets through was allowed for, and so was one that it refuses.
LEMMA OpeningFits ==
    ASSUME IndInv, NEW c \in Call, pc[c] \in Opening
    PROVE  /\ spent <= Allowance(plan, cand, plan.repairs - left)
           /\ \A a \in Amounts : spent + a <= Allowance(plan, cand, plan.repairs - left)
           /\ Allowance(plan, cand, plan.repairs - left) <= plan.cap
  <1> DEFINE r == plan.repairs - left
  <1>1. /\ plan \in Plans /\ cand \in Slot /\ spent \in Nat /\ left <= plan.repairs
        /\ left \in 0 .. 2 /\ WithinStage(plan) /\ (repairing => left < plan.repairs)
    BY DEF IndInv, TypeOK, LoopInv, SpendInv, Looping
  <1>2. /\ r \in 0 .. plan.repairs /\ r \in 0 .. 2
        /\ repairing => r \in {1, 2} /\ r - 1 \in 0 .. 2 /\ plan.repairs > 0
        /\ plan.est[cand] \in Nat /\ plan.full[cand] \in Nat
    BY <1>1, PlanFacts
  <1>3. cand \in 0 .. 3 /\ cand - 1 \in 0 .. 3
    BY <1>1 DEF Slot
  <1> HIDE DEF r
  <1>4. Allowance(plan, cand, r) \in Nat /\ Allowance(plan, cand, r) <= plan.cap
    BY <1>1, <1>2, <1>3, AllowanceFacts
  <1>5. ASSUME repairing
        PROVE  /\ spent <= Allowance(plan, cand, r)
               /\ \A a \in Amounts : spent + a <= Allowance(plan, cand, r)
    <2>1. spent <= Allowance(plan, cand, r - 1)
      BY <1>5 DEF IndInv, SpendInv, r
    <2>2. Allowance(plan, cand, r - 1) + plan.full[cand] <= Allowance(plan, cand, r)
      BY <1>1, <1>2, <1>5, AllowanceFacts
    <2>3. Allowance(plan, cand, r - 1) \in Nat
      BY <1>2, <1>3, <1>5, AllowanceFacts, <1>1
    <2>4. \A a \in Amounts : a \in Nat /\ a <= plan.full[cand]
      BY <1>2, <1>5 DEF Amounts
    <2> QED BY <1>1, <1>2, <1>4, <2>1, <2>2, <2>3, <2>4
  <1>6. ASSUME ~repairing
        PROVE  /\ spent <= Allowance(plan, cand, r)
               /\ \A a \in Amounts : spent + a <= Allowance(plan, cand, r)
    <2>1. spent <= Allowance(plan, cand - 1, r)
      BY <1>6 DEF IndInv, SpendInv, r
    <2>2. Allowance(plan, cand - 1, r) + plan.est[cand] <= Allowance(plan, cand, r)
      BY <1>1, <1>2, AllowanceFacts
    <2>3. Allowance(plan, cand - 1, r) \in Nat
      BY <1>1, <1>2, <1>3, AllowanceFacts
    <2>4. \A a \in Amounts : a = plan.est[cand]
      BY <1>6 DEF Amounts
    <2> QED BY <1>1, <1>2, <1>4, <2>1, <2>2, <2>3, <2>4
  <1> QED BY <1>4, <1>5, <1>6 DEF r

\* Every step keeps the types.
LEMMA TypeStep == IndInv /\ [Next]_vars => TypeOK'
  <1> SUFFICES ASSUME IndInv, [Next]_vars PROVE TypeOK'
    OBVIOUS
  <1> USE DEF IndInv, TypeOK, Steps, Slot, Kinds, Statuses, Reasons, Current, authority, row,
          callVars, loopVars, records, history, Goto, Reply
  <1>1. ASSUME NEW c \in Call,
               Arrive(c) \/ CheckKey(c) \/ Authorize(c) \/ FindDuplicate(c)
               \/ KeyConflict(c) \/ Replay(c)
        PROVE TypeOK'
    BY <1>1 DEF Arrive, CheckKey, Authorize, FindDuplicate, KeyConflict, Replay, MayReplay
  <1>2. ASSUME NEW c \in Call,
               Register(c) \/ Advance(c)
        PROVE TypeOK'
    BY <1>2 DEF Register, KeyIsFree, Advance
  <1>3. ASSUME NEW c \in Call,
               Infer(c)
        PROVE TypeOK'
    BY <1>3 DEF Infer, Raise
  <1>4. ASSUME NEW c \in Call,
               Acquire(c)
        PROVE TypeOK'
    BY <1>4 DEF Acquire, Fail
  <1>5. ASSUME NEW c \in Call,
               Start(c)
        PROVE TypeOK'
    <2>1. Amounts \subseteq Nat
      BY PlanFacts DEF Amounts
    <2>2. answered' \in BOOLEAN
      BY <1>5 DEF Start
    <2>3. spent' \in Nat
      BY <1>5, <2>1 DEF Start
    <2> QED BY <1>5, <2>2, <2>3 DEF Start
  <1>6. ASSUME NEW c \in Call,
               StartRefused(c)
        PROVE TypeOK'
    BY <1>6 DEF StartRefused, Fail, Raise
  <1>7. ASSUME NEW c \in Call,
               Recheck(c)
        PROVE TypeOK'
    <2>1. answered' \in BOOLEAN
      BY <1>7 DEF Recheck, Broken
    <2>2. kind' \in Kinds
      BY <1>7 DEF Recheck, Broken
    <2> QED BY <1>7, <2>1, <2>2 DEF Recheck, Broken
  <1>8. ASSUME NEW c \in Call,
               Dispatch(c)
        PROVE TypeOK'
    BY <1>8 DEF Dispatch
  <1>9. ASSUME NEW c \in Call,
               Answer(c)
        PROVE TypeOK'
    <2>1. answered' \in BOOLEAN
      BY <1>9 DEF Answer, Broken
    <2>2. kind' \in Kinds
      BY <1>9 DEF Answer, Broken, Validated, Unanswered
    <2> QED BY <1>9, <2>1, <2>2 DEF Answer, Broken
  <1>10. ASSUME NEW c \in Call,
               FinishAnswered(c)
        PROVE TypeOK'
    BY <1>10 DEF FinishAnswered, Fail
  <1>11. ASSUME NEW c \in Call,
               FinishFailed(c) \/ OutputRefused(c)
        PROVE TypeOK'
    BY <1>11 DEF FinishFailed, OutputRefused, KeepsOutput, Repairable, Raise, Fail
  <1>12. ASSUME NEW c \in Call,
               Repair(c)
        PROVE TypeOK'
    <2>1. index' \in 0 .. 2 /\ left' \in 0 .. 2
      BY <1>12, LoopFits DEF Repair, NextAttempt, MayRepair
    <2> QED BY <1>12, <2>1 DEF Repair, NextAttempt, Raise
  <1>13. ASSUME NEW c \in Call,
               Fallback(c)
        PROVE TypeOK'
    <2>1. index' \in 0 .. 2 /\ cand' \in Slot
      BY <1>13, LoopFits, PlanFacts DEF Fallback, NextAttempt
    <2>2. repairing' \in BOOLEAN
      BY <1>13 DEF Fallback
    <2> QED BY <1>13, <2>1, <2>2 DEF Fallback, NextAttempt, Raise
  <1>14. ASSUME NEW c \in Call,
               StopTrying(c)
        PROVE TypeOK'
    BY <1>14 DEF StopTrying, Raise
  <1>15. ASSUME NEW c \in Call,
               Deliver(c)
        PROVE TypeOK'
    <2>1. output' \in BOOLEAN
      BY <1>15, PlanFacts DEF Deliver
    <2>2. request' \in {"succeeded", "uncertain"}
      BY <1>15 DEF Deliver, RecordInv
    <2> QED BY <1>15, <2>1, <2>2 DEF Deliver
  <1>16. ASSUME NEW c \in Call,
               AnswerRefused(c) \/ SettleRaised(c)
        PROVE TypeOK'
    BY <1>16 DEF AnswerRefused, Raise, SettleRaised
  <1>17. ASSUME NEW c \in Call,
               Crash(c)
        PROVE TypeOK'
    BY <1>17 DEF Crash
  <1>18. CASE Disable \/ Repin \/ Revoke \/ DeadlinePasses \/ ForgetOutput \/ UNCHANGED vars
    <2>1. /\ enabled' \in BOOLEAN /\ pinned' \in BOOLEAN /\ keyLive' \in BOOLEAN
          /\ late' \in BOOLEAN /\ output' \in BOOLEAN
      BY <1>18 DEF Disable, Repin, Revoke, DeadlinePasses, ForgetOutput, vars
    <2> QED BY <1>18, <2>1 DEF Disable, Repin, Revoke, DeadlinePasses, ForgetOutput, vars
  <1> QED BY <1>1, <1>2, <1>3, <1>4, <1>5, <1>6, <1>7, <1>8, <1>9, <1>10, <1>11, <1>12, <1>13,
    <1>14, <1>15, <1>16, <1>17, <1>18 DEF Next, Serve

\* The worker is the call that registered the request.
LEMMA WorkerStep == IndInv /\ [Next]_vars => WorkerInv'
  <1> SUFFICES ASSUME IndInv, [Next]_vars PROVE WorkerInv'
    OBVIOUS
  <1> USE DEF IndInv, TypeOK, WorkerInv, Working, Steps, authority, row, callVars, loopVars,
          records, history, Goto, Reply
  <1>1. ASSUME NEW c \in Call,
               Arrive(c) \/ CheckKey(c) \/ Authorize(c)
        PROVE WorkerInv'
    BY <1>1 DEF Arrive, CheckKey, Authorize
  <1>2. ASSUME NEW c \in Call,
               Register(c)
        PROVE WorkerInv'
    BY <1>2 DEF Register, KeyIsFree
  <1>3. ASSUME NEW c \in Call,
               FindDuplicate(c) \/ KeyConflict(c) \/ Replay(c)
        PROVE WorkerInv'
    BY <1>3 DEF FindDuplicate, KeyConflict, Replay, MayReplay
  <1>4. ASSUME NEW c \in Call,
               Advance(c)
        PROVE WorkerInv'
    BY <1>4 DEF Advance
  <1>5. ASSUME NEW c \in Call,
               Infer(c) \/ Acquire(c) \/ Start(c) \/ StartRefused(c)
               \/ Recheck(c) \/ Dispatch(c) \/ Answer(c) \/ FinishAnswered(c)
               \/ FinishFailed(c) \/ OutputRefused(c) \/ Repair(c) \/ Fallback(c) \/ StopTrying(c)
        PROVE WorkerInv'
    BY <1>5 DEF Infer, Raise, Acquire, Fail, Start, Amounts, StartRefused, Recheck, Broken,
        Dispatch, Answer, Validated, Unanswered, FinishAnswered, FinishFailed, OutputRefused, KeepsOutput, Repairable, Repair,
        MayRepair, NextAttempt, Fallback, StopTrying
  <1>6. ASSUME NEW c \in Call,
               Deliver(c)
        PROVE WorkerInv'
    BY <1>6 DEF Deliver, RecordInv, Current, Slot
  <1>7. ASSUME NEW c \in Call,
               AnswerRefused(c) \/ SettleRaised(c)
        PROVE WorkerInv'
    BY <1>7 DEF AnswerRefused, Raise, SettleRaised
  <1>8. ASSUME NEW c \in Call,
               Crash(c)
        PROVE WorkerInv'
    BY <1>8 DEF Crash
  <1>9. CASE Disable \/ Repin \/ Revoke \/ DeadlinePasses \/ ForgetOutput \/ UNCHANGED vars
    BY <1>9 DEF Disable, Repin, Revoke, DeadlinePasses, ForgetOutput, vars
  <1> QED BY <1>1, <1>2, <1>3, <1>4, <1>5, <1>6, <1>7, <1>8, <1>9 DEF Next, Serve

\* Only Deliver makes a request a success.
LEMMA ReplayStep == IndInv /\ [Next]_vars => ReplayInv'
  <1> SUFFICES ASSUME IndInv, [Next]_vars PROVE ReplayInv'
    OBVIOUS
  <1> USE DEF IndInv, TypeOK, ReplayInv, WorkerInv, RecordInv, Working, Steps, authority, row,
          callVars, loopVars, records, history, Goto, Reply
  <1>1. ASSUME NEW c \in Call,
               Arrive(c) \/ CheckKey(c) \/ Authorize(c) \/ KeyConflict(c)
        PROVE ReplayInv'
    BY <1>1 DEF Arrive, CheckKey, Authorize, KeyConflict
  <1>2. ASSUME NEW c \in Call,
               Register(c)
        PROVE ReplayInv'
    BY <1>2 DEF Register, KeyIsFree
  <1>3. ASSUME NEW c \in Call,
               FindDuplicate(c) \/ Advance(c) \/ Infer(c) \/ Acquire(c)
               \/ Start(c) \/ StartRefused(c) \/ Recheck(c) \/ Dispatch(c)
        PROVE ReplayInv'
    BY <1>3 DEF FindDuplicate, Advance, Infer, Raise, Acquire, Fail, Start, Amounts, StartRefused,
        Recheck, Broken, Dispatch
  <1>4. ASSUME NEW c \in Call,
               Answer(c) \/ FinishAnswered(c) \/ FinishFailed(c) \/ OutputRefused(c)
               \/ Repair(c) \/ Fallback(c) \/ StopTrying(c)
        PROVE ReplayInv'
    BY <1>4 DEF Answer, Broken, Fail, Raise, Validated, Unanswered, FinishAnswered, FinishFailed,
        OutputRefused, KeepsOutput, Repairable, Repair, MayRepair, NextAttempt, Fallback, StopTrying
  <1>5. ASSUME NEW c \in Call,
               Replay(c)
        PROVE ReplayInv'
    BY <1>5 DEF Replay, MayReplay
  <1>6. ASSUME NEW c \in Call,
               Deliver(c)
        PROVE ReplayInv'
    BY <1>6 DEF Deliver, RecordInv, Current, Slot
  <1>7. ASSUME NEW c \in Call,
               AnswerRefused(c) \/ SettleRaised(c)
        PROVE ReplayInv'
    BY <1>7 DEF AnswerRefused, Raise, SettleRaised
  <1>8. ASSUME NEW c \in Call,
               Crash(c)
        PROVE ReplayInv'
    BY <1>8 DEF Crash
  <1>9. CASE Disable \/ Repin \/ Revoke \/ DeadlinePasses \/ ForgetOutput \/ UNCHANGED vars
    BY <1>9 DEF Disable, Repin, Revoke, DeadlinePasses, ForgetOutput, vars
  <1> QED BY <1>1, <1>2, <1>3, <1>4, <1>5, <1>6, <1>7, <1>8, <1>9 DEF Next, Serve

\* A worker leaves its loop by settling the request, or dies.
LEMMA OpenStep == IndInv /\ [Next]_vars => OpenOnlyByCrash'
  <1> SUFFICES ASSUME IndInv, [Next]_vars PROVE OpenOnlyByCrash'
    OBVIOUS
  <1> USE DEF IndInv, TypeOK, OpenOnlyByCrash, WorkerInv, Working, Steps, authority, row,
          callVars, loopVars, records, history, Goto, Reply
  <1>1. ASSUME NEW c \in Call,
               Arrive(c) \/ CheckKey(c) \/ Authorize(c)
        PROVE OpenOnlyByCrash'
    BY <1>1 DEF Arrive, CheckKey, Authorize
  <1>2. ASSUME NEW c \in Call,
               Register(c)
        PROVE OpenOnlyByCrash'
    BY <1>2 DEF Register, KeyIsFree
  <1>3. ASSUME NEW c \in Call,
               FindDuplicate(c) \/ KeyConflict(c) \/ Replay(c)
        PROVE OpenOnlyByCrash'
    BY <1>3 DEF FindDuplicate, KeyConflict, Replay, MayReplay
  <1>4. ASSUME NEW c \in Call,
               Advance(c)
        PROVE OpenOnlyByCrash'
    BY <1>4 DEF Advance
  <1>5. ASSUME NEW c \in Call,
               Infer(c) \/ Acquire(c) \/ Start(c) \/ StartRefused(c)
               \/ Recheck(c) \/ Dispatch(c) \/ Answer(c) \/ FinishAnswered(c)
               \/ FinishFailed(c) \/ OutputRefused(c) \/ Repair(c) \/ Fallback(c) \/ StopTrying(c)
        PROVE OpenOnlyByCrash'
    BY <1>5 DEF Infer, Raise, Acquire, Fail, Start, Amounts, StartRefused, Recheck, Broken,
        Dispatch, Answer, Validated, Unanswered, FinishAnswered, FinishFailed, OutputRefused, KeepsOutput, Repairable, Repair,
        MayRepair, NextAttempt, Fallback, StopTrying
  <1>6. ASSUME NEW c \in Call,
               Deliver(c)
        PROVE OpenOnlyByCrash'
    BY <1>6 DEF Deliver, RecordInv, Current, Slot
  <1>7. ASSUME NEW c \in Call,
               AnswerRefused(c) \/ SettleRaised(c)
        PROVE OpenOnlyByCrash'
    BY <1>7 DEF AnswerRefused, Raise, SettleRaised
  <1>8. ASSUME NEW c \in Call,
               Crash(c)
        PROVE OpenOnlyByCrash'
    BY <1>8 DEF Crash
  <1>9. CASE Disable \/ Repin \/ Revoke \/ DeadlinePasses \/ ForgetOutput \/ UNCHANGED vars
    BY <1>9 DEF Disable, Repin, Revoke, DeadlinePasses, ForgetOutput, vars
  <1> QED BY <1>1, <1>2, <1>3, <1>4, <1>5, <1>6, <1>7, <1>8, <1>9 DEF Next, Serve

\* Each turn of the loop uses a repair or a configuration.
LEMMA LoopStep == IndInv /\ [Next]_vars => LoopInv'
  <1> SUFFICES ASSUME IndInv, [Next]_vars PROVE LoopInv'
    OBVIOUS
  <1> USE DEF IndInv, TypeOK, LoopInv, LoopNeverRunsOut, Slot, authority, row, callVars, loopVars,
          records, history, Goto, Reply
  <1>1. ASSUME NEW c \in Call,
               Arrive(c) \/ CheckKey(c) \/ Authorize(c) \/ Register(c)
               \/ FindDuplicate(c) \/ KeyConflict(c) \/ Replay(c) \/ Advance(c)
        PROVE LoopInv'
    BY <1>1 DEF Arrive, CheckKey, Authorize, Register, KeyIsFree, FindDuplicate, KeyConflict,
        Replay, MayReplay, Advance
  <1>2. ASSUME NEW c \in Call,
               Infer(c) \/ Acquire(c) \/ Start(c) \/ StartRefused(c)
               \/ Recheck(c)
        PROVE LoopInv'
    BY <1>2 DEF Infer, Raise, Acquire, Fail, Start, Amounts, StartRefused, Recheck, Broken
  <1>3. ASSUME NEW c \in Call,
               Dispatch(c) \/ Answer(c) \/ FinishAnswered(c) \/ FinishFailed(c)
               \/ OutputRefused(c)
        PROVE LoopInv'
    BY <1>3 DEF Dispatch, Answer, Broken, Validated, Unanswered, FinishAnswered, Fail,
        FinishFailed, OutputRefused, KeepsOutput, Repairable, Raise
  <1>4. ASSUME NEW c \in Call,
               Repair(c)
        PROVE LoopInv'
    <2>1. /\ index' = index + 1 /\ left' = left - 1 /\ left > 0
          /\ UNCHANGED <<plan, cand, ended>>
      BY <1>4, LoopFits DEF Repair, NextAttempt, MayRepair
    <2> QED BY <2>1, PlanFacts
  <1>5. ASSUME NEW c \in Call,
               Fallback(c)
        PROVE LoopInv'
    <2>1. /\ index' = index + 1 /\ cand' = cand + 1 /\ cand < plan.n /\ repairing' = FALSE
          /\ UNCHANGED <<plan, left, ended>>
      BY <1>5, LoopFits DEF Fallback, NextAttempt
    <2> QED BY <2>1, PlanFacts
  <1>6. ASSUME NEW c \in Call,
               StopTrying(c)
        PROVE LoopInv'
    BY <1>6 DEF StopTrying, Raise
  <1>7. ASSUME NEW c \in Call,
               Deliver(c) \/ AnswerRefused(c) \/ SettleRaised(c) \/ Crash(c)
        PROVE LoopInv'
    BY <1>7 DEF Deliver, RecordInv, Current, Slot, AnswerRefused, Raise, SettleRaised, Crash
  <1>8. CASE Disable \/ Repin \/ Revoke \/ DeadlinePasses \/ ForgetOutput \/ UNCHANGED vars
    BY <1>8 DEF Disable, Repin, Revoke, DeadlinePasses, ForgetOutput, vars
  <1> QED BY <1>1, <1>2, <1>3, <1>4, <1>5, <1>6, <1>7, <1>8 DEF Next, Serve

\* A worker leaves an attempt with its final record, or with its answer refused.
LEMMA RecordStep == IndInv /\ [Next]_vars => RecordInv'
  <1> SUFFICES ASSUME IndInv, [Next]_vars PROVE RecordInv'
    OBVIOUS
  <1> USE DEF IndInv, TypeOK, RecordInv, Closed, WorkerInv, Untouched, AccountedWhenSettled, Terminal,
          Current, Slot, Working, Steps, Opening, Started, Looping, Final, authority, row,
          callVars, loopVars, records, history, Goto, Reply
  <1>1. ASSUME NEW c \in Call,
               Arrive(c) \/ CheckKey(c) \/ Authorize(c) \/ FindDuplicate(c)
               \/ KeyConflict(c) \/ Replay(c)
        PROVE RecordInv'
    BY <1>1 DEF Arrive, CheckKey, Authorize, FindDuplicate, KeyConflict, Replay, MayReplay
  <1>2. ASSUME NEW c \in Call,
               Register(c) \/ Advance(c)
        PROVE RecordInv'
    BY <1>2 DEF Register, KeyIsFree, Advance
  <1>3. ASSUME NEW c \in Call,
               Infer(c)
        PROVE RecordInv'
    BY <1>3 DEF Infer, Raise
  <1>4. ASSUME NEW c \in Call,
               Acquire(c)
        PROVE RecordInv'
    BY <1>4 DEF Acquire, Fail
  <1>5. ASSUME NEW c \in Call,
               Start(c)
        PROVE RecordInv'
    BY <1>5 DEF Start, Amounts
  <1>6. ASSUME NEW c \in Call,
               StartRefused(c)
        PROVE RecordInv'
    BY <1>6 DEF StartRefused, Fail, Raise
  <1>7. ASSUME NEW c \in Call,
               Recheck(c)
        PROVE RecordInv'
    BY <1>7 DEF Recheck, Broken
  <1>8. ASSUME NEW c \in Call,
               Dispatch(c)
        PROVE RecordInv'
    BY <1>8 DEF Dispatch
  <1>9. ASSUME NEW c \in Call,
               Answer(c)
        PROVE RecordInv'
    BY <1>9 DEF Answer, Broken, Validated, Unanswered
  <1>10. ASSUME NEW c \in Call,
               FinishAnswered(c)
        PROVE RecordInv'
    BY <1>10 DEF FinishAnswered, Fail
  <1>11. ASSUME NEW c \in Call,
               FinishFailed(c) \/ OutputRefused(c)
        PROVE RecordInv'
    BY <1>11 DEF FinishFailed, OutputRefused, KeepsOutput, Repairable, Raise, Fail
  <1>12. ASSUME NEW c \in Call,
               Repair(c)
        PROVE RecordInv'
    BY <1>12 DEF Repair, MayRepair, Repairable, NextAttempt, Raise
  <1>13. ASSUME NEW c \in Call,
               Fallback(c)
        PROVE RecordInv'
    BY <1>13 DEF Fallback, NextAttempt, Raise
  <1>14. ASSUME NEW c \in Call,
               StopTrying(c)
        PROVE RecordInv'
    BY <1>14 DEF StopTrying, Raise
  <1>15. ASSUME NEW c \in Call,
               Deliver(c)
        PROVE RecordInv'
    BY <1>15 DEF Deliver, RecordInv, Current, Slot
  <1>16. ASSUME NEW c \in Call,
               AnswerRefused(c) \/ SettleRaised(c)
        PROVE RecordInv'
    BY <1>16 DEF AnswerRefused, Raise, SettleRaised
  <1>17. ASSUME NEW c \in Call,
               Crash(c)
        PROVE RecordInv'
    BY <1>17 DEF Crash
  <1>18. CASE Disable \/ Repin \/ Revoke \/ DeadlinePasses \/ ForgetOutput \/ UNCHANGED vars
    BY <1>18 DEF Disable, Repin, Revoke, DeadlinePasses, ForgetOutput, vars
  <1> QED BY <1>1, <1>2, <1>3, <1>4, <1>5, <1>6, <1>7, <1>8, <1>9, <1>10, <1>11, <1>12, <1>13,
    <1>14, <1>15, <1>16, <1>17, <1>18 DEF Next, Serve

\* Dispatch is the only send of its attempt.
LEMMA SendStep == IndInv /\ [Next]_vars => SendInv'
  <1> SUFFICES ASSUME IndInv, [Next]_vars PROVE SendInv'
    OBVIOUS
  <1> USE DEF IndInv, TypeOK, SendInv, WorkerInv, RecordInv, Untouched, Current, Working, Steps,
          Opening, Started, Looping, Final, authority, row, callVars, loopVars, records, history,
          Goto, Reply
  <1>1. ASSUME NEW c \in Call,
               Arrive(c) \/ CheckKey(c) \/ Authorize(c) \/ FindDuplicate(c)
               \/ KeyConflict(c) \/ Replay(c)
        PROVE SendInv'
    BY <1>1 DEF Arrive, CheckKey, Authorize, FindDuplicate, KeyConflict, Replay, MayReplay
  <1>2. ASSUME NEW c \in Call,
               Register(c) \/ Advance(c)
        PROVE SendInv'
    BY <1>2 DEF Register, KeyIsFree, Advance
  <1>3. ASSUME NEW c \in Call,
               Infer(c)
        PROVE SendInv'
    BY <1>3 DEF Infer, Raise
  <1>4. ASSUME NEW c \in Call,
               Acquire(c)
        PROVE SendInv'
    BY <1>4 DEF Acquire, Fail
  <1>5. ASSUME NEW c \in Call,
               Start(c)
        PROVE SendInv'
    BY <1>5 DEF Start, Amounts
  <1>6. ASSUME NEW c \in Call,
               StartRefused(c)
        PROVE SendInv'
    BY <1>6 DEF StartRefused, Fail, Raise
  <1>7. ASSUME NEW c \in Call,
               Recheck(c)
        PROVE SendInv'
    BY <1>7 DEF Recheck, Broken
  <1>8. ASSUME NEW c \in Call,
               Dispatch(c)
        PROVE SendInv'
    BY <1>8 DEF Dispatch
  <1>9. ASSUME NEW c \in Call,
               Answer(c)
        PROVE SendInv'
    BY <1>9 DEF Answer, Broken, Validated, Unanswered
  <1>10. ASSUME NEW c \in Call,
               FinishAnswered(c)
        PROVE SendInv'
    BY <1>10 DEF FinishAnswered, Fail
  <1>11. ASSUME NEW c \in Call,
               FinishFailed(c) \/ OutputRefused(c)
        PROVE SendInv'
    BY <1>11 DEF FinishFailed, OutputRefused, KeepsOutput, Repairable, Raise, Fail
  <1>12. ASSUME NEW c \in Call,
               Repair(c)
        PROVE SendInv'
    BY <1>12 DEF Repair, MayRepair, Repairable, NextAttempt, Raise
  <1>13. ASSUME NEW c \in Call,
               Fallback(c)
        PROVE SendInv'
    BY <1>13 DEF Fallback, NextAttempt, Raise
  <1>14. ASSUME NEW c \in Call,
               StopTrying(c)
        PROVE SendInv'
    BY <1>14 DEF StopTrying, Raise
  <1>15. ASSUME NEW c \in Call,
               Deliver(c)
        PROVE SendInv'
    BY <1>15 DEF Deliver, RecordInv, Current, Slot
  <1>16. ASSUME NEW c \in Call,
               AnswerRefused(c) \/ SettleRaised(c)
        PROVE SendInv'
    BY <1>16 DEF AnswerRefused, Raise, SettleRaised
  <1>17. ASSUME NEW c \in Call,
               Crash(c)
        PROVE SendInv'
    BY <1>17 DEF Crash
  <1>18. CASE Disable \/ Repin \/ Revoke \/ DeadlinePasses \/ ForgetOutput \/ UNCHANGED vars
    BY <1>18 DEF Disable, Repin, Revoke, DeadlinePasses, ForgetOutput, vars
  <1> QED BY <1>1, <1>2, <1>3, <1>4, <1>5, <1>6, <1>7, <1>8, <1>9, <1>10, <1>11, <1>12, <1>13,
    <1>14, <1>15, <1>16, <1>17, <1>18 DEF Next, Serve

\* A late send is the last one: authority never comes back.
LEMMA LateStep == IndInv /\ [Next]_vars => LateInv'
  <1> SUFFICES ASSUME IndInv, [Next]_vars PROVE LateInv'
    OBVIOUS
  <1> USE DEF IndInv, TypeOK, LateInv, WorkerInv, Working, Steps, Opening, Started, Looping,
          Final, authority, row, callVars, loopVars, records, history, Goto, Reply
  <1>1. ASSUME NEW c \in Call,
               Arrive(c) \/ CheckKey(c) \/ Authorize(c) \/ FindDuplicate(c)
               \/ KeyConflict(c) \/ Replay(c)
        PROVE LateInv'
    BY <1>1 DEF Arrive, CheckKey, Authorize, FindDuplicate, KeyConflict, Replay, MayReplay
  <1>2. ASSUME NEW c \in Call,
               Register(c) \/ Advance(c)
        PROVE LateInv'
    BY <1>2 DEF Register, KeyIsFree, Advance
  <1>3. ASSUME NEW c \in Call,
               Infer(c)
        PROVE LateInv'
    BY <1>3 DEF Infer, Raise
  <1>4. ASSUME NEW c \in Call,
               Acquire(c)
        PROVE LateInv'
    BY <1>4 DEF Acquire, Fail
  <1>5. ASSUME NEW c \in Call,
               Start(c)
        PROVE LateInv'
    BY <1>5 DEF Start, Amounts
  <1>6. ASSUME NEW c \in Call,
               StartRefused(c)
        PROVE LateInv'
    BY <1>6 DEF StartRefused, Fail, Raise
  <1>7. ASSUME NEW c \in Call,
               Recheck(c)
        PROVE LateInv'
    BY <1>7 DEF Recheck, Broken
  <1>8. ASSUME NEW c \in Call,
               Dispatch(c)
        PROVE LateInv'
    BY <1>8 DEF Dispatch
  <1>9. ASSUME NEW c \in Call,
               Answer(c)
        PROVE LateInv'
    BY <1>9 DEF Answer, Broken, Validated, Unanswered
  <1>10. ASSUME NEW c \in Call,
               FinishAnswered(c)
        PROVE LateInv'
    BY <1>10 DEF FinishAnswered, Fail
  <1>11. ASSUME NEW c \in Call,
               FinishFailed(c) \/ OutputRefused(c)
        PROVE LateInv'
    BY <1>11 DEF FinishFailed, OutputRefused, KeepsOutput, Repairable, Raise, Fail
  <1>12. ASSUME NEW c \in Call,
               Repair(c)
        PROVE LateInv'
    BY <1>12 DEF Repair, MayRepair, Repairable, NextAttempt, Raise
  <1>13. ASSUME NEW c \in Call,
               Fallback(c)
        PROVE LateInv'
    BY <1>13 DEF Fallback, NextAttempt, Raise
  <1>14. ASSUME NEW c \in Call,
               StopTrying(c)
        PROVE LateInv'
    BY <1>14 DEF StopTrying, Raise
  <1>15. ASSUME NEW c \in Call,
               Deliver(c)
        PROVE LateInv'
    BY <1>15 DEF Deliver, RecordInv, Current, Slot
  <1>16. ASSUME NEW c \in Call,
               AnswerRefused(c) \/ SettleRaised(c)
        PROVE LateInv'
    BY <1>16 DEF AnswerRefused, Raise, SettleRaised
  <1>17. ASSUME NEW c \in Call,
               Crash(c)
        PROVE LateInv'
    BY <1>17 DEF Crash
  <1>18. CASE Disable \/ Repin \/ Revoke \/ DeadlinePasses \/ ForgetOutput \/ UNCHANGED vars
    BY <1>18 DEF Disable, Repin, Revoke, DeadlinePasses, ForgetOutput, vars
  <1> QED BY <1>1, <1>2, <1>3, <1>4, <1>5, <1>6, <1>7, <1>8, <1>9, <1>10, <1>11, <1>12, <1>13,
    <1>14, <1>15, <1>16, <1>17, <1>18 DEF Next, Serve

\* Start reserves what the next configuration or repair was allowed.
LEMMA SpendStep == IndInv /\ [Next]_vars => SpendInv'
  <1> SUFFICES ASSUME IndInv, [Next]_vars PROVE SpendInv'
    OBVIOUS
  <1> USE DEF IndInv, TypeOK, SpendInv, SpendWithinStage, LoopInv, RecordInv, WorkerInv,
          Untouched, Working, Steps, Opening, Started, Looping, Final, authority, row, callVars,
          loopVars, records, history, Goto, Reply
  <1>1. ASSUME NEW c \in Call,
               Arrive(c) \/ CheckKey(c) \/ Authorize(c) \/ FindDuplicate(c)
               \/ KeyConflict(c) \/ Replay(c)
        PROVE SpendInv'
    BY <1>1 DEF Arrive, CheckKey, Authorize, FindDuplicate, KeyConflict, Replay, MayReplay
  <1>2. ASSUME NEW c \in Call,
               Register(c) \/ Advance(c)
        PROVE SpendInv'
    BY <1>2 DEF Register, KeyIsFree, Advance
  <1>3. ASSUME NEW c \in Call,
               Infer(c)
        PROVE SpendInv'
    <2>1. spent = 0 /\ index = 0 /\ ~repairing
      BY <1>3 DEF Infer, Raise
    <2>2. cand = 1 /\ left = plan.repairs
      BY <2>1, PlanFacts DEF Slot
    <2>3. Allowance(plan, cand - 1, plan.repairs - left) \in Nat
      BY <2>2, PlanFacts, AllowanceFacts
    <2> QED BY <1>3, <2>1, <2>3 DEF Infer, Raise
  <1>4. ASSUME NEW c \in Call,
               Acquire(c)
        PROVE SpendInv'
    BY <1>4, OpeningFits DEF Acquire, Fail
  <1>5. ASSUME NEW c \in Call,
               Start(c)
        PROVE SpendInv'
    <2>1. pc[c] = "start" /\ pc' = [pc EXCEPT ![c] = "recheck"]
      BY <1>5 DEF Start
    <2>2. PICK a \in Amounts : spent' = spent + a
      BY <1>5 DEF Start
    <2>3. spent' <= Allowance(plan, cand, plan.repairs - left) /\ spent' <= plan.cap
      <3>1. /\ spent + a <= Allowance(plan, cand, plan.repairs - left)
            /\ Allowance(plan, cand, plan.repairs - left) <= plan.cap
        BY <2>1, OpeningFits
      <3>2. Allowance(plan, cand, plan.repairs - left) \in Nat /\ plan.cap \in Nat
        BY PlanFacts, AllowanceFacts DEF Slot
      <3>3. spent' \in Nat
        BY TypeStep DEF TypeOK
      <3> QED BY <2>2, <3>1, <3>2, <3>3
    <2>4. UNCHANGED <<plan, cand, left>>
      BY <1>5 DEF Start
    <2> QED BY <2>1, <2>3, <2>4
  <1>6. ASSUME NEW c \in Call,
               StartRefused(c)
        PROVE SpendInv'
    BY <1>6, OpeningFits DEF StartRefused, Fail, Raise
  <1>7. ASSUME NEW c \in Call,
               Recheck(c)
        PROVE SpendInv'
    BY <1>7 DEF Recheck, Broken
  <1>8. ASSUME NEW c \in Call,
               Dispatch(c)
        PROVE SpendInv'
    BY <1>8 DEF Dispatch
  <1>9. ASSUME NEW c \in Call,
               Answer(c)
        PROVE SpendInv'
    BY <1>9 DEF Answer, Broken, Validated, Unanswered
  <1>10. ASSUME NEW c \in Call,
               FinishAnswered(c)
        PROVE SpendInv'
    BY <1>10 DEF FinishAnswered, Fail
  <1>11. ASSUME NEW c \in Call,
               FinishFailed(c) \/ OutputRefused(c)
        PROVE SpendInv'
    BY <1>11 DEF FinishFailed, OutputRefused, KeepsOutput, Repairable, Raise, Fail
  <1>12. ASSUME NEW c \in Call,
               Repair(c)
        PROVE SpendInv'
    <2>1. /\ pc[c] = "choose" /\ pc' = [pc EXCEPT ![c] = "attempt"]
          /\ left' = left - 1 /\ repairing' = TRUE /\ UNCHANGED <<plan, cand, spent>>
      BY <1>12, LoopFits DEF Repair, NextAttempt
    <2>2. plan.repairs' - left' - 1 = plan.repairs - left
      BY <2>1, PlanFacts
    <2> QED BY <2>1, <2>2
  <1>13. ASSUME NEW c \in Call,
               Fallback(c)
        PROVE SpendInv'
    <2>1. /\ pc[c] = "choose" /\ pc' = [pc EXCEPT ![c] = "attempt"]
          /\ cand' = cand + 1 /\ repairing' = FALSE /\ UNCHANGED <<plan, left, spent>>
      BY <1>13, LoopFits DEF Fallback, NextAttempt
    <2>2. cand' - 1 = cand
      BY <2>1 DEF Slot
    <2> QED BY <2>1, <2>2
  <1>14. ASSUME NEW c \in Call,
               StopTrying(c)
        PROVE SpendInv'
    BY <1>14 DEF StopTrying, Raise
  <1>15. ASSUME NEW c \in Call,
               Deliver(c)
        PROVE SpendInv'
    BY <1>15 DEF Deliver, RecordInv, Current, Slot
  <1>16. ASSUME NEW c \in Call,
               AnswerRefused(c) \/ SettleRaised(c)
        PROVE SpendInv'
    BY <1>16 DEF AnswerRefused, Raise, SettleRaised
  <1>17. ASSUME NEW c \in Call,
               Crash(c)
        PROVE SpendInv'
    BY <1>17 DEF Crash
  <1>18. CASE Disable \/ Repin \/ Revoke \/ DeadlinePasses \/ ForgetOutput \/ UNCHANGED vars
    BY <1>18 DEF Disable, Repin, Revoke, DeadlinePasses, ForgetOutput, vars
  <1> QED BY <1>1, <1>2, <1>3, <1>4, <1>5, <1>6, <1>7, <1>8, <1>9, <1>10, <1>11, <1>12, <1>13,
    <1>14, <1>15, <1>16, <1>17, <1>18 DEF Next, Serve

\* Register, Advance, Dispatch, Deliver and SettleRaised are the lifecycle's steps; a worker
\* takes the last four only while the request is in the state they expect.
LEMMA LifecycleStep == IndInv /\ [Next]_vars => [Lifecycle!Next]_<<request, sends>>
  <1> SUFFICES ASSUME IndInv, [Next]_vars PROVE [Lifecycle!Next]_<<request, sends>>
    OBVIOUS
  <1> USE DEF IndInv, TypeOK, WorkerInv, Working, Steps, Lifecycle!Next, Lifecycle!Register,
          Lifecycle!Begin, Lifecycle!Settle, authority, row, callVars, loopVars, records, history,
          Goto, Reply
  <1>1. ASSUME NEW c \in Call,
               Arrive(c) \/ CheckKey(c) \/ Authorize(c) \/ FindDuplicate(c)
               \/ KeyConflict(c) \/ Replay(c)
        PROVE [Lifecycle!Next]_<<request, sends>>
    BY <1>1 DEF Arrive, CheckKey, Authorize, FindDuplicate, KeyConflict, Replay, MayReplay
  <1>2. ASSUME NEW c \in Call,
               Register(c)
        PROVE [Lifecycle!Next]_<<request, sends>>
    BY <1>2 DEF Register, KeyIsFree
  <1>3. ASSUME NEW c \in Call,
               Advance(c)
        PROVE [Lifecycle!Next]_<<request, sends>>
    BY <1>3 DEF Advance
  <1>4. ASSUME NEW c \in Call,
               Infer(c) \/ Acquire(c) \/ Start(c) \/ StartRefused(c)
               \/ Recheck(c) \/ Answer(c) \/ FinishAnswered(c) \/ FinishFailed(c)
               \/ OutputRefused(c) \/ StopTrying(c) \/ Crash(c)
        PROVE [Lifecycle!Next]_<<request, sends>>
    BY <1>4 DEF Infer, Raise, Acquire, Fail, Start, Amounts, StartRefused, Recheck, Broken,
        Answer, Validated, Unanswered, FinishAnswered, FinishFailed, OutputRefused, KeepsOutput, Repairable, StopTrying, Crash
  <1>5. ASSUME NEW c \in Call,
               Repair(c) \/ Fallback(c)
        PROVE [Lifecycle!Next]_<<request, sends>>
    BY <1>5 DEF Repair, MayRepair, Repairable, NextAttempt, Raise, Fallback
  <1>6. ASSUME NEW c \in Call,
               Dispatch(c)
        PROVE [Lifecycle!Next]_<<request, sends>>
    <2>1. request = "running" /\ sends < 3
      BY <1>6 DEF Dispatch, SendInv, Opening
    <2> QED BY <1>6, <2>1 DEF Dispatch, Lifecycle!Send
  <1>7. ASSUME NEW c \in Call,
               Deliver(c)
        PROVE [Lifecycle!Next]_<<request, sends>>
    <2>1. request = "running" /\ request' \in {"succeeded", "uncertain"} /\ UNCHANGED sends
      BY <1>7 DEF Deliver, RecordInv
    <2>2. sends > 0
      BY <1>7 DEF Deliver, SendInv
    <2> QED BY <2>1, <2>2 DEF Lifecycle!Settle
  <1>8. ASSUME NEW c \in Call,
               AnswerRefused(c) \/ SettleRaised(c)
        PROVE [Lifecycle!Next]_<<request, sends>>
    BY <1>8 DEF AnswerRefused, Raise, SettleRaised
  <1>9. CASE Disable \/ Repin \/ Revoke \/ DeadlinePasses \/ ForgetOutput \/ UNCHANGED vars
    BY <1>9 DEF Disable, Repin, Revoke, DeadlinePasses, ForgetOutput, vars
  <1> QED BY <1>1, <1>2, <1>3, <1>4, <1>5, <1>6, <1>7, <1>8, <1>9 DEF Next, Serve

-----------------------------------------------------------------------------
(* The theorems *)

\* The first call finds no row, no attempt and an untouched loop.
LEMMA IndInit == Init => IndInv
  <1> SUFFICES ASSUME Init PROVE IndInv
    OBVIOUS
  <1> USE DEF Init
  <1>1. TypeOK
    <2>1. plan.repairs \in 0 .. 2 /\ bound \in Body
      BY PlanFacts, BodyAssumption
    <2>2. plan.calls \in UNION {[S -> Body] : S \in SUBSET Call}
      BY PlansAssumption DEF Plan
    <2>3. PICK S \in SUBSET Call : plan.calls \in [S -> Body]
      BY <2>2
    <2>4. body \in [Call -> Body]
      BY <2>1, <2>3
    <2>5. /\ enabled \in BOOLEAN /\ pinned \in BOOLEAN /\ keyLive \in BOOLEAN /\ late \in BOOLEAN
          /\ output \in BOOLEAN /\ repairing \in BOOLEAN /\ answered \in BOOLEAN
          /\ crashed \in BOOLEAN
      OBVIOUS
    <2> QED BY <2>1, <2>4, <2>5 DEF TypeOK, Steps, Slot, Kinds, Statuses, Reasons
  <1>2. WorkerInv /\ ReplayInv /\ OpenOnlyByCrash /\ LoopInv
    BY PlanFacts DEF WorkerInv, ReplayInv, OpenOnlyByCrash, LoopInv, LoopNeverRunsOut, Working,
       Steps, Slot
  <1>3. RecordInv /\ SendInv /\ LateInv
    BY DEF RecordInv, Closed, SendInv, LateInv, Untouched, AccountedWhenSettled, Terminal, Opening,
       Started, Looping
  <1>4. SpendInv
    BY PlanFacts DEF SpendInv, SpendWithinStage, Opening, Started, Looping
  <1> QED BY <1>1, <1>2, <1>3, <1>4 DEF IndInv

\* Every state of the gateway satisfies the inductive invariant.
THEOREM Inductive == Spec => []IndInv
  <1>1. IndInv /\ [Next]_vars => IndInv'
    BY TypeStep, WorkerStep, ReplayStep, OpenStep, LoopStep, RecordStep, SendStep, LateStep,
       SpendStep DEF IndInv
  <1> QED BY <1>1, IndInit, PTL DEF Spec

\* Whatever fails, fallbacks and repairs stay within the stage cap that infer checked before
\* its first attempt, and the attempts of the policy contract are enough for all of them.
THEOREM BoundedAttempts == Spec => []AttemptsAreBounded
  <1>1. IndInv => AttemptsAreBounded
    BY DEF IndInv, AttemptsAreBounded, LoopInv, SpendInv
  <1> QED BY <1>1, Inductive, PTL

\* A change of authority lets at most one more provider call out.
THEOREM OneLateSend == Spec => []AtMostOneLateSend
  <1>1. IndInv => AtMostOneLateSend
    BY DEF IndInv, AtMostOneLateSend, LateInv
  <1> QED BY <1>1, Inductive, PTL

\* One worker per key, no open request without a worker unless a process died, and every
\* attempt of a settled request has its final record, or was sent and answered with an output
\* that was rejected and then refused by the store.
THEOREM AccountedRequests == Spec => []RequestsAreAccounted
  <1>1. IndInv => OneWorkerPerKey
    BY DEF IndInv, OneWorkerPerKey, WorkerInv, ReplayInv
  <1>2. IndInv => AccountedWhenSettled /\ OpenOnlyByCrash
    BY DEF IndInv, RecordInv
  <1>3. IndInv => RequestsAreAccounted
    BY <1>1, <1>2 DEF RequestsAreAccounted
  <1> QED BY <1>3, Inductive, PTL

\* The gateway implements the lifecycle of a request: registered once, begun once, sent at
\* most three times while running, settled at most once.
THEOREM RefinesLifecycle == Spec => ImplementsLifecycle
  <1>1. Init => Lifecycle!Init
    BY DEF Init, Lifecycle!Init
  <1> QED BY <1>1, Inductive, LifecycleStep, PTL
      DEF Spec, ImplementsLifecycle, Lifecycle!Spec

=============================================================================
