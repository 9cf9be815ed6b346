------------------------- MODULE RuntimeQueueProofs -------------------------
(***************************************************************************)
(* Proofs about RuntimeQueue for any sets of runs, workers, keys and       *)
(* contents and any lifetimes: the type invariant, the inductive invariant *)
(* behind ClaimedOnce, SoleWorker, OneRunPerKey, LedgerAgrees and          *)
(* AtMostOneLateWave, and the action property SettledIsFinal.              *)
(***************************************************************************)
EXTENDS RuntimeQueue, TLAPS

\* The initial state is well typed.
LEMMA TypeInit == Init => TypeOK
  BY BoundsAssumption DEF Init, TypeOK, RequestState, QueueState

\* Every step keeps the types.
LEMMA TypeStep == TypeOK /\ [Next]_vars => TypeOK'
  <1> SUFFICES ASSUME TypeOK, [Next]_vars PROVE TypeOK'
    OBVIOUS
  <1> USE BoundsAssumption DEF TypeOK, RequestState, QueueState, Open, Settled, Holding, Result,
          subVars, dbVars, workerVars, dbUnchanged, Goto
  <1>1. CASE Tick
    BY <1>1 DEF Tick
  <1>2. ASSUME NEW r \in Run, NEW k \in Key, NEW h \in Content, NEW d \in 1 .. MaxSubmit + Ttl,
               SubmitRead(r, k, h, d)
        PROVE TypeOK'
    BY <1>2 DEF SubmitRead
  <1>3. ASSUME NEW r \in Run, SubmitCommit(r) PROVE TypeOK'
    <2>1. CASE Enqueue(r)
      <3>1. input' \in [Run -> BOOLEAN]
        BY <2>1, Zenon DEF Enqueue
      <3>2. sub' \in [Run -> {"new", "absent", "created", "existing", "conflict"}]
        BY <2>1 DEF Enqueue
      <3>3. request' \in [Run -> RequestState] /\ queue' \in [Run -> QueueState]
        BY <2>1 DEF Enqueue
      <3> QED BY <1>3, <3>1, <3>2, <3>3 DEF SubmitCommit
    <2>2. CASE EnqueueConflict(r)
      BY <1>3, <2>2 DEF SubmitCommit, EnqueueConflict
    <2> QED BY <1>3, <2>1, <2>2 DEF SubmitCommit
  <1>4. ASSUME NEW r \in Run, CancelRead(r) PROVE TypeOK'
    BY <1>4 DEF CancelRead
  <1>5. ASSUME NEW r \in Run, CancelSwap(r) PROVE TypeOK'
    BY <1>5 DEF CancelSwap
  <1>6. ASSUME NEW w \in Worker, Crash(w) PROVE TypeOK'
    BY <1>6 DEF Crash
  <1>7. ASSUME NEW w \in Worker, Work(w) PROVE TypeOK'
    <2>1. CASE ClaimSelect(w)
      BY <2>1 DEF ClaimSelect, Expired
    <2>2. CASE ClaimCommit(w)
      <3>1. /\ SweptQueue(w) \in [Run -> QueueState]
            /\ SweptRequest(w) \in [Run -> RequestState]
            /\ SweptInput(w) \in [Run -> BOOLEAN]
        BY DEF SweptQueue, SweptRequest, SweptInput
      <3>2. CASE ClaimTake(w)
        BY <2>2, <3>1, <3>2 DEF ClaimCommit, ClaimTake, Earliest, Claimable
      <3>3. CASE ClaimNothing(w)
        BY <2>2, <3>1, <3>3 DEF ClaimCommit, ClaimNothing
      <3> QED BY <2>2, <3>2, <3>3 DEF ClaimCommit
    <2>3. CASE LoadInput(w)
      BY <2>3 DEF LoadInput
    <2>4. CASE Admit(w)
      BY <2>4 DEF Admit
    <2>5. CASE Start(w)
      BY <2>5 DEF Start
    <2>6. CASE SaveStarted(w)
      BY <2>6 DEF SaveStarted
    <2>7. CASE WaveCheck(w)
      BY <2>7 DEF WaveCheck, EndWaves, ErrorResult
    <2>8. CASE Dispatch(w)
      <3>1. ASSUME NEW r \in Run PROVE late'[r] \in Nat
        BY <2>8, <3>1 DEF Dispatch
      <3>2. late' \in [Run -> Nat]
        BY <2>8, <3>1 DEF Dispatch
      <3> QED BY <2>8, <3>2 DEF Dispatch
    <2>9. CASE WaveEnd(w)
      BY <2>9 DEF WaveEnd, EndWaves, ErrorResult
    <2>10. CASE SettleRaise(w)
      BY <2>10 DEF SettleRaise
    <2>11. CASE SettleRead(w)
      BY <2>11 DEF SettleRead
    <2>12. CASE SettleSwap(w)
      BY <2>12 DEF SettleSwap, CanAdvance, Transitions
    <2>13. CASE SaveFinal(w)
      BY <2>13 DEF SaveFinal
    <2>14. CASE Finish(w)
      BY <2>14 DEF Finish, FinishRuntime
    <2>15. CASE GiveUp(w)
      BY <2>15 DEF GiveUp, FinishRuntime, FinishedRequest
    <2> QED
      BY <1>7, <2>1, <2>2, <2>3, <2>4, <2>5, <2>6, <2>7, <2>8, <2>9, <2>10, <2>11, <2>12,
         <2>13, <2>14, <2>15 DEF Work
  <1>8. CASE UNCHANGED vars
    BY <1>8 DEF vars
  <1> QED
    BY <1>1, <1>2, <1>3, <1>4, <1>5, <1>6, <1>7, <1>8 DEF Next

\* Every state of every behaviour of the ledger, the queue and the workers is well typed.
THEOREM TypeCorrect == Spec => []TypeOK
  BY TypeInit, TypeStep, PTL DEF Spec

\* The inductive invariant holds of empty tables and idle workers.
LEMMA IndInit == Init => IndInv
  BY DEF Init, IndInv, SubmissionInv, ClaimInv, SnapshotInv, HolderInv, SoleWorker, OneRunPerKey,
         LedgerAgrees, LateInv, Holding, Executing, Recorded, None

\* Every step keeps the inductive invariant.
LEMMA IndStep == TypeOK /\ IndInv /\ [Next]_vars => IndInv'
  <1> SUFFICES ASSUME TypeOK, IndInv, [Next]_vars PROVE IndInv'
    OBVIOUS
  <1> USE DEF TypeOK, RequestState, QueueState, Open, None, Settled, Holding, Executing, Recorded,
          subVars, dbVars, workerVars, dbUnchanged, Goto, IndInv, SubmissionInv, ClaimInv,
          SnapshotInv, HolderInv, SoleWorker, OneRunPerKey, LedgerAgrees, LateInv
  <1>1. CASE Tick
    BY <1>1 DEF Tick
  <1>2. ASSUME NEW r \in Run, NEW k \in Key, NEW h \in Content, NEW d \in 1 .. MaxSubmit + Ttl,
               SubmitRead(r, k, h, d)
        PROVE IndInv'
    BY <1>2 DEF SubmitRead
  <1>3. ASSUME NEW r \in Run, SubmitCommit(r) PROVE IndInv'
    <2>1. SubmissionInv'
      BY <1>3 DEF SubmitCommit, Enqueue, EnqueueConflict, KeyIsFree, BoundTo
    <2>2. ClaimInv'
      BY <1>3 DEF SubmitCommit, Enqueue, EnqueueConflict, KeyIsFree, BoundTo
    <2>3. SnapshotInv'
      BY <1>3 DEF SubmitCommit, Enqueue, EnqueueConflict, KeyIsFree, BoundTo
    <2>4. HolderInv'
      BY <1>3 DEF SubmitCommit, Enqueue, EnqueueConflict, KeyIsFree, BoundTo
    <2>5. SoleWorker'
      BY <1>3 DEF SubmitCommit, Enqueue, EnqueueConflict, KeyIsFree, BoundTo
    <2>6. OneRunPerKey'
      BY <1>3 DEF SubmitCommit, Enqueue, EnqueueConflict, KeyIsFree, BoundTo
    <2>7. LedgerAgrees'
      BY <1>3 DEF SubmitCommit, Enqueue, EnqueueConflict, KeyIsFree, BoundTo
    <2>8. LateInv'
      BY SMTT(60), <1>3 DEF SubmitCommit, Enqueue, EnqueueConflict, KeyIsFree, BoundTo
    <2> QED BY <2>1, <2>2, <2>3, <2>4, <2>5, <2>6, <2>7, <2>8
  <1>4. ASSUME NEW r \in Run, CancelRead(r) PROVE IndInv'
    BY <1>4 DEF CancelRead
  <1>5. ASSUME NEW r \in Run, CancelSwap(r) PROVE IndInv'
    BY <1>5 DEF CancelSwap, CanAdvance, Transitions
  <1>6. ASSUME NEW w \in Worker, Crash(w) PROVE IndInv'
    BY <1>6 DEF Crash
  <1>7. ASSUME NEW w \in Worker, Work(w) PROVE IndInv'
    <2>0. CASE ClaimCommit(w)
      <3>2. CASE ClaimTake(w)
        BY SMTT(60), <2>0, <3>2 DEF ClaimCommit, ClaimTake, Earliest, Claimable, SweptQueue, SweptRequest
      <3>3. CASE ClaimNothing(w)
        BY <2>0, <3>3 DEF ClaimCommit, ClaimNothing, SweptQueue, SweptRequest
      <3> QED BY <2>0, <3>2, <3>3 DEF ClaimCommit
    <2>1. CASE ClaimSelect(w)
      BY <2>1 DEF ClaimSelect, Expired
    <2>2. CASE LoadInput(w)
      BY SMTT(60), <2>2 DEF LoadInput
    <2>3. CASE Admit(w)
      BY <2>3 DEF Admit
    <2>4. CASE Start(w)
      <3>1. SubmissionInv'
        BY <2>4 DEF Start, CanAdvance, Transitions
      <3>2. ClaimInv'
        BY <2>4 DEF Start, CanAdvance, Transitions
      <3>3. SnapshotInv'
        BY <2>4 DEF Start, CanAdvance, Transitions
      <3>4. HolderInv'
        BY <2>4 DEF Start, CanAdvance, Transitions
      <3>5. SoleWorker'
        BY <2>4 DEF Start, CanAdvance, Transitions
      <3>6. OneRunPerKey'
        BY <2>4 DEF Start, CanAdvance, Transitions
      <3>7. LedgerAgrees'
        <4>1. CASE UNCHANGED request
          BY <2>4, <4>1 DEF Start
        <4>2. CASE request[wrun[w]] = "queued" /\ request' = [request EXCEPT ![wrun[w]] = "running"]
          <5>1. wrun[w] \in Run /\ queue[wrun[w]] \notin {None, "queued"} /\ queue' = queue
            BY <2>4 DEF Start
          <5>2. queue[wrun[w]] = "running"
            BY <4>2, <5>1
          <5> QED BY <4>2, <5>1, <5>2
        <4> QED BY <2>4, <4>1, <4>2 DEF Start, CanAdvance
      <3>8. LateInv'
        BY <2>4 DEF Start, CanAdvance, Transitions
      <3> QED BY <3>1, <3>2, <3>3, <3>4, <3>5, <3>6, <3>7, <3>8
    <2>5. CASE SaveStarted(w)
      <3>1. SubmissionInv'
        BY <2>5 DEF SaveStarted
      <3>2. ClaimInv'
        BY <2>5 DEF SaveStarted
      <3>3. SnapshotInv'
        BY <2>5 DEF SaveStarted
      <3>4. HolderInv'
        BY <2>5 DEF SaveStarted
      <3>5. SoleWorker'
        BY <2>5 DEF SaveStarted
      <3>6. OneRunPerKey'
        BY <2>5 DEF SaveStarted
      <3>7. LedgerAgrees'
        BY <2>5 DEF SaveStarted
      <3>8. LateInv'
        BY <2>5 DEF SaveStarted
      <3> QED BY <3>1, <3>2, <3>3, <3>4, <3>5, <3>6, <3>7, <3>8
    <2>6. CASE WaveCheck(w)
      <3>1. SubmissionInv'
        BY <2>6 DEF WaveCheck, EndWaves, MayDispatch
      <3>2. ClaimInv'
        BY <2>6 DEF WaveCheck, EndWaves, MayDispatch
      <3>3. SnapshotInv'
        BY <2>6 DEF WaveCheck, EndWaves, MayDispatch
      <3>4. HolderInv'
        BY <2>6 DEF WaveCheck, EndWaves, MayDispatch
      <3>5. SoleWorker'
        BY <2>6 DEF WaveCheck, EndWaves, MayDispatch
      <3>6. OneRunPerKey'
        BY <2>6 DEF WaveCheck, EndWaves, MayDispatch
      <3>7. LedgerAgrees'
        BY <2>6 DEF WaveCheck, EndWaves, MayDispatch
      <3>8. LateInv'
        BY <2>6 DEF WaveCheck, EndWaves, MayDispatch
      <3> QED BY <3>1, <3>2, <3>3, <3>4, <3>5, <3>6, <3>7, <3>8
    <2>7. CASE Dispatch(w)
      BY <2>7 DEF Dispatch
    <2>8. CASE WaveEnd(w)
      BY <2>8 DEF WaveEnd, EndWaves
    <2>9. CASE SettleRaise(w)
      BY <2>9 DEF SettleRaise
    <2>10. CASE SettleRead(w)
      BY <2>10 DEF SettleRead
    <2>11. CASE SettleSwap(w)
      <3>1. SubmissionInv'
        BY <2>11 DEF SettleSwap, CanAdvance, Transitions
      <3>2. ClaimInv'
        BY <2>11 DEF SettleSwap, CanAdvance, Transitions
      <3>3. SnapshotInv'
        BY <2>11 DEF SettleSwap, CanAdvance, Transitions
      <3>4. HolderInv'
        BY <2>11 DEF SettleSwap, CanAdvance, Transitions
      <3>5. SoleWorker'
        BY <2>11 DEF SettleSwap, CanAdvance, Transitions
      <3>6. OneRunPerKey'
        BY <2>11 DEF SettleSwap, CanAdvance, Transitions
      <3>7. LedgerAgrees'
        BY <2>11 DEF SettleSwap, CanAdvance, Transitions
      <3>8. LateInv'
        BY <2>11 DEF SettleSwap, CanAdvance, Transitions
      <3> QED BY <3>1, <3>2, <3>3, <3>4, <3>5, <3>6, <3>7, <3>8
    <2>12. CASE SaveFinal(w)
      <3>1. SubmissionInv'
        BY <2>12 DEF SaveFinal
      <3>2. ClaimInv'
        BY <2>12 DEF SaveFinal
      <3>3. SnapshotInv'
        BY <2>12 DEF SaveFinal
      <3>4. HolderInv'
        BY <2>12 DEF SaveFinal
      <3>5. SoleWorker'
        BY <2>12 DEF SaveFinal
      <3>6. OneRunPerKey'
        BY <2>12 DEF SaveFinal
      <3>7. LedgerAgrees'
        BY <2>12 DEF SaveFinal
      <3>8. LateInv'
        BY <2>12 DEF SaveFinal
      <3> QED BY <3>1, <3>2, <3>3, <3>4, <3>5, <3>6, <3>7, <3>8
    <2>13. CASE Finish(w)
      BY <2>13 DEF Finish, FinishRuntime
    <2>14. CASE GiveUp(w)
      BY <2>14 DEF GiveUp, FinishRuntime, FinishedRequest
    <2> QED
      BY <1>7, <2>0, <2>1, <2>2, <2>3, <2>4, <2>5, <2>6, <2>7, <2>8, <2>9, <2>10, <2>11, <2>12, <2>13, <2>14 DEF Work
  <1>8. CASE UNCHANGED vars
    BY <1>8 DEF vars
  <1> QED
    BY <1>1, <1>2, <1>3, <1>4, <1>5, <1>6, <1>7, <1>8 DEF Next

\* The inductive invariant holds in every state.
LEMMA Inductive == Spec => []IndInv
  BY TypeCorrect, IndInit, IndStep, PTL DEF Spec

\* For any number of runs, workers and crashes, a queued run is claimed at most once.
THEOREM ClaimedOnceHolds == Spec => []ClaimedOnce
  <1>1. IndInv => ClaimedOnce
    BY DEF IndInv, ClaimInv, ClaimedOnce
  <1> QED BY <1>1, Inductive, PTL

\* Two workers never hold the same run.
THEOREM SoleWorkerHolds == Spec => []SoleWorker
  <1>1. IndInv => SoleWorker
    BY DEF IndInv
  <1> QED BY <1>1, Inductive, PTL

\* An idempotency key never binds two runs.
THEOREM OneRunPerKeyHolds == Spec => []OneRunPerKey
  <1>1. IndInv => OneRunPerKey
    BY DEF IndInv
  <1> QED BY <1>1, Inductive, PTL

\* A run has one owner, however submissions, workers and sweeps interleave.
THEOREM OneOwnerHolds == Spec => []OneOwner
  BY OneRunPerKeyHolds, ClaimedOnceHolds, SoleWorkerHolds, PTL DEF OneOwner

\* The request ledger and the queue agree in every reachable state.
THEOREM LedgerAgreesHolds == Spec => []LedgerAgrees
  <1>1. IndInv => LedgerAgrees
    BY DEF IndInv
  <1> QED BY <1>1, Inductive, PTL

\* A worker whose run was cancelled or swept dispatches at most one more wave.
THEOREM AtMostOneLateWaveHolds == Spec => []AtMostOneLateWave
  <1>1. IndInv => AtMostOneLateWave
    BY DEF IndInv, LateInv, AtMostOneLateWave
  <1> QED BY <1>1, Inductive, PTL

\* One step never changes a settled request.
LEMMA SettledStep ==
    TypeOK /\ IndInv /\ [Next]_vars =>
        [\A r \in Run : request[r] \in Settled => request'[r] = request[r]]_request
  <1> SUFFICES ASSUME TypeOK, IndInv, [Next]_vars, NEW s \in Run, request[s] \in Settled
               PROVE request'[s] = request[s]
    OBVIOUS
  <1> USE DEF TypeOK, RequestState, Open, Settled, None, subVars, dbVars, workerVars, dbUnchanged
  <1>1. CASE Tick
    BY <1>1 DEF Tick
  <1>2. ASSUME NEW r \in Run, NEW k \in Key, NEW h \in Content, NEW d \in 1 .. MaxSubmit + Ttl,
               SubmitRead(r, k, h, d)
        PROVE request'[s] = request[s]
    BY <1>2 DEF SubmitRead
  <1>3. ASSUME NEW r \in Run, SubmitCommit(r) PROVE request'[s] = request[s]
    BY <1>3 DEF SubmitCommit, Enqueue, EnqueueConflict, IndInv, SubmissionInv
  <1>4. ASSUME NEW r \in Run, CancelRead(r) \/ CancelSwap(r) PROVE request'[s] = request[s]
    BY <1>4 DEF CancelRead, CancelSwap, CanAdvance
  <1>5. ASSUME NEW w \in Worker, Crash(w) PROVE request'[s] = request[s]
    BY <1>5 DEF Crash
  <1>6. ASSUME NEW w \in Worker, Work(w) PROVE request'[s] = request[s]
    <2>1. CASE ClaimCommit(w)
      BY <2>1 DEF ClaimCommit, SweptRequest
    <2>2. CASE Start(w) \/ SettleSwap(w)
      BY <2>2 DEF Start, SettleSwap, CanAdvance
    <2>3. CASE Finish(w) \/ GiveUp(w)
      BY <2>3 DEF Finish, GiveUp, FinishRuntime, FinishedRequest
    <2>4. CASE ClaimSelect(w) \/ LoadInput(w) \/ Admit(w) \/ SaveStarted(w) \/ WaveCheck(w)
               \/ Dispatch(w) \/ WaveEnd(w) \/ SettleRaise(w) \/ SettleRead(w) \/ SaveFinal(w)
      BY <2>4 DEF ClaimSelect, LoadInput, Admit, SaveStarted, WaveCheck, Dispatch, WaveEnd,
                  SettleRaise, SettleRead, SaveFinal
    <2> QED BY <1>6, <2>1, <2>2, <2>3, <2>4 DEF Work
  <1>7. CASE UNCHANGED vars
    BY <1>7 DEF vars
  <1> QED BY <1>1, <1>2, <1>3, <1>4, <1>5, <1>6, <1>7 DEF Next

\* The outcome of a request, once settled, is final.
THEOREM SettledIsFinalHolds == Spec => SettledIsFinal
  BY TypeCorrect, Inductive, SettledStep, PTL DEF Spec, SettledIsFinal

=============================================================================
