------------------------- MODULE PlanningJobsProofs -------------------------
(***************************************************************************)
(* Proofs about PlanningJobs for any number of workers, any lease and any  *)
(* bounds: the type invariant, that an attempt number belongs to one       *)
(* worker, that a recommendation is committed under the latest claim, that *)
(* a terminal status is final, and that no call is left open behind a      *)
(* result.                                                                 *)
(***************************************************************************)
EXTENDS PlanningJobs, TLAPS

\* A queued row, no worker busy.
LEMMA InitInv == Init => TypeOK /\ IndInv
  BY PlanningAssumption
  DEF Init, TypeOK, JobRow, Fresh, Status, Accounting, Steps, IndInv, ReadInv, AdapterInv, Claimed,
      OneWorkerPerAttempt, PathInv

\* What the columns of a row hold.
LEMMA RowFields ==
    ASSUME NEW row \in JobRow
    PROVE  row.status \in Status /\ row.attempts \in 0 .. MaxAttempts /\ row.accounting \in Accounting
  BY DEF JobRow

\* Writing columns of a row keeps it a row.
LEMMA RowWrites ==
    ASSUME NEW row \in JobRow, NEW s \in Status, NEW a \in 0 .. MaxAttempts, NEW c \in Accounting
    PROVE  /\ [row EXCEPT !.status = s] \in JobRow
           /\ [row EXCEPT !.accounting = c] \in JobRow
           /\ [row EXCEPT !.status = s, !.attempts = a] \in JobRow
           /\ [row EXCEPT !.status = s, !.accounting = c] \in JobRow
  BY DEF JobRow

\* A step that writes the row writes a row, and renews the lease.
LEMMA WriteType ==
    ASSUME TypeOK, NEW new \in JobRow, WriteJob(new) \/ LeaveJob
    PROVE  job' \in JobRow /\ leaseLeft' \in 0 .. Lease
  BY PlanningAssumption DEF TypeOK, WriteJob, LeaveJob, jobVars

\* Every step of a worker keeps the types.
LEMMA WorkType ==
    ASSUME TypeOK, IndInv, NEW w \in Worker, Work(w)
    PROVE  TypeOK'
  <1> USE PlanningAssumption
      DEF TypeOK, Steps, Goto, ReadJob, Check, Matches, LeaveRest, jobVars, cancelVars
  <1>1. CASE ClaimSelect(w)
    BY <1>1 DEF ClaimSelect
  <1>2. CASE ClaimCount(w)
    BY <1>2 DEF ClaimCount, Verdict
  <1>3. CASE ClaimTake(w)
    <2>1. pc' \in [Worker -> Steps]
      BY <1>3 DEF ClaimTake, ClaimedRow, IndInv, ReadInv
    <2>a. seen[w] \in JobRow /\ seen[w].attempts + 1 \in 0 .. MaxAttempts
      BY <1>3, RowFields DEF ClaimTake, IndInv, ReadInv
    <2>b. ClaimedRow(w) \in JobRow
      BY <2>a, RowWrites DEF ClaimedRow, Status, Accounting
    <2>c. WriteJob(ClaimedRow(w))
      BY <1>3 DEF ClaimTake
    <2>2. job' \in JobRow /\ leaseLeft' \in 0 .. Lease
      BY <2>b, <2>c, WriteType
    <2>3. dispatched' \in SUBSET (1 .. MaxAttempts) /\ committer' \in 0 .. MaxAttempts
      BY <1>3 DEF ClaimTake
    <2>6. token' \in [Worker -> 0 .. MaxAttempts] /\ phases' \in 0 .. MaxPhases
      BY <1>3, <2>b, RowFields DEF ClaimTake
    <2>4. called' \in SUBSET Worker
      BY <1>3 DEF ClaimTake, ClaimedRow, IndInv, ReadInv
    <2>5. call' \in [1 .. MaxAttempts -> {"none", "reserved", "known", "uncertain"}]
      BY <1>3 DEF ClaimTake, ClaimedRow, IndInv, ReadInv
    <2> QED
      BY <1>3, <2>1, <2>2, <2>3, <2>4, <2>5, <2>6 DEF ClaimTake
  <1>4. CASE ClaimClose(w)
    <2>1. pc' \in [Worker -> Steps]
      BY <1>4 DEF ClaimClose, IndInv, ReadInv
    <2>a. /\ seen[w] \in JobRow
          /\ [seen[w] EXCEPT !.status = "uncertain", !.accounting = "uncertain"] \in JobRow
          /\ [seen[w] EXCEPT !.status = "failed"] \in JobRow
      BY <1>4, RowFields, RowWrites DEF Status, Accounting
    <2>2. job' \in JobRow /\ leaseLeft' \in 0 .. Lease
      BY <1>4, <2>a, PlanningAssumption DEF ClaimClose, WriteJob
    <2> QED
      BY <1>4, <2>1, <2>2 DEF ClaimClose, IndInv, ReadInv
  <1>5. CASE ClaimLost(w)
    BY <1>5 DEF ClaimLost
  <1>6. CASE Guard(w)
    BY <1>6 DEF Guard
  <1>7. CASE Hold(w)
    <2>1. pc' \in [Worker -> Steps]
      BY <1>7 DEF Hold
    <2>a. /\ job \in JobRow
          /\ [job EXCEPT !.status = "uncertain", !.accounting = "uncertain"] \in JobRow
      BY <1>7, RowFields, RowWrites DEF Status, Accounting
    <2>c. WriteJob([job EXCEPT !.status = "uncertain", !.accounting = "uncertain"]) \/ LeaveJob
      BY <1>7 DEF Hold
    <2>2. job' \in JobRow /\ leaseLeft' \in 0 .. Lease
      BY <2>a, <2>c, WriteType
    <2> QED
      BY <1>7, <2>1, <2>2 DEF Hold
  <1>8. CASE PhaseCheck(w)
    BY <1>8 DEF PhaseCheck
  <1>9. CASE PhaseRead(w)
    BY <1>9 DEF PhaseRead
  <1>10. CASE PhaseWrite(w)
    <2>1. pc' \in [Worker -> Steps]
      BY <1>10 DEF PhaseWrite
    <2>2. job' \in JobRow /\ leaseLeft' \in 0 .. Lease
      <3>1. seen[w] \in JobRow
        OBVIOUS
      <3>2. WriteJob(seen[w]) \/ LeaveJob
        BY <1>10 DEF PhaseWrite
      <3> QED
        BY <3>1, <3>2, WriteType
    <2> QED
      BY <1>10, <2>1, <2>2 DEF PhaseWrite
  <1>11. CASE PlanRaises(w)
    BY <1>11 DEF PlanRaises
  <1>12. CASE FinishCheck(w)
    BY <1>12 DEF FinishCheck
  <1>13. CASE FinishRead(w)
    BY <1>13 DEF FinishRead
  <1>14. CASE FinishWrite(w)
    <2>1. pc' \in [Worker -> Steps]
      BY <1>14 DEF FinishWrite, MayComplete
    <2>a. /\ seen[w] \in JobRow
          /\ [seen[w] EXCEPT !.status = "succeeded"] \in JobRow
      BY <1>14, RowFields, RowWrites DEF Status, Accounting
    <2>c. WriteJob([seen[w] EXCEPT !.status = "succeeded"]) \/ LeaveJob
      BY <1>14 DEF FinishWrite, MayComplete
    <2>2. job' \in JobRow /\ leaseLeft' \in 0 .. Lease
      BY <2>a, <2>c, WriteType
    <2>3. dispatched' \in SUBSET (1 .. MaxAttempts) /\ committer' \in 0 .. MaxAttempts
      BY <1>14 DEF FinishWrite, MayComplete
    <2> QED
      BY <1>14, <2>1, <2>2, <2>3 DEF FinishWrite, MayComplete
  <1>15. CASE ExceptRead(w)
    BY <1>15 DEF ExceptRead
  <1>16. CASE ExceptCount(w)
    BY <1>16 DEF ExceptCount
  <1>17. CASE FailWrite(w)
    <2>1. pc' \in [Worker -> Steps]
      BY <1>17 DEF FailWrite, IndInv, ReadInv
    <2>a. /\ seen[w] \in JobRow
          /\ [seen[w] EXCEPT !.status = verdict[w],
                              !.accounting = IF verdict[w] = "uncertain" THEN "uncertain" ELSE @] \in JobRow
      BY <1>17, RowFields, RowWrites DEF Status, Accounting, FailWrite, IndInv, ReadInv
    <2>c. WriteJob([seen[w] EXCEPT !.status = verdict[w],
                                   !.accounting = IF verdict[w] = "uncertain" THEN "uncertain" ELSE @]) \/ LeaveJob
      BY <1>17 DEF FailWrite
    <2>2. job' \in JobRow /\ leaseLeft' \in 0 .. Lease
      BY <2>a, <2>c, WriteType
    <2> QED
      BY <1>17, <2>1, <2>2 DEF FailWrite, IndInv, ReadInv
  <1>18. CASE BuildAdapter(w)
    BY <1>18 DEF BuildAdapter
  <1>19. CASE Metadata(w)
    <2>1. pc' \in [Worker -> Steps]
      BY <1>19 DEF Metadata
    <2>2. job' \in JobRow /\ leaseLeft' \in 0 .. Lease
      BY <1>19 DEF Metadata
    <2> QED
      BY <1>19, <2>1, <2>2 DEF Metadata
  <1>20. CASE Reserve(w)
    <2>1. pc' \in [Worker -> Steps]
      BY <1>20 DEF Reserve, MayReserve, IndInv, AdapterInv
    <2>2. job' \in JobRow /\ leaseLeft' \in 0 .. Lease
      BY <1>20 DEF Reserve, MayReserve, IndInv, AdapterInv
    <2>3. dispatched' \in SUBSET (1 .. MaxAttempts) /\ committer' \in 0 .. MaxAttempts
      BY <1>20 DEF Reserve, MayReserve, IndInv, AdapterInv
    <2>4. called' \in SUBSET Worker
      BY <1>20 DEF Reserve, MayReserve, IndInv, AdapterInv
    <2>5. call' \in [1 .. MaxAttempts -> {"none", "reserved", "known", "uncertain"}]
      BY <1>20 DEF Reserve, MayReserve, IndInv, AdapterInv
    <2> QED
      BY <1>20, <2>1, <2>2, <2>3, <2>4, <2>5 DEF Reserve, MayReserve, IndInv, AdapterInv
  <1>21. CASE Mark(w)
    <2>1. pc' \in [Worker -> Steps]
      BY <1>21 DEF Mark
    <2>a. /\ seen[w] \in JobRow
          /\ [seen[w] EXCEPT !.accounting = "reserved"] \in JobRow
      BY <1>21, RowFields, RowWrites DEF Status, Accounting
    <2>c. WriteJob([seen[w] EXCEPT !.accounting = "reserved"]) \/ LeaveJob
      BY <1>21 DEF Mark
    <2>2. job' \in JobRow /\ leaseLeft' \in 0 .. Lease
      BY <2>a, <2>c, WriteType
    <2> QED
      BY <1>21, <2>1, <2>2 DEF Mark
  <1>22. CASE SendCheck(w)
    <2>1. pc' \in [Worker -> Steps]
      BY <1>22 DEF SendCheck
    <2>2. job' \in JobRow /\ leaseLeft' \in 0 .. Lease
      BY <1>22 DEF SendCheck
    <2> QED
      BY <1>22, <2>1, <2>2 DEF SendCheck
  <1>23. CASE Request(w)
    <2>1. pc' \in [Worker -> Steps]
      BY <1>23 DEF Request, IndInv, AdapterInv, Claimed
    <2>2. job' \in JobRow /\ leaseLeft' \in 0 .. Lease
      BY <1>23 DEF Request, IndInv, AdapterInv, Claimed
    <2>a. token[w] \in 1 .. MaxAttempts
      <3>1. token[w] \in 1 .. job.attempts
        BY <1>23 DEF Request, IndInv, AdapterInv, Claimed
      <3>2. job.attempts \in 0 .. MaxAttempts
        BY RowFields
      <3> QED
        BY <3>1, <3>2
    <2>3. dispatched' \in SUBSET (1 .. MaxAttempts) /\ committer' \in 0 .. MaxAttempts
      BY <1>23, <2>a DEF Request
    <2>4. called' \in SUBSET Worker
      BY <1>23 DEF Request, IndInv, AdapterInv, Claimed
    <2>5. call' \in [1 .. MaxAttempts -> {"none", "reserved", "known", "uncertain"}]
      BY <1>23 DEF Request, IndInv, AdapterInv, Claimed
    <2> QED
      BY <1>23, <2>1, <2>2, <2>3, <2>4, <2>5 DEF Request, IndInv, AdapterInv, Claimed
  <1>24. CASE LocalModel(w)
    BY <1>24 DEF LocalModel
  <1>25. CASE AccountRead(w)
    BY <1>25 DEF AccountRead
  <1>26. CASE AccountWrite(w)
    <2>1. pc' \in [Worker -> Steps]
      BY <1>26 DEF AccountWrite
    <2>a. /\ seen[w] \in JobRow
          /\ [seen[w] EXCEPT !.accounting = "known"] \in JobRow
      BY <1>26, RowFields, RowWrites DEF Status, Accounting
    <2>c. WriteJob([seen[w] EXCEPT !.accounting = "known"]) \/ LeaveJob
      BY <1>26 DEF AccountWrite
    <2>2. job' \in JobRow /\ leaseLeft' \in 0 .. Lease
      BY <2>a, <2>c, WriteType
    <2> QED
      BY <1>26, <2>1, <2>2 DEF AccountWrite
  <1>27. CASE Finish(w)
    <2>1. pc' \in [Worker -> Steps]
      BY <1>27 DEF Finish, MayFinish
    <2>a. /\ job \in JobRow
          /\ [job EXCEPT !.status = "succeeded"] \in JobRow
      BY <1>27, RowFields, RowWrites DEF Status, Accounting
    <2>c. WriteJob([job EXCEPT !.status = "succeeded"]) \/ LeaveJob
      BY <1>27 DEF Finish, MayFinish
    <2>2. job' \in JobRow /\ leaseLeft' \in 0 .. Lease
      BY <2>a, <2>c, WriteType
    <2>3. dispatched' \in SUBSET (1 .. MaxAttempts) /\ committer' \in 0 .. MaxAttempts
      BY <1>27 DEF Finish, MayFinish
    <2> QED
      BY <1>27, <2>1, <2>2, <2>3 DEF Finish, MayFinish
  <1>28. CASE Fail(w)
    <2>1. pc' \in [Worker -> Steps]
      BY <1>28 DEF Fail
    <2>a. /\ job \in JobRow
          /\ [job EXCEPT !.status = "failed"] \in JobRow
      BY <1>28, RowFields, RowWrites DEF Status, Accounting
    <2>c. WriteJob([job EXCEPT !.status = "failed"]) \/ LeaveJob
      BY <1>28 DEF Fail
    <2>2. job' \in JobRow /\ leaseLeft' \in 0 .. Lease
      BY <2>a, <2>c, WriteType
    <2> QED
      BY <1>28, <2>1, <2>2 DEF Fail
  <1>29. ASSUME NEW cost \in {"known", "uncertain", "reserved"}, Settle(w, cost) PROVE TypeOK'
    BY <1>29 DEF Settle, IndInv, AdapterInv
  <1> QED
    BY <1>1, <1>2, <1>3, <1>4, <1>5, <1>6, <1>7, <1>8, <1>9, <1>10, <1>11, <1>12, <1>13, <1>14,
       <1>15, <1>16, <1>17, <1>18, <1>19, <1>20, <1>21, <1>22, <1>23, <1>24, <1>25, <1>26, <1>27,
       <1>28, <1>29
    DEF Work

-----------------------------------------------------------------------------
(* What one step of worker w does: to the row, to the other workers, to what w knows. *)

RowStep ==
    /\ job.attempts <= job'.attempts
    /\ job.status \in Terminal => job'.status = job.status

OthersStep(w) ==
    \A v \in Worker \ {w} :
        /\ pc'[v] = pc[v] /\ seen'[v] = seen[v] /\ token'[v] = token[v] /\ verdict'[v] = verdict[v]

\* A worker enters its claimed steps only with the next attempt number.
TokenStep(w) ==
    pc'[w] \in Claimed =>
        \/ pc[w] \in Claimed /\ token'[w] = token[w]
        \/ token'[w] = job.attempts + 1 /\ job'.attempts = job.attempts + 1

ReadStep(w) ==
    /\ pc'[w] \in {"count", "swap"} => seen'[w].status \in {"queued", "running"}
    /\ pc'[w] = "swap" =>
        /\ verdict'[w] \in {"take", "hold", "exhaust"}
        /\ verdict'[w] = "take" => seen'[w].attempts < MaxAttempts
    /\ pc'[w] \in {"fail_count", "fail_write"} => seen'[w].status = "running"
    /\ pc'[w] = "fail_write" => verdict'[w] \in {"failed", "uncertain"}

AdapterStep(w) ==
    pc'[w] \in {"metadata", "reserve", "mark", "send", "request", "reply"} =>
        seen'[w].attempts \in 1 .. job'.attempts

PathStep(w) ==
    operation = "recommendation" =>
        /\ pc'[w] \in {"idle", "count", "swap", "work", "fail"}
        /\ job'.status = "succeeded" => committer' = job'.attempts

WorkStep(w) ==
    /\ RowStep /\ OthersStep(w) /\ TokenStep(w) /\ ReadStep(w) /\ AdapterStep(w) /\ PathStep(w)

\* The columns of a row after a write.
LEMMA RowReads ==
    ASSUME NEW row \in JobRow, NEW s, NEW a, NEW c
    PROVE  /\ [row EXCEPT !.status = s].status = s
           /\ [row EXCEPT !.status = s].attempts = row.attempts
           /\ [row EXCEPT !.accounting = c].status = row.status
           /\ [row EXCEPT !.accounting = c].attempts = row.attempts
           /\ [row EXCEPT !.status = s, !.attempts = a].status = s
           /\ [row EXCEPT !.status = s, !.attempts = a].attempts = a
           /\ [row EXCEPT !.status = s, !.accounting = c].status = s
           /\ [row EXCEPT !.status = s, !.accounting = c].attempts = row.attempts
  BY DEF JobRow

\* Every action of a worker is such a step.
LEMMA WorkIsStep ==
    ASSUME TypeOK, IndInv, NEW w \in Worker, Work(w)
    PROVE  WorkStep(w)
  <1>0. /\ job.attempts \in Nat /\ seen[w].attempts \in Nat /\ token[w] \in Nat
        /\ job \in JobRow /\ seen[w] \in JobRow /\ MaxAttempts \in Nat
    BY RowFields, PlanningAssumption DEF TypeOK
  <1>p. /\ pc \in [Worker -> Steps] /\ seen \in [Worker -> JobRow]
        /\ token \in [Worker -> 0 .. MaxAttempts]
        /\ verdict \in [Worker -> {"take", "hold", "exhaust", "failed", "uncertain"}]
    BY DEF TypeOK
  <1>q. /\ pc[w] \in {"count", "swap"} => seen[w].status \in {"queued", "running"}
        /\ pc[w] = "swap" =>
            /\ verdict[w] \in {"take", "hold", "exhaust"}
            /\ verdict[w] = "take" => seen[w].attempts < MaxAttempts
        /\ pc[w] \in {"fail_count", "fail_write"} => seen[w].status = "running"
        /\ pc[w] = "fail_write" => verdict[w] \in {"failed", "uncertain"}
        /\ pc[w] \in Claimed => token[w] \in 1 .. job.attempts
        /\ pc[w] \in {"metadata", "reserve", "mark", "send", "request", "reply"} =>
            seen[w].attempts \in 1 .. job.attempts
        /\ operation = "recommendation" =>
            /\ pc[w] \in {"idle", "count", "swap", "work", "fail"}
            /\ job.status = "succeeded" => committer = job.attempts
    BY DEF IndInv, ReadInv, AdapterInv, PathInv
  <1> USE DEF Goto, ReadJob, LeaveRest, jobVars, cancelVars, WorkStep
  <1>1. CASE ClaimSelect(w)
    BY <1>1, <1>0, <1>p, <1>q
    DEF ClaimSelect, Claimable, OthersStep, RowStep, TokenStep, AdapterStep, ReadStep, PathStep, Claimed, Steps, Check
  <1>2. CASE ClaimCount(w)
    BY <1>2, <1>0, <1>p, <1>q
    DEF ClaimCount, Verdict, OthersStep, RowStep, TokenStep, AdapterStep, ReadStep, PathStep, Claimed, Steps, Check
  <1>3. CASE ClaimTake(w)
    <2>1. OthersStep(w)
      BY <1>3, <1>p DEF ClaimTake, ClaimedRow, OthersStep
    <2>2. RowStep
      BY <1>3, <1>0, <1>q, RowReads
      DEF ClaimTake, ClaimedRow, RowStep, Terminal, Status, Matches, Check, WriteJob, LeaveJob
    <2>3. TokenStep(w) /\ AdapterStep(w)
      BY <1>3, <1>0, <1>p, <1>q, <2>2, RowReads
      DEF ClaimTake, ClaimedRow, TokenStep, AdapterStep, Claimed, Steps, Matches, Check,
          WriteJob, RowStep
    <2>4. ReadStep(w)
      BY <1>3, <1>p, <1>q DEF ClaimTake, ClaimedRow, ReadStep
    <2>5. PathStep(w)
      BY <1>3, <1>0, <1>p, <1>q, RowReads
      DEF ClaimTake, ClaimedRow, PathStep, Check, WriteJob, LeaveJob
    <2> QED
      BY <2>1, <2>2, <2>3, <2>4, <2>5
  <1>4. CASE ClaimClose(w)
    <2>1. OthersStep(w)
      BY <1>4, <1>p DEF ClaimClose, OthersStep
    <2>2. RowStep
      BY <1>4, <1>0, <1>q, RowReads
      DEF ClaimClose, RowStep, Terminal, Status, Matches, Check, WriteJob, LeaveJob
    <2>3. TokenStep(w) /\ AdapterStep(w)
      BY <1>4, <1>0, <1>p, <1>q, <2>2, RowReads
      DEF ClaimClose, TokenStep, AdapterStep, Claimed, Steps, Matches, Check, WriteJob,
          RowStep
    <2>4. ReadStep(w)
      BY <1>4, <1>p, <1>q DEF ClaimClose, ReadStep
    <2>5. PathStep(w)
      BY <1>4, <1>0, <1>p, <1>q, RowReads DEF ClaimClose, PathStep, Check, WriteJob, LeaveJob
    <2> QED
      BY <2>1, <2>2, <2>3, <2>4, <2>5
  <1>5. CASE ClaimLost(w)
    BY <1>5, <1>0, <1>p, <1>q
    DEF ClaimLost, OthersStep, RowStep, TokenStep, AdapterStep, ReadStep, PathStep, Claimed, Steps, Check
  <1>6. CASE Guard(w)
    BY <1>6, <1>0, <1>p, <1>q
    DEF Guard, OthersStep, RowStep, TokenStep, AdapterStep, ReadStep, PathStep, Claimed, Steps, Check
  <1>7. CASE Hold(w)
    <2>1. OthersStep(w)
      BY <1>7, <1>p DEF Hold, OthersStep
    <2> DEFINE new == [job EXCEPT !.status = "uncertain", !.accounting = "uncertain"]
    <2>a. new.status = "uncertain" /\ new.attempts = job.attempts
      BY <1>0, RowReads
    <2>b. \/ Check(w) /\ job' = new
          \/ job' = job
      BY <1>7 DEF Hold, WriteJob, LeaveJob
    <2> HIDE DEF new
    <2>2. RowStep
      BY <2>a, <2>b, <1>0, <1>q DEF RowStep, Terminal, Status, Matches, Check
    <2>3. TokenStep(w) /\ AdapterStep(w)
      BY <1>7, <1>0, <1>p, <1>q, <2>2, RowReads
      DEF Hold, TokenStep, AdapterStep, Claimed, Steps, Matches, Check, WriteJob, RowStep
    <2>4. ReadStep(w)
      BY <1>7, <1>p, <1>q DEF Hold, ReadStep
    <2>5. PathStep(w)
      BY <1>7, <1>0, <1>p, <1>q, RowReads DEF Hold, PathStep, Check, WriteJob, LeaveJob
    <2> QED
      BY <2>1, <2>2, <2>3, <2>4, <2>5
  <1>8. CASE PhaseCheck(w)
    BY <1>8, <1>0, <1>p, <1>q
    DEF PhaseCheck, OthersStep, RowStep, TokenStep, AdapterStep, ReadStep, PathStep, Claimed, Steps, Check
  <1>9. CASE PhaseRead(w)
    BY <1>9, <1>0, <1>p, <1>q
    DEF PhaseRead, OthersStep, RowStep, TokenStep, AdapterStep, ReadStep, PathStep, Claimed, Steps, Check
  <1>10. CASE PhaseWrite(w)
    <2>1. OthersStep(w)
      BY <1>10, <1>p DEF PhaseWrite, OthersStep
    <2>2. RowStep
      BY <1>10, <1>0, <1>q, RowReads
      DEF PhaseWrite, RowStep, Terminal, Status, Matches, Check, WriteJob, LeaveJob
    <2>3. TokenStep(w) /\ AdapterStep(w)
      BY <1>10, <1>0, <1>p, <1>q, <2>2, RowReads
      DEF PhaseWrite, TokenStep, AdapterStep, Claimed, Steps, Matches, Check, WriteJob,
          RowStep
    <2>4. ReadStep(w)
      BY <1>10, <1>p, <1>q DEF PhaseWrite, ReadStep
    <2>5. PathStep(w)
      BY <1>10, <1>0, <1>p, <1>q, RowReads DEF PhaseWrite, PathStep, Check, WriteJob, LeaveJob
    <2> QED
      BY <2>1, <2>2, <2>3, <2>4, <2>5
  <1>11. CASE PlanRaises(w)
    BY <1>11, <1>0, <1>p, <1>q
    DEF PlanRaises, OthersStep, RowStep, TokenStep, AdapterStep, ReadStep, PathStep, Claimed, Steps, Check
  <1>12. CASE FinishCheck(w)
    BY <1>12, <1>0, <1>p, <1>q
    DEF FinishCheck, OthersStep, RowStep, TokenStep, AdapterStep, ReadStep, PathStep, Claimed, Steps, Check
  <1>13. CASE FinishRead(w)
    BY <1>13, <1>0, <1>p, <1>q
    DEF FinishRead, OthersStep, RowStep, TokenStep, AdapterStep, ReadStep, PathStep, Claimed, Steps, Check
  <1>14. CASE FinishWrite(w)
    <2>1. OthersStep(w)
      BY <1>14, <1>p DEF FinishWrite, MayComplete, OthersStep
    <2> DEFINE new == [seen[w] EXCEPT !.status = "succeeded"]
    <2>a. new.status = "succeeded" /\ new.attempts = seen[w].attempts
      BY <1>0, RowReads
    <2>b. \/ job.status = "running" /\ job.attempts = seen[w].attempts /\ job' = new
          \/ job' = job
      BY <1>14 DEF FinishWrite, MayComplete, WriteJob, LeaveJob
    <2> HIDE DEF new
    <2>2. RowStep
      BY <2>a, <2>b, <1>0, <1>q DEF RowStep, Terminal, Status, Matches, Check
    <2>3. TokenStep(w) /\ AdapterStep(w)
      BY <1>14, <1>0, <1>p, <1>q, <2>2, RowReads
      DEF FinishWrite, MayComplete, TokenStep, AdapterStep, Claimed, Steps, Matches, Check,
          WriteJob, RowStep
    <2>4. ReadStep(w)
      BY <1>14, <1>p, <1>q DEF FinishWrite, MayComplete, ReadStep
    <2>5. PathStep(w)
      BY <1>14, <1>0, <1>p, <1>q, RowReads
      DEF FinishWrite, MayComplete, PathStep, Check, WriteJob, LeaveJob
    <2> QED
      BY <2>1, <2>2, <2>3, <2>4, <2>5
  <1>15. CASE ExceptRead(w)
    BY <1>15, <1>0, <1>p, <1>q
    DEF ExceptRead, OthersStep, RowStep, TokenStep, AdapterStep, ReadStep, PathStep, Claimed, Steps, Check
  <1>16. CASE ExceptCount(w)
    BY <1>16, <1>0, <1>p, <1>q
    DEF ExceptCount, OthersStep, RowStep, TokenStep, AdapterStep, ReadStep, PathStep, Claimed, Steps, Check
  <1>17. CASE FailWrite(w)
    <2>1. OthersStep(w)
      BY <1>17, <1>p DEF FailWrite, OthersStep
    <2> DEFINE new == [seen[w] EXCEPT !.status = verdict[w],
                                      !.accounting = IF verdict[w] = "uncertain" THEN "uncertain" ELSE @]
    <2>a. new.status = verdict[w] /\ new.attempts = seen[w].attempts
      BY <1>0, RowReads
    <2>b. \/ Matches(seen[w]) /\ pc[w] = "fail_write" /\ job' = new
          \/ job' = job
      BY <1>17 DEF FailWrite, WriteJob, LeaveJob
    <2> HIDE DEF new
    <2>2. RowStep
      BY <2>a, <2>b, <1>0, <1>q DEF RowStep, Terminal, Status, Matches, Check
    <2>3. TokenStep(w) /\ AdapterStep(w)
      BY <1>17, <1>0, <1>p, <1>q, <2>2, RowReads
      DEF FailWrite, TokenStep, AdapterStep, Claimed, Steps, Matches, Check, WriteJob, RowStep
    <2>4. ReadStep(w)
      BY <1>17, <1>p, <1>q DEF FailWrite, ReadStep
    <2>5. PathStep(w)
      BY <1>17, <1>0, <1>p, <1>q, RowReads DEF FailWrite, PathStep, Check, WriteJob, LeaveJob
    <2> QED
      BY <2>1, <2>2, <2>3, <2>4, <2>5
  <1>18. CASE BuildAdapter(w)
    BY <1>18, <1>0, <1>p, <1>q
    DEF BuildAdapter, OthersStep, RowStep, TokenStep, AdapterStep, ReadStep, PathStep, Claimed, Steps, Check
  <1>19. CASE Metadata(w)
    BY <1>19, <1>0, <1>p, <1>q
    DEF Metadata, OthersStep, RowStep, TokenStep, AdapterStep, ReadStep, PathStep, Claimed, Steps, Check
  <1>20. CASE Reserve(w)
    BY <1>20, <1>0, <1>p, <1>q
    DEF Reserve, OthersStep, RowStep, TokenStep, AdapterStep, ReadStep, PathStep, Claimed, Steps, Check
  <1>21. CASE Mark(w)
    <2>1. OthersStep(w)
      BY <1>21, <1>p DEF Mark, OthersStep
    <2> DEFINE new == [seen[w] EXCEPT !.accounting = "reserved"]
    <2>a. new.status = seen[w].status /\ new.attempts = seen[w].attempts
      BY <1>0, RowReads
    <2>b. \/ Matches(seen[w]) /\ job' = new
          \/ job' = job
      BY <1>21 DEF Mark, WriteJob, LeaveJob
    <2> HIDE DEF new
    <2>2. RowStep
      BY <2>a, <2>b, <1>0, <1>q DEF RowStep, Terminal, Status, Matches, Check
    <2>3. TokenStep(w) /\ AdapterStep(w)
      BY <1>21, <1>0, <1>p, <1>q, <2>2, RowReads
      DEF Mark, TokenStep, AdapterStep, Claimed, Steps, Matches, Check, WriteJob, RowStep
    <2>4. ReadStep(w)
      BY <1>21, <1>p, <1>q DEF Mark, ReadStep
    <2>5. PathStep(w)
      BY <1>21, <1>0, <1>p, <1>q, RowReads DEF Mark, PathStep, Check, WriteJob, LeaveJob
    <2> QED
      BY <2>1, <2>2, <2>3, <2>4, <2>5
  <1>22. CASE SendCheck(w)
    BY <1>22, <1>0, <1>p, <1>q
    DEF SendCheck, OthersStep, RowStep, TokenStep, AdapterStep, ReadStep, PathStep, Claimed, Steps, Check
  <1>23. CASE Request(w)
    BY <1>23, <1>0, <1>p, <1>q
    DEF Request, OthersStep, RowStep, TokenStep, AdapterStep, ReadStep, PathStep, Claimed, Steps, Check
  <1>24. CASE LocalModel(w)
    BY <1>24, <1>0, <1>p, <1>q
    DEF LocalModel, OthersStep, RowStep, TokenStep, AdapterStep, ReadStep, PathStep, Claimed, Steps, Check
  <1>25. CASE AccountRead(w)
    BY <1>25, <1>0, <1>p, <1>q
    DEF AccountRead, OthersStep, RowStep, TokenStep, AdapterStep, ReadStep, PathStep, Claimed, Steps, Check
  <1>26. CASE AccountWrite(w)
    <2>1. OthersStep(w)
      BY <1>26, <1>p DEF AccountWrite, OthersStep
    <2> DEFINE new == [seen[w] EXCEPT !.accounting = "known"]
    <2>a. new.status = seen[w].status /\ new.attempts = seen[w].attempts
      BY <1>0, RowReads
    <2>b. \/ Matches(seen[w]) /\ job' = new
          \/ job' = job
      BY <1>26 DEF AccountWrite, WriteJob, LeaveJob
    <2> HIDE DEF new
    <2>2. RowStep
      BY <2>a, <2>b, <1>0, <1>q DEF RowStep, Terminal, Status, Matches, Check
    <2>3. TokenStep(w) /\ AdapterStep(w)
      BY <1>26, <1>0, <1>p, <1>q, <2>2, RowReads
      DEF AccountWrite, TokenStep, AdapterStep, Claimed, Steps, Matches, Check, WriteJob,
          RowStep
    <2>4. ReadStep(w)
      BY <1>26, <1>p, <1>q DEF AccountWrite, ReadStep
    <2>5. PathStep(w)
      BY <1>26, <1>0, <1>p, <1>q, RowReads DEF AccountWrite, PathStep, Check, WriteJob, LeaveJob
    <2> QED
      BY <2>1, <2>2, <2>3, <2>4, <2>5
  <1>27. CASE Finish(w)
    <2>1. OthersStep(w)
      BY <1>27, <1>p DEF Finish, MayFinish, OthersStep
    <2> DEFINE new == [job EXCEPT !.status = "succeeded"]
    <2>a. new.status = "succeeded" /\ new.attempts = job.attempts
      BY <1>0, RowReads
    <2>b. \/ Check(w) /\ committer' = token[w] /\ job' = new
          \/ job' = job /\ committer' = committer
      BY <1>27 DEF Finish, MayFinish, WriteJob, LeaveJob
    <2> HIDE DEF new
    <2>2. RowStep
      BY <2>a, <2>b, <1>0, <1>q DEF RowStep, Terminal, Status, Matches, Check
    <2>3. TokenStep(w) /\ AdapterStep(w)
      BY <1>27, <1>0, <1>p, <1>q, <2>2, RowReads
      DEF Finish, MayFinish, TokenStep, AdapterStep, Claimed, Steps, Matches, Check, WriteJob,
          RowStep
    <2>4. ReadStep(w)
      BY <1>27, <1>p, <1>q DEF Finish, MayFinish, ReadStep
    <2>5. PathStep(w)
      <3>1. pc'[w] \in {"idle", "fail"}
        BY <1>27, <1>p DEF Finish
      <3> QED
        BY <3>1, <2>a, <2>b, <1>0, <1>q DEF PathStep, Check
    <2> QED
      BY <2>1, <2>2, <2>3, <2>4, <2>5
  <1>28. CASE Fail(w)
    <2>1. OthersStep(w)
      BY <1>28, <1>p DEF Fail, OthersStep
    <2> DEFINE new == [job EXCEPT !.status = "failed"]
    <2>a. new.status = "failed" /\ new.attempts = job.attempts
      BY <1>0, RowReads
    <2>b. \/ Check(w) /\ job' = new
          \/ job' = job /\ committer' = committer
      BY <1>28 DEF Fail, WriteJob, LeaveJob
    <2> HIDE DEF new
    <2>2. RowStep
      BY <2>a, <2>b, <1>0, <1>q DEF RowStep, Terminal, Status, Matches, Check
    <2>3. TokenStep(w) /\ AdapterStep(w)
      BY <1>28, <1>0, <1>p, <1>q, <2>2, RowReads
      DEF Fail, TokenStep, AdapterStep, Claimed, Steps, Matches, Check, WriteJob, RowStep
    <2>4. ReadStep(w)
      BY <1>28, <1>p, <1>q DEF Fail, ReadStep
    <2>5. PathStep(w)
      <3>1. pc'[w] \in {"idle", "fail"}
        BY <1>28, <1>p DEF Fail
      <3> QED
        BY <3>1, <2>a, <2>b, <1>0, <1>q DEF PathStep, Check
    <2> QED
      BY <2>1, <2>2, <2>3, <2>4, <2>5
  <1>29. ASSUME NEW cost \in {"known", "uncertain", "reserved"}, Settle(w, cost) PROVE WorkStep(w)
    BY <1>29, <1>0, <1>p, <1>q
    DEF Settle, OthersStep, RowStep, TokenStep, AdapterStep, ReadStep, PathStep, Claimed, Steps, Check
  <1> QED
    BY <1>1, <1>2, <1>3, <1>4, <1>5, <1>6, <1>7, <1>8, <1>9, <1>10, <1>11, <1>12, <1>13, <1>14,
       <1>15, <1>16, <1>17, <1>18, <1>19, <1>20, <1>21, <1>22, <1>23, <1>24, <1>25, <1>26, <1>27,
       <1>28, <1>29
    DEF Work

\* A worker's step keeps the inductive invariant: what others hold still refers to
\* attempts at most as high, and a new claim has a number nobody holds.
LEMMA WorkInd ==
    ASSUME TypeOK, IndInv, NEW w \in Worker, Work(w)
    PROVE  IndInv'
  <1>1. WorkStep(w) /\ TypeOK'
    BY WorkIsStep, WorkType
  <1>2. /\ job.attempts \in Nat /\ job'.attempts \in Nat /\ job.attempts <= job'.attempts
    BY <1>1, RowFields DEF TypeOK, WorkStep, RowStep
  <1>3. cpc' = cpc /\ cseen' = cseen /\ operation' = operation
    BY DEF Work, LeaveRest, cancelVars, ClaimSelect, ClaimCount, ClaimTake, ClaimClose, ClaimLost,
       Guard, Hold, PhaseCheck, PhaseRead, PhaseWrite, PlanRaises, FinishCheck, FinishRead,
       FinishWrite, ExceptRead, ExceptCount, FailWrite, BuildAdapter, Metadata, Reserve, Mark,
       SendCheck, Request, Settle, LocalModel, AccountRead, AccountWrite, Finish, Fail
  <1>4. ReadInv'
    BY <1>1, <1>3 DEF IndInv, ReadInv, WorkStep, ReadStep, OthersStep
  <1>5. ASSUME NEW v \in Worker, pc'[v] \in Claimed PROVE token'[v] \in 1 .. job'.attempts
    <2>1. CASE v = w
      BY <1>1, <1>2, <1>5, <2>1 DEF WorkStep, TokenStep, IndInv, AdapterInv
    <2>2. CASE v # w
      BY <1>1, <1>2, <1>5, <2>2 DEF WorkStep, OthersStep, IndInv, AdapterInv
    <2> QED
      BY <2>1, <2>2
  <1>6. AdapterInv'
    <2> SUFFICES ASSUME NEW v \in Worker,
                        pc'[v] \in {"metadata", "reserve", "mark", "send", "request", "reply"}
                 PROVE  seen'[v].attempts \in 1 .. job'.attempts
      BY <1>5 DEF AdapterInv
    <2>1. CASE v = w
      BY <1>1, <2>1 DEF WorkStep, AdapterStep
    <2>2. CASE v # w
      <3>1. seen[v].attempts \in 1 .. job.attempts /\ seen'[v] = seen[v]
        BY <1>1, <2>2 DEF WorkStep, OthersStep, IndInv, AdapterInv
      <3> QED
        BY <3>1, <1>2
    <2> QED
      BY <2>1, <2>2
  <1>7. OneWorkerPerAttempt'
    <2> SUFFICES ASSUME NEW u \in Worker, NEW v \in Worker, u # v,
                        pc'[u] \in Claimed, pc'[v] \in Claimed
                 PROVE  token'[u] # token'[v]
      BY DEF OneWorkerPerAttempt
    <2>1. CASE u # w /\ v # w
      BY <1>1, <2>1 DEF WorkStep, OthersStep, IndInv, OneWorkerPerAttempt
    <2>2. ASSUME NEW x \in Worker, x # w, pc'[x] \in Claimed, pc'[w] \in Claimed
          PROVE  token'[x] # token'[w]
      <3>1. pc[x] \in Claimed /\ token'[x] = token[x]
        BY <1>1, <2>2 DEF WorkStep, OthersStep
      <3>2. token[x] \in 1 .. job.attempts
        BY <3>1 DEF IndInv, AdapterInv
      <3>3. CASE token'[w] = job.attempts + 1
        BY <1>2, <3>1, <3>2, <3>3
      <3>4. CASE pc[w] \in Claimed /\ token'[w] = token[w]
        BY <2>2, <3>1, <3>4 DEF IndInv, OneWorkerPerAttempt
      <3> QED
        BY <1>1, <2>2, <3>3, <3>4 DEF WorkStep, TokenStep
    <2> QED
      BY <2>1, <2>2
  <1>8. PathInv'
    BY <1>1, <1>3 DEF IndInv, PathInv, WorkStep, PathStep, OthersStep
  <1> QED
    BY <1>4, <1>6, <1>7, <1>8 DEF IndInv

\* Crashes, the clock and cancellation keep types and invariant.
LEMMA OtherSteps ==
    ASSUME TypeOK, IndInv,
           Tick \/ CancelRead \/ CancelWrite \/ (\E w \in Worker : Crash(w)) \/ UNCHANGED vars
    PROVE  TypeOK' /\ IndInv' /\ RowStep
  <1> USE DEF workerVars, cancelVars, jobVars
  <1>1. CASE Tick
    <2>1. TypeOK'
      BY <1>1, PlanningAssumption DEF Tick, TypeOK
    <2>2. IndInv'
      BY <1>1 DEF Tick, IndInv, ReadInv, AdapterInv, OneWorkerPerAttempt, PathInv
    <2> QED
      BY <1>1, <2>1, <2>2, RowFields DEF Tick, RowStep, TypeOK
  <1>2. CASE CancelRead
    <2>1. TypeOK'
      BY <1>2 DEF CancelRead, TypeOK
    <2>2. IndInv'
      BY <1>2 DEF CancelRead, IndInv, ReadInv, AdapterInv, OneWorkerPerAttempt, PathInv
    <2> QED
      BY <1>2, <2>1, <2>2, RowFields DEF CancelRead, RowStep, TypeOK
  <1>3. CASE CancelWrite
    <2> DEFINE new == [cseen EXCEPT !.status = "cancelled",
                                    !.accounting = IF @ = "reserved" THEN "uncertain" ELSE @]
    <2>1. cseen \in JobRow /\ job \in JobRow
      BY DEF TypeOK
    <2>2. new \in JobRow /\ new.status = "cancelled" /\ new.attempts = cseen.attempts
      <3>1. PICK c \in Accounting : new = [cseen EXCEPT !.status = "cancelled", !.accounting = c]
        <4>1. CASE cseen.accounting = "reserved"
          BY <2>1, <4>1 DEF JobRow, Accounting
        <4>2. CASE cseen.accounting # "reserved"
          BY <2>1, <4>2, RowFields DEF JobRow
        <4> QED
          BY <4>1, <4>2
      <3>2. "cancelled" \in Status
        BY DEF Status
      <3> HIDE DEF new
      <3>3. [cseen EXCEPT !.status = "cancelled", !.accounting = c] \in JobRow
        BY <2>1, <3>2 DEF JobRow
      <3> QED
        BY <2>1, <3>1, <3>3, RowReads
    <2> HIDE DEF new
    <2>3. \/ Matches(cseen) /\ WriteJob(new)
          \/ LeaveJob
      BY <1>3 DEF CancelWrite, new
    <2>4. TypeOK'
      <3>1. job' \in JobRow /\ leaseLeft' \in 0 .. Lease
        BY <2>2, <2>3, WriteType
      <3> QED
        BY <1>3, <3>1 DEF CancelWrite, TypeOK
    <2>5. (Matches(cseen) /\ job' = new) \/ job' = job
      BY <2>3 DEF WriteJob, LeaveJob
    <2>6. job'.attempts = job.attempts /\ (job'.status = "cancelled" \/ job' = job)
      BY <2>2, <2>5 DEF Matches
    <2>7. RowStep
      BY <1>3, <2>2, <2>5, <2>6, <2>1, RowFields
      DEF RowStep, Terminal, Matches, CancelWrite, IndInv, ReadInv
    <2>8. IndInv'
      <3>1. ReadInv'
        BY <1>3 DEF CancelWrite, IndInv, ReadInv
      <3>2. AdapterInv' /\ OneWorkerPerAttempt'
        BY <1>3, <2>6 DEF CancelWrite, IndInv, AdapterInv, OneWorkerPerAttempt
      <3>3. PathInv'
        BY <1>3, <2>6 DEF CancelWrite, IndInv, PathInv
      <3> QED
        BY <3>1, <3>2, <3>3 DEF IndInv
    <2> QED
      BY <2>4, <2>7, <2>8
  <1>4. ASSUME NEW w \in Worker, Crash(w) PROVE TypeOK' /\ IndInv' /\ RowStep
    <2>1. TypeOK'
      BY <1>4, PlanningAssumption DEF Crash, TypeOK, Steps
    <2>2. pc' = [pc EXCEPT ![w] = "idle"] /\ pc \in [Worker -> Steps]
      BY <1>4 DEF Crash, TypeOK
    <2>3. ReadInv' /\ AdapterInv' /\ OneWorkerPerAttempt' /\ PathInv'
      BY <1>4, <2>2 DEF Crash, IndInv, ReadInv, AdapterInv, OneWorkerPerAttempt, PathInv, Claimed
    <2> QED
      BY <1>4, <2>1, <2>3, RowFields DEF Crash, IndInv, RowStep, TypeOK
  <1>5. CASE UNCHANGED vars
    <2>1. TypeOK' /\ IndInv'
      BY <1>5 DEF vars, TypeOK, IndInv, ReadInv, AdapterInv, OneWorkerPerAttempt, PathInv
    <2> QED
      BY <1>5, <2>1, RowFields DEF vars, RowStep, TypeOK
  <1> QED
    BY <1>1, <1>2, <1>3, <1>4, <1>5

\* Types and invariant are inductive, and no step moves a terminal row.
LEMMA StepInv == TypeOK /\ IndInv /\ [Next]_vars => TypeOK' /\ IndInv' /\ RowStep
  <1> SUFFICES ASSUME TypeOK, IndInv, [Next]_vars PROVE TypeOK' /\ IndInv' /\ RowStep
    OBVIOUS
  <1>1. ASSUME NEW w \in Worker, Work(w) PROVE TypeOK' /\ IndInv' /\ RowStep
    BY <1>1, WorkType, WorkInd, WorkIsStep DEF WorkStep
  <1> QED
    BY <1>1, OtherSteps DEF Next

\* Types and invariant hold in every state.
LEMMA Inductive == Spec => [](TypeOK /\ IndInv)
  BY InitInv, StepInv, PTL DEF Spec

-----------------------------------------------------------------------------
(* Success under an open call. *)

Calling == {"mark", "send", "request", "reply"}

\* Steps that a claimant reaches only past the guard, with no call of its own in flight.
Clear == {"plan", "phase_read", "phase_write", "metadata", "reserve", "account_read",
          "account_write", "finish_read", "finish_write"}

OpenCall(t) == call[t] \in {"reserved", "uncertain"}

\* A worker reserves under its own claim only, since the check after the row was read found
\* the attempt it claimed; the latest claimant leaves no call open but the one it waits for.
CallInv ==
    /\ \A w \in Worker :
        /\ pc[w] \in {"work", "fail"} => operation = "recommendation"
        /\ pc[w] = "metadata" => token[w] <= seen[w].attempts
        /\ pc[w] \in {"reserve"} \cup Calling => seen[w].attempts = token[w]
        /\ pc[w] \in Calling => call[token[w]] = "reserved"
        /\ pc[w] \in Calling /\ token[w] = job.attempts =>
            \A t \in 1 .. MaxAttempts : t # token[w] => ~OpenCall(t)
        /\ pc[w] \in Clear /\ token[w] = job.attempts => ~HasUncertainCall
    /\ operation = "recommendation" => ~HasUncertainCall
    /\ AccountedSuccess

\* How a step of worker w bears on the calls: it leaves them alone, or reserves or settles the
\* call of its own attempt.
Quiet(w) ==
    /\ call' = call
    /\ pc'[w] \in {"work", "fail"} => operation = "recommendation"
    /\ pc'[w] = "metadata" => token'[w] <= seen'[w].attempts
    /\ pc'[w] \in {"reserve"} \cup Calling => seen'[w].attempts = token'[w]
    /\ pc'[w] \in Calling => pc[w] \in Calling /\ token'[w] = token[w]
    /\ pc'[w] \in Clear => token'[w] = token[w] /\ (pc[w] \in Clear \/ ~HasUncertainCall)
    /\ job'.status = "succeeded" /\ committer' = job'.attempts => ~HasUncertainCall
Reserves(w) ==
    /\ pc[w] = "reserve" /\ pc'[w] = "mark" /\ job.status = "running" /\ token[w] = job.attempts
    /\ call' = [call EXCEPT ![token[w]] = "reserved"]
    /\ UNCHANGED <<job, seen, token, committer>>
Settles(w) ==
    /\ pc[w] = "reply"
    /\ \E cost \in {"known", "uncertain", "reserved"} :
        /\ call' = [call EXCEPT ![token[w]] = cost]
        /\ pc'[w] = IF cost = "known" THEN "account_read" ELSE "except"
    /\ UNCHANGED <<job, seen, token, committer>>

\* Every step of a worker is one of these.
LEMMA WorkCalls ==
    ASSUME TypeOK, IndInv, CallInv, NEW w \in Worker, Work(w)
    PROVE  Quiet(w) \/ Reserves(w) \/ Settles(w)
  <1>0. /\ job.attempts \in Nat /\ seen[w].attempts \in Nat /\ token[w] \in Nat
        /\ job \in JobRow /\ seen[w] \in JobRow
    BY RowFields, PlanningAssumption DEF TypeOK
  <1>p. /\ pc \in [Worker -> Steps] /\ seen \in [Worker -> JobRow]
        /\ token \in [Worker -> 0 .. MaxAttempts]
    BY DEF TypeOK
  <1>q. /\ pc[w] \in {"work", "fail"} => operation = "recommendation"
        /\ pc[w] = "metadata" => token[w] <= seen[w].attempts /\ seen[w].attempts <= job.attempts
        /\ pc[w] \in {"reserve"} \cup Calling => seen[w].attempts = token[w]
        /\ pc[w] \in Clear /\ token[w] = job.attempts => ~HasUncertainCall
        /\ pc[w] \in Claimed => token[w] <= job.attempts
        /\ pc[w] = "swap" => seen[w].status \in {"queued", "running"}
        /\ pc[w] = "fail_write" => verdict[w] \in {"failed", "uncertain"}
        /\ operation = "recommendation" => ~HasUncertainCall
    BY <1>0 DEF CallInv, IndInv, AdapterInv, ReadInv
  <1>s. ASSUME \/ job'.status # "succeeded"
               \/ job'.status = job.status /\ job'.attempts = job.attempts /\ committer' = committer
        PROVE  job'.status = "succeeded" /\ committer' = job'.attempts => ~HasUncertainCall
    BY <1>s DEF CallInv, AccountedSuccess
  <1> USE DEF Goto, Calling, Clear
  <1>1. CASE ClaimSelect(w)
    <2>1. job' = job /\ committer' = committer
      BY <1>1 DEF ClaimSelect, jobVars
    <2> QED BY <1>0, <1>p, <1>q, <1>s, <1>1, <2>1 DEF ClaimSelect, ReadJob, Quiet
  <1>2. CASE ClaimCount(w)
    <2>1. job' = job /\ committer' = committer
      BY <1>2 DEF ClaimCount, jobVars
    <2> QED BY <1>0, <1>p, <1>q, <1>s, <1>2, <2>1 DEF ClaimCount, Quiet
  <1>3. CASE ClaimLost(w)
    <2>1. job' = job /\ committer' = committer
      BY <1>3 DEF ClaimLost, jobVars
    <2> QED BY <1>0, <1>p, <1>q, <1>s, <1>3, <2>1 DEF ClaimLost, Quiet
  <1>4. CASE Guard(w)
    <2>1. job' = job /\ committer' = committer
      BY <1>4 DEF Guard, jobVars
    <2> QED BY <1>0, <1>p, <1>q, <1>s, <1>4, <2>1 DEF Guard, Guarded, Quiet
  <1>5. CASE PhaseCheck(w)
    <2>1. job' = job /\ committer' = committer
      BY <1>5 DEF PhaseCheck, jobVars
    <2> QED BY <1>0, <1>p, <1>q, <1>s, <1>5, <2>1 DEF PhaseCheck, Check, Quiet
  <1>6. CASE PhaseRead(w)
    <2>1. job' = job /\ committer' = committer
      BY <1>6 DEF PhaseRead, jobVars
    <2> QED BY <1>0, <1>p, <1>q, <1>s, <1>6, <2>1 DEF PhaseRead, ReadJob, Quiet
  <1>7. CASE PlanRaises(w)
    <2>1. job' = job /\ committer' = committer
      BY <1>7 DEF PlanRaises, jobVars
    <2> QED BY <1>0, <1>p, <1>q, <1>s, <1>7, <2>1 DEF PlanRaises, Quiet
  <1>8. CASE FinishCheck(w)
    <2>1. job' = job /\ committer' = committer
      BY <1>8 DEF FinishCheck, jobVars
    <2> QED BY <1>0, <1>p, <1>q, <1>s, <1>8, <2>1 DEF FinishCheck, Check, Quiet
  <1>9. CASE FinishRead(w)
    <2>1. job' = job /\ committer' = committer
      BY <1>9 DEF FinishRead, jobVars
    <2> QED BY <1>0, <1>p, <1>q, <1>s, <1>9, <2>1 DEF FinishRead, ReadJob, Quiet
  <1>10. CASE ExceptRead(w)
    <2>1. job' = job /\ committer' = committer
      BY <1>10 DEF ExceptRead, jobVars
    <2> QED BY <1>0, <1>p, <1>q, <1>s, <1>10, <2>1 DEF ExceptRead, ReadJob, Quiet
  <1>11. CASE ExceptCount(w)
    <2>1. job' = job /\ committer' = committer
      BY <1>11 DEF ExceptCount, jobVars
    <2> QED BY <1>0, <1>p, <1>q, <1>s, <1>11, <2>1 DEF ExceptCount, Quiet
  <1>12. CASE BuildAdapter(w)
    <2>1. job' = job /\ committer' = committer
      BY <1>12 DEF BuildAdapter, jobVars
    <2> QED BY <1>0, <1>p, <1>q, <1>s, <1>12, <2>1 DEF BuildAdapter, ReadJob, Claimed, Steps, Quiet
  <1>13. CASE Metadata(w)
    <2>1. job' = job /\ committer' = committer
      BY <1>13 DEF Metadata, jobVars
    <2> QED BY <1>0, <1>p, <1>q, <1>s, <1>13, <2>1 DEF Metadata, Check, Quiet
  <1>14. CASE SendCheck(w)
    <2>1. job' = job /\ committer' = committer
      BY <1>14 DEF SendCheck, jobVars
    <2> QED BY <1>0, <1>p, <1>q, <1>s, <1>14, <2>1 DEF SendCheck, Quiet
  <1>15. CASE Request(w)
    <2>1. job' = job /\ committer' = committer
      BY <1>15 DEF Request, jobVars
    <2> QED BY <1>0, <1>p, <1>q, <1>s, <1>15, <2>1 DEF Request, Quiet
  <1>16. CASE LocalModel(w)
    <2>1. job' = job /\ committer' = committer
      BY <1>16 DEF LocalModel, jobVars
    <2> QED BY <1>0, <1>p, <1>q, <1>s, <1>16, <2>1 DEF LocalModel, Quiet
  <1>17. CASE AccountRead(w)
    <2>1. job' = job /\ committer' = committer
      BY <1>17 DEF AccountRead, jobVars
    <2> QED BY <1>0, <1>p, <1>q, <1>s, <1>17, <2>1 DEF AccountRead, ReadJob, Quiet
  <1>18. CASE PhaseWrite(w)
    <2> DEFINE new == seen[w]
    <2>0. new.status = seen[w].status /\ new.attempts = seen[w].attempts
      BY <1>0, RowReads
    <2>1. (Matches(seen[w]) /\ job' = new) \/ job' = job
      BY <1>18 DEF PhaseWrite, WriteJob, LeaveJob, jobVars
    <2> HIDE DEF new
    <2>2. job'.status = job.status /\ job'.attempts = job.attempts /\ committer' = committer
      BY <1>18, <2>0, <2>1 DEF PhaseWrite, Matches
    <2> QED BY <1>p, <1>q, <1>s, <1>18, <2>2 DEF PhaseWrite, Quiet
  <1>19. CASE Mark(w)
    <2> DEFINE new == [seen[w] EXCEPT !.accounting = "reserved"]
    <2>0. new.status = seen[w].status /\ new.attempts = seen[w].attempts
      BY <1>0, RowReads
    <2>1. (Matches(seen[w]) /\ job' = new) \/ job' = job
      BY <1>19 DEF Mark, WriteJob, LeaveJob, jobVars
    <2> HIDE DEF new
    <2>2. job'.status = job.status /\ job'.attempts = job.attempts /\ committer' = committer
      BY <1>19, <2>0, <2>1 DEF Mark, Matches
    <2> QED BY <1>p, <1>q, <1>s, <1>19, <2>2 DEF Mark, Quiet
  <1>20. CASE AccountWrite(w)
    <2> DEFINE new == [seen[w] EXCEPT !.accounting = "known"]
    <2>0. new.status = seen[w].status /\ new.attempts = seen[w].attempts
      BY <1>0, RowReads
    <2>1. (Matches(seen[w]) /\ job' = new) \/ job' = job
      BY <1>20 DEF AccountWrite, WriteJob, LeaveJob, jobVars
    <2> HIDE DEF new
    <2>2. job'.status = job.status /\ job'.attempts = job.attempts /\ committer' = committer
      BY <1>20, <2>0, <2>1 DEF AccountWrite, Matches
    <2> QED BY <1>p, <1>q, <1>s, <1>20, <2>2 DEF AccountWrite, Quiet
  <1>21. CASE Hold(w)
    <2> DEFINE new == [job EXCEPT !.status = "uncertain", !.accounting = "uncertain"]
    <2>0. new.status = "uncertain"
      BY <1>0, RowReads
    <2>1. job' = new \/ job' = job
      BY <1>21 DEF Hold, WriteJob, LeaveJob, jobVars
    <2> HIDE DEF new
    <2>2. committer' = committer /\ (job'.status = "uncertain" \/ job' = job)
      BY <1>21, <2>0, <2>1 DEF Hold
    <2> QED BY <1>p, <1>q, <1>s, <1>21, <2>2 DEF Hold, Quiet
  <1>22. CASE Fail(w)
    <2> DEFINE new == [job EXCEPT !.status = "failed"]
    <2>0. new.status = "failed"
      BY <1>0, RowReads
    <2>1. job' = new \/ job' = job
      BY <1>22 DEF Fail, WriteJob, LeaveJob, jobVars
    <2> HIDE DEF new
    <2>2. committer' = committer /\ (job'.status = "failed" \/ job' = job)
      BY <1>22, <2>0, <2>1 DEF Fail
    <2> QED BY <1>p, <1>q, <1>s, <1>22, <2>2 DEF Fail, Quiet
  <1>23. CASE ClaimTake(w)
    <2>1. job'.status = "running"
      BY <1>0, <1>23, RowReads DEF ClaimTake, ClaimedRow, WriteJob
    <2>2. pc'[w] = "guard" \/ (pc'[w] = "work" /\ operation = "recommendation")
      BY <1>p, <1>23 DEF ClaimTake, TypeOK
    <2> QED BY <1>q, <1>s, <1>23, <2>1, <2>2 DEF ClaimTake, Quiet
  <1>24. CASE ClaimClose(w)
    <2>1. job'.status \in {"uncertain", "failed"}
      BY <1>0, <1>24, RowReads DEF ClaimClose, WriteJob
    <2> QED BY <1>p, <1>q, <1>s, <1>24, <2>1 DEF ClaimClose, Quiet
  <1>25. CASE FailWrite(w)
    <2>1. job'.status \in {"uncertain", "failed"} \/ job' = job
      <3>1. pc[w] = "fail_write" /\ verdict[w] \in {"failed", "uncertain"}
        BY <1>q, <1>25 DEF FailWrite
      <3> DEFINE new == [seen[w] EXCEPT !.status = verdict[w],
                           !.accounting = IF verdict[w] = "uncertain" THEN "uncertain" ELSE @]
      <3>2. new.status = verdict[w]
        BY <1>0 DEF JobRow
      <3>3. job' = new \/ job' = job
        BY <1>25 DEF FailWrite, WriteJob, LeaveJob, jobVars
      <3> QED BY <3>1, <3>2, <3>3
    <2>2. committer' = committer
      BY <1>25 DEF FailWrite
    <2> QED BY <1>p, <1>q, <1>s, <1>25, <2>1, <2>2 DEF FailWrite, Quiet
  <1>26. CASE FinishWrite(w)
    <2>1. CASE MayComplete(w) /\ job' = [seen[w] EXCEPT !.status = "succeeded"] /\ committer' = token[w]
      <3>1. job'.attempts = job.attempts
        BY <1>0, <2>1, RowReads DEF MayComplete
      <3>2. job'.status = "succeeded" /\ committer' = job'.attempts => ~HasUncertainCall
        BY <1>q, <1>26, <2>1, <3>1 DEF FinishWrite
      <3> QED BY <1>p, <1>q, <1>26, <2>1, <3>2 DEF FinishWrite, Quiet
    <2>2. CASE job' = job /\ committer' = committer
      BY <1>p, <1>q, <1>s, <1>26, <2>2 DEF FinishWrite, Quiet
    <2> QED BY <1>26, <2>1, <2>2 DEF FinishWrite, WriteJob, LeaveJob, jobVars
  <1>27. CASE Finish(w)
    <2>1. ~HasUncertainCall
      BY <1>q, <1>27 DEF Finish
    <2> QED BY <1>p, <1>q, <1>27, <2>1 DEF Finish, Quiet
  <1>28. CASE Reserve(w)
    <2>1. CASE pc'[w] = "except"
      <3>1. job' = job /\ committer' = committer /\ call' = call
        BY <1>p, <1>28, <2>1 DEF Reserve, jobVars
      <3> QED BY <1>p, <1>q, <1>s, <1>28, <2>1, <3>1 DEF Reserve, Quiet
    <2>2. CASE pc'[w] # "except"
      BY <1>p, <1>q, <1>28, <2>2 DEF Reserve, MayReserve, Reserves, jobVars
    <2> QED BY <2>1, <2>2
  <1>29. ASSUME NEW cost \in {"known", "uncertain", "reserved"}, Settle(w, cost)
         PROVE  Settles(w)
    BY <1>p, <1>q, <1>29 DEF Settle, Settles, jobVars
  <1> QED
    BY <1>1, <1>2, <1>3, <1>4, <1>5, <1>6, <1>7, <1>8, <1>9, <1>10, <1>11, <1>12, <1>13, <1>14,
       <1>15, <1>16, <1>17, <1>18, <1>19, <1>20, <1>21, <1>22, <1>23, <1>24, <1>25, <1>26, <1>27, <1>28, <1>29
    DEF Work

\* A worker's step leaves no call open behind the latest claimant's back.
LEMMA WorkCallInv ==
    ASSUME TypeOK, IndInv, CallInv, NEW w \in Worker, Work(w)
    PROVE  CallInv'
  <1>1. WorkStep(w) /\ TypeOK' /\ UNCHANGED operation
    BY WorkIsStep, WorkType
    DEF Work, LeaveRest, ClaimSelect, ClaimCount, ClaimTake, ClaimClose, ClaimLost,
       Guard, Hold, PhaseCheck, PhaseRead, PhaseWrite, PlanRaises, FinishCheck, FinishRead,
       FinishWrite, ExceptRead, ExceptCount, FailWrite, BuildAdapter, Metadata, Reserve, Mark,
       SendCheck, Request, Settle, LocalModel, AccountRead, AccountWrite, Finish, Fail
  <1>2. \A v \in Worker : v # w => pc'[v] = pc[v] /\ seen'[v] = seen[v] /\ token'[v] = token[v]
    BY <1>1 DEF WorkStep, OthersStep
  <1>3. /\ job.attempts \in Nat /\ job'.attempts \in Nat /\ job.attempts <= job'.attempts
        /\ call \in [1 .. MaxAttempts -> {"none", "reserved", "known", "uncertain"}]
    BY <1>1, RowFields DEF TypeOK, WorkStep, RowStep
  <1>4. \A v \in Worker : pc[v] \in Calling \cup Clear =>
          /\ token[v] \in Nat /\ token[v] <= job.attempts /\ token[v] \in 1 .. MaxAttempts
          /\ token[v] = job'.attempts => token[v] = job.attempts
    <2> SUFFICES ASSUME NEW v \in Worker, pc[v] \in Calling \cup Clear
                 PROVE  /\ token[v] \in Nat /\ token[v] <= job.attempts
                        /\ token[v] \in 1 .. MaxAttempts
                        /\ token[v] = job'.attempts => token[v] = job.attempts
      OBVIOUS
    <2>1. token[v] \in 1 .. job.attempts
      BY DEF IndInv, AdapterInv, Claimed, Steps, Calling, Clear
    <2>2. job.attempts <= MaxAttempts /\ MaxAttempts \in Nat
      BY RowFields, PlanningAssumption DEF TypeOK
    <2> QED BY <1>3, <2>1, <2>2
  <1>5. CASE Quiet(w)
    <2>1. \A t \in 1 .. MaxAttempts : OpenCall(t)' <=> OpenCall(t)
      BY <1>5 DEF Quiet, OpenCall
    <2>2. HasUncertainCall' <=> HasUncertainCall
      BY <1>5 DEF Quiet, HasUncertainCall
    <2>3. ASSUME NEW v \in Worker, v # w
          PROVE  /\ pc'[v] \in {"work", "fail"} => operation = "recommendation"
                 /\ pc'[v] = "metadata" => token'[v] <= seen'[v].attempts
                 /\ pc'[v] \in {"reserve"} \cup Calling => seen'[v].attempts = token'[v]
                 /\ pc'[v] \in Calling => call'[token'[v]] = "reserved"
                 /\ pc'[v] \in Calling /\ token'[v] = job'.attempts =>
                     \A t \in 1 .. MaxAttempts : t # token'[v] => ~OpenCall(t)
                 /\ pc'[v] \in Clear /\ token'[v] = job'.attempts => ~HasUncertainCall
      BY <1>2, <1>4, <1>5, <2>3 DEF Quiet, CallInv
    <2>4. /\ pc'[w] \in {"work", "fail"} => operation = "recommendation"
          /\ pc'[w] = "metadata" => token'[w] <= seen'[w].attempts
          /\ pc'[w] \in {"reserve"} \cup Calling => seen'[w].attempts = token'[w]
          /\ pc'[w] \in Calling => call'[token'[w]] = "reserved"
          /\ pc'[w] \in Calling /\ token'[w] = job'.attempts =>
              \A t \in 1 .. MaxAttempts : t # token'[w] => ~OpenCall(t)
          /\ pc'[w] \in Clear /\ token'[w] = job'.attempts => ~HasUncertainCall
      BY <1>4, <1>5 DEF Quiet, CallInv
    <2>5. operation = "recommendation" => ~HasUncertainCall
      BY DEF CallInv
    <2>6. job'.status = "succeeded" /\ committer' = job'.attempts => ~HasUncertainCall
      BY <1>5 DEF Quiet
    <2> QED BY <1>1, <2>1, <2>2, <2>3, <2>4, <2>5, <2>6 DEF CallInv, AccountedSuccess
  <1>6. CASE Reserves(w)
    <2> DEFINE n == token[w]
    <2>1. /\ n \in 1 .. MaxAttempts /\ n = job.attempts /\ job' = job /\ job.status = "running"
          /\ seen' = seen /\ token' = token /\ call' = [call EXCEPT ![n] = "reserved"]
          /\ pc[w] = "reserve" /\ pc'[w] = "mark" /\ committer' = committer
      BY <1>4, <1>6 DEF Reserves, Clear
    <2>2. ~HasUncertainCall /\ operation # "recommendation" /\ seen[w].attempts = n
      BY <2>1 DEF CallInv, Clear, IndInv, PathInv
    <2>3. \A v \in Worker : v # w /\ pc[v] \in Claimed => token[v] # n
      BY <2>1 DEF IndInv, OneWorkerPerAttempt, Claimed, Steps
    <2>4. \A t \in 1 .. MaxAttempts : t # n => call'[t] = call[t] /\ ~OpenCall(t)'
      BY <1>3, <2>1, <2>2 DEF HasUncertainCall, OpenCall
    <2>5. call'[n] = "reserved"
      BY <1>3, <2>1
    <2>6. ASSUME NEW v \in Worker, v # w
          PROVE  /\ pc'[v] \notin {"work", "fail"}
                 /\ pc'[v] = "metadata" => token'[v] <= seen'[v].attempts
                 /\ pc'[v] \in {"reserve"} \cup Calling => seen'[v].attempts = token'[v]
                 /\ pc'[v] \notin Calling
                 /\ pc'[v] \in Clear => token'[v] # job'.attempts
      <3>1. pc[v] \in Calling \cup Clear => pc[v] \in Claimed
        BY DEF Calling, Clear, Claimed, Steps
      <3>2. pc[v] \notin Calling
        <4>1. pc[v] \in Calling => call[token[v]] = "reserved" /\ token[v] \in 1 .. MaxAttempts
          BY <1>4, <2>6 DEF CallInv
        <4> QED BY <1>3, <2>2, <4>1 DEF HasUncertainCall
      <3> QED BY <1>2, <2>1, <2>2, <2>3, <2>6, <3>1, <3>2 DEF CallInv
    <2> HIDE DEF n
    <2>7. /\ pc'[w] = "mark" /\ token'[w] = n /\ seen'[w].attempts = n
          /\ job'.status = "running"
      BY <2>1, <2>2 DEF n
    <2> QED BY <1>1, <2>2, <2>4, <2>5, <2>6, <2>7 DEF CallInv, AccountedSuccess, Calling, Clear
  <1>7. CASE Settles(w)
    <2> DEFINE n == token[w]
    <2>1. PICK cost \in {"known", "uncertain", "reserved"} :
            /\ call' = [call EXCEPT ![n] = cost]
            /\ pc'[w] = IF cost = "known" THEN "account_read" ELSE "except"
      BY <1>7 DEF Settles
    <2>2. /\ pc[w] = "reply" /\ UNCHANGED <<job, seen, token, committer>>
          /\ n \in 1 .. MaxAttempts /\ call[n] = "reserved"
      BY <1>4, <1>7 DEF Settles, CallInv, Calling
    <2>3. HasUncertainCall
      BY <1>3, <2>2 DEF HasUncertainCall
    <2>4. operation # "recommendation" /\ ~(job.status = "succeeded" /\ committer = job.attempts)
      BY <2>3 DEF CallInv, AccountedSuccess
    <2>5. \A v \in Worker : v # w /\ pc[v] \in Claimed => token[v] # n
      BY <2>2 DEF IndInv, OneWorkerPerAttempt, Claimed, Steps
    <2>6. call'[n] = cost /\ \A t \in 1 .. MaxAttempts : t # n => call'[t] = call[t]
      BY <1>3, <2>1, <2>2
    <2>7. ASSUME NEW v \in Worker, v # w
          PROVE  /\ pc'[v] \notin {"work", "fail"}
                 /\ pc'[v] = "metadata" => token'[v] <= seen'[v].attempts
                 /\ pc'[v] \in {"reserve"} \cup Calling => seen'[v].attempts = token'[v]
                 /\ pc'[v] \in Calling => call'[token'[v]] = "reserved" /\ token'[v] # job'.attempts
                 /\ pc'[v] \in Clear => token'[v] # job'.attempts
      <3>1. pc'[v] = pc[v] /\ seen'[v] = seen[v] /\ token'[v] = token[v] /\ job' = job
        BY <1>2, <2>2, <2>7
      <3>2. pc[v] \in Calling \cup Clear => pc[v] \in Claimed
        BY DEF Calling, Clear, Claimed, Steps
      <3>3. pc[v] \in Calling => call'[token[v]] = "reserved"
        BY <1>4, <2>5, <2>6, <2>7, <3>2 DEF CallInv
      <3>4. pc[v] \in Calling => token[v] # job.attempts
        BY <2>2, <2>5, <2>7, <3>2 DEF CallInv, OpenCall
      <3>5. pc[v] \in Clear => token[v] # job.attempts
        BY <2>3 DEF CallInv
      <3> QED BY <2>4, <3>1, <3>3, <3>4, <3>5 DEF CallInv
    <2>8. n = job.attempts /\ cost = "known" => ~HasUncertainCall'
      <3>1. DOMAIN call' = 1 .. MaxAttempts
        BY <1>3, <2>1
      <3> QED BY <2>2, <2>6, <3>1 DEF CallInv, HasUncertainCall, OpenCall, Calling
    <2>9. token'[w] = n /\ job' = job /\ committer' = committer
          /\ pc'[w] \in {"account_read", "except"} /\ (pc'[w] = "account_read" => cost = "known")
      BY <2>1, <2>2
    <2> HIDE DEF n
    <2> QED BY <1>1, <2>4, <2>7, <2>8, <2>9 DEF CallInv, AccountedSuccess, Calling, Clear
  <1> QED BY <1>5, <1>6, <1>7, WorkCalls

\* So do the clock, a canceller and a crash.
LEMMA OtherCallInv ==
    ASSUME TypeOK, IndInv, CallInv,
           Tick \/ CancelRead \/ CancelWrite \/ (\E w \in Worker : Crash(w)) \/ UNCHANGED vars
    PROVE  CallInv'
  <1>1. ASSUME UNCHANGED <<operation, pc, seen, token, call, job, committer>> PROVE CallInv'
    BY <1>1 DEF CallInv, AccountedSuccess, HasUncertainCall, OpenCall
  <1>2. CASE CancelWrite
    <2> DEFINE new == [cseen EXCEPT !.status = "cancelled",
                                    !.accounting = IF @ = "reserved" THEN "uncertain" ELSE @]
    <2>1. new.status = "cancelled" /\ new.attempts = cseen.attempts
      BY DEF TypeOK, JobRow
    <2>2. (Matches(cseen) /\ job' = new) \/ job' = job
      BY <1>2 DEF CancelWrite, WriteJob, LeaveJob, jobVars
    <2> HIDE DEF new
    <2>3. job'.attempts = job.attempts /\ (job'.status = "cancelled" \/ job'.status = job.status)
      BY <2>1, <2>2 DEF Matches
    <2>4. UNCHANGED <<operation, pc, seen, token, call, committer>>
      BY <1>2 DEF CancelWrite, workerVars
    <2> QED BY <2>3, <2>4 DEF CallInv, AccountedSuccess, HasUncertainCall, OpenCall
  <1>3. ASSUME NEW w \in Worker, Crash(w) PROVE CallInv'
    <2>1. /\ pc'[w] = "idle" /\ \A v \in Worker : v # w => pc'[v] = pc[v]
          /\ UNCHANGED <<operation, seen, token, call, job, committer>>
      BY <1>3 DEF Crash, TypeOK, jobVars
    <2> QED BY <2>1 DEF CallInv, AccountedSuccess, HasUncertainCall, OpenCall, Calling, Clear
  <1>4. CASE Tick \/ CancelRead \/ UNCHANGED vars
    BY <1>1, <1>4 DEF Tick, CancelRead, vars, jobVars, workerVars
  <1> QED BY <1>2, <1>3, <1>4

-----------------------------------------------------------------------------
(* Theorems *)

\* The row, the calls and every worker's variables stay within their types.
THEOREM TypeCorrect == Spec => []TypeOK
  BY Inductive, PTL

\* The compare-and-swap of SqlStorage.claim hands an attempt number to one worker only.
THEOREM OneWorkerPerAttemptHolds == Spec => []OneWorkerPerAttempt
  <1>1. IndInv => OneWorkerPerAttempt
    BY DEF IndInv
  <1> QED
    BY <1>1, Inductive, PTL

\* A recommendation is committed by the worker that holds the latest claim
\* (SqlStorage.finish).
THEOREM FreshRecommendationHolds == Spec => []FreshRecommendation
  <1>1. IndInv => FreshRecommendation
    BY DEF IndInv, PathInv, FreshRecommendation
  <1> QED
    BY <1>1, Inductive, PTL

\* Whatever workers and cancellers still write, a terminal job keeps its status.
THEOREM TerminalIsFinalHolds == Spec => TerminalIsFinal
  <1>1. RowStep => (job.status \in Terminal => job'.status = job.status)
    BY DEF RowStep
  <1>2. TypeOK /\ IndInv /\ [Next]_vars => [job.status \in Terminal => job'.status = job.status]_vars
    BY <1>1, StepInv
  <1> QED
    BY <1>2, Inductive, PTL DEF Spec, TerminalIsFinal

\* The fencing of an attempt: one worker holds it, and only the holder of the latest one
\* commits a recommendation.
THEOREM FencedHolds == Spec => []Fenced
  BY OneWorkerPerAttemptHolds, FreshRecommendationHolds, PTL DEF Fenced

\* A result committed under the latest claim leaves no paid call whose cost is open: the claim
\* stops at one it finds (PlanningService.run), and only the latest claimant reserves another.
THEOREM AccountedSuccessHolds == Spec => []AccountedSuccess
  <1>1. Init => CallInv
    BY DEF Init, Fresh, CallInv, AccountedSuccess, HasUncertainCall, Calling, Clear
  <1>2. TypeOK /\ IndInv /\ CallInv /\ [Next]_vars => CallInv'
    BY WorkCallInv, OtherCallInv DEF Next
  <1>3. CallInv => AccountedSuccess
    BY DEF CallInv
  <1> QED
    BY <1>1, <1>2, <1>3, Inductive, PTL DEF Spec
=============================================================================
