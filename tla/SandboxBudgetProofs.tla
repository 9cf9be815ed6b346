------------------------ MODULE SandboxBudgetProofs ------------------------
(***************************************************************************)
(* Proofs about SandboxBudget for any callers, attempts, caps and costs:   *)
(* the type invariant, the caps, that no hold is given back, that an       *)
(* attempt is sent once with its holds taken, that the two ledgers of an   *)
(* attempt agree, that a window counts its attempts, that holds are backed *)
(* by reservations and cover what was spent, and that a freeze lasts.      *)
(***************************************************************************)
EXTENDS SandboxBudget, FiniteSetTheorems, TLAPS

\* Caps are natural numbers.
LEMMA CapType == \A b \in Budget : Cap(b) \in Nat
  BY CapsAssumption DEF Budget, Kind, Cap

\* The budgets and reservation ids the code names exist.
LEMMA IdType ==
    /\ CallBudget \in Budget /\ KeyBudget \in Budget
    /\ \A m \in Minute : Window(m) \in Budget
    /\ \A kind \in Kind, a \in Attempt : <<kind, a>> \in ResId
  BY CapsAssumption DEF Budget, Kind, Minute, CallBudget, KeyBudget, Window, ResId

\* The initial state is well typed and every hold is empty.
LEMMA CoreInit == Init => TypeOK /\ HeldWithinCap
  BY CapsAssumption, CapType, IdType DEF Init, TypeOK, HeldWithinCap, Minute, Costs, Unknown, Steps

\* Every step keeps the types and the caps.
LEMMA CoreStep == TypeOK /\ HeldWithinCap /\ [Next]_vars => TypeOK' /\ HeldWithinCap'
  <1> SUFFICES ASSUME TypeOK, HeldWithinCap, [Next]_vars PROVE TypeOK' /\ HeldWithinCap'
    OBVIOUS
  <1>1. CASE Tick
    BY <1>1, CapsAssumption DEF Tick, TypeOK, HeldWithinCap, Minute, resVars, callerVars
  <1>2. ASSUME NEW c \in Caller, NEW a \in Attempt, NEW n \in 0 .. MaxCost, Begin(c, a, n)
        PROVE TypeOK' /\ HeldWithinCap'
    BY <1>2, CapsAssumption DEF Begin, Goto, TypeOK, HeldWithinCap, Steps, resVars
  <1>3. ASSUME NEW c \in Caller, ProvisionWindow(c) PROVE TypeOK' /\ HeldWithinCap'
    BY <1>3 DEF ProvisionWindow, Goto, TypeOK, HeldWithinCap, Steps, resVars
  <1>4. ASSUME NEW c \in Caller, KeyRefused(c) PROVE TypeOK' /\ HeldWithinCap'
    BY <1>4 DEF KeyRefused, Goto, TypeOK, HeldWithinCap, Steps, resVars
  <1>5. ASSUME NEW c \in Caller, NEW kind \in Kind, NEW next \in Steps, Reserve(c, kind, next)
        PROVE TypeOK' /\ HeldWithinCap'
    <2> DEFINE b == BudgetFor(c, kind)
               n == AmountFor(c, kind)
    <2>1. b \in Budget /\ n \in Nat /\ <<kind, att[c]>> \in ResId
      BY IdType DEF TypeOK, BudgetFor, AmountFor
    <2>2. held' = [held EXCEPT ![b] = @ + n] /\ held[b] + n <= Cap(b)
      BY <1>5 DEF Reserve, Fits
    <2>3. held' \in [Budget -> Nat] /\ HeldWithinCap'
      BY <2>1, <2>2, CapType DEF TypeOK, HeldWithinCap
    <2>4. Unknown \in Costs
      BY CapsAssumption DEF Unknown, Costs
    <2>5. /\ rstate' \in [ResId -> {"none", "reserved", "reconciled", "uncertain"}]
          /\ rbudget' \in [ResId -> Budget] /\ reserved' \in [ResId -> Nat]
          /\ actual' \in [ResId -> Costs] /\ pc' \in [Caller -> Steps]
      BY <1>5, <2>1, <2>4 DEF Reserve, Goto, TypeOK
    <2> QED BY <1>5, <2>3, <2>5 DEF Reserve, TypeOK
  <1>6. ASSUME NEW c \in Caller, NEW kind \in Kind, Refuse(c, kind) PROVE TypeOK' /\ HeldWithinCap'
    BY <1>6 DEF Refuse, Goto, TypeOK, HeldWithinCap, Steps, resVars
  <1>7. ASSUME NEW c \in Caller, Hold(c) PROVE TypeOK' /\ HeldWithinCap'
    BY <1>5, <1>6, <1>7 DEF Hold, Kind, Steps
  <1>8. ASSUME NEW c \in Caller, Dispatch(c) PROVE TypeOK' /\ HeldWithinCap'
    BY <1>8 DEF Dispatch, Goto, TypeOK, HeldWithinCap, Steps, resVars
  <1>9. ASSUME NEW c \in Caller, NotDispatched(c) PROVE TypeOK' /\ HeldWithinCap'
    BY <1>9, CapsAssumption
    DEF NotDispatched, Goto, TypeOK, HeldWithinCap, Steps, resVars, Costs, Unknown
  <1>10. ASSUME NEW c \in Caller, NEW n \in Costs, Answer(c, n) \/ FinishAgain(c, n)
         PROVE TypeOK' /\ HeldWithinCap'
    BY <1>10 DEF Answer, FinishAgain, Goto, TypeOK, HeldWithinCap, Steps, resVars
  <1>11. ASSUME NEW c \in Caller, NEW kind \in Kind, NEW from, NEW to \in Steps,
                Reconcile(c, kind, from, to)
         PROVE TypeOK' /\ HeldWithinCap'
    <2> DEFINE i == <<kind, att[c]>>
               n == cost[c]
    <2>1. i \in ResId /\ n \in Costs /\ Unknown \in Costs
      BY IdType, CapsAssumption DEF TypeOK, Costs, Unknown
    <2>2. pc' \in [Caller -> Steps]
      BY <1>11 DEF Reconcile, Goto, TypeOK, Steps
    <2>3. CASE Settle(i, n)
      <3>1. rbudget[i] \in Budget /\ Cap(rbudget[i]) \in Nat
        BY <2>1, CapType DEF TypeOK
      <3>2. held' \in [Budget -> Nat] /\ HeldWithinCap'
        BY <2>3, <3>1 DEF Settle, HeldAfter, TypeOK, HeldWithinCap
      <3>3. frozen' \in SUBSET Budget
        BY <2>3, <3>1 DEF Settle, TypeOK
      <3>4. /\ actual' \in [ResId -> Costs]
            /\ rstate' \in [ResId -> {"none", "reserved", "reconciled", "uncertain"}]
            /\ rbudget' = rbudget /\ reserved' = reserved
        BY <2>1, <2>3 DEF Settle, Recorded, TypeOK
      <3> QED BY <1>11, <2>2, <3>2, <3>3, <3>4 DEF Reconcile, TypeOK
    <2>4. CASE UNCHANGED <<held, resVars, frozen>>
      BY <1>11, <2>2, <2>4 DEF Reconcile, TypeOK, HeldWithinCap, resVars
    <2> QED BY <1>11, <2>3, <2>4 DEF Reconcile, Repeat
  <1>12. ASSUME NEW c \in Caller, ReconcileCall(c) \/ ReconcileKey(c)
         PROVE TypeOK' /\ HeldWithinCap'
    BY <1>11, <1>12 DEF ReconcileCall, ReconcileKey, Kind, Steps
  <1>13. ASSUME NEW c \in Caller, Saved(c) \/ Crash(c) PROVE TypeOK' /\ HeldWithinCap'
    BY <1>13 DEF Saved, Crash, Goto, TypeOK, HeldWithinCap, Steps, resVars
  <1>14. CASE UNCHANGED vars
    BY <1>14 DEF vars, TypeOK, HeldWithinCap, resVars, callerVars
  <1> QED
    BY <1>1, <1>2, <1>3, <1>4, <1>7, <1>8, <1>9, <1>10, <1>12, <1>13, <1>14 DEF Next

\* The rows of sandbox_budgets and sandbox_reservations keep their types.
THEOREM TypeCorrect == Spec => []TypeOK
  <1> QED BY CoreInit, CoreStep, PTL DEF Spec

\* No budget ever holds more than its cap, for any number of concurrent callers.
THEOREM HeldWithinCapHolds == Spec => []HeldWithinCap
  <1> QED BY CoreInit, CoreStep, PTL DEF Spec

\* One step never lowers a hold: reserve adds, and a freeze fills the budget.
LEMMA RefundStep ==
    ASSUME TypeOK, HeldWithinCap, [Next]_vars
    PROVE  \A b \in Budget : held'[b] >= held[b]
  <1> USE DEF TypeOK
  <1>1. ASSUME NEW c \in Caller, NEW kind \in Kind, NEW next, Reserve(c, kind, next)
        PROVE \A b \in Budget : held'[b] >= held[b]
    <2>1. AmountFor(c, kind) \in Nat /\ BudgetFor(c, kind) \in Budget
      BY IdType DEF AmountFor, BudgetFor
    <2> QED BY <1>1, <2>1 DEF Reserve
  <1>2. ASSUME NEW c \in Caller, NEW kind \in Kind, NEW from, NEW to, Reconcile(c, kind, from, to)
        PROVE \A b \in Budget : held'[b] >= held[b]
    <2>1. <<kind, att[c]>> \in ResId
      BY IdType
    <2>2. CASE Settle(<<kind, att[c]>>, cost[c])
      BY <2>1, <2>2, CapType DEF Settle, HeldAfter, HeldWithinCap
    <2>3. CASE held' = held
      BY <2>3
    <2> QED BY <1>2, <2>2, <2>3 DEF Reconcile, Repeat
  <1>3. CASE held' = held
    BY <1>3
  <1>4. ASSUME NEW c \in Caller, Hold(c) PROVE \A b \in Budget : held'[b] >= held[b]
    BY <1>1, <1>3, <1>4 DEF Hold, Refuse, Kind
  <1>5. ASSUME NEW c \in Caller, ReconcileCall(c) \/ ReconcileKey(c)
        PROVE \A b \in Budget : held'[b] >= held[b]
    BY <1>2, <1>5 DEF ReconcileCall, ReconcileKey, Kind
  <1> QED
    BY <1>3, <1>4, <1>5
    DEF Next, Tick, Begin, ProvisionWindow, KeyRefused, Dispatch, NotDispatched, Answer,
        FinishAgain, Saved, Crash, vars

\* "never invent refunds" (execution_storage.py, reconcile): no hold ever shrinks.
THEOREM NeverRefundHolds == Spec => NeverRefund
  <1>1. TypeOK /\ HeldWithinCap /\ [Next]_vars => [\A b \in Budget : held'[b] >= held[b]]_vars
    BY RefundStep
  <1> QED BY <1>1, CoreInit, CoreStep, PTL DEF Spec, NeverRefund

-----------------------------------------------------------------------------
(* One dispatch per attempt and agreeing ledgers, from IndInv. *)

\* Initially no caller has begun and no row exists.
LEMMA IndInit == Init => IndInv
  BY CapsAssumption, IdType
  DEF Init, IndInv, HoldsInv, OwnerInv, SentInv, RowsInv, SettleInv, LedgersAgree, SettlingOf, Settled,
      AfterRate, AfterKey, AfterCall, Settling, Kind, ResId

\* What taking a hold changes, row by row.
LEMMA ReserveEffect ==
    ASSUME TypeOK, NEW c \in Caller, NEW kind \in Kind, NEW next, Reserve(c, kind, next),
           NEW k \in Kind, NEW x \in Attempt
    PROVE  /\ k = kind /\ x = att[c] =>
                /\ rstate[<<k, x>>] = "none" /\ rstate'[<<k, x>>] = "reserved"
                /\ rbudget'[<<k, x>>] = BudgetFor(c, kind)
                /\ reserved'[<<k, x>>] = AmountFor(c, kind)
                /\ actual'[<<k, x>>] = Unknown
           /\ k # kind \/ x # att[c] =>
                /\ rstate'[<<k, x>>] = rstate[<<k, x>>]
                /\ rbudget'[<<k, x>>] = rbudget[<<k, x>>]
                /\ reserved'[<<k, x>>] = reserved[<<k, x>>]
                /\ actual'[<<k, x>>] = actual[<<k, x>>]
  <1>1. att[c] \in Attempt /\ <<k, x>> \in ResId /\ <<kind, att[c]>> \in ResId
    BY DEF TypeOK, ResId
  <1>2. k # kind \/ x # att[c] => <<k, x>> # <<kind, att[c]>>
    OBVIOUS
  <1>6. rstate[<<kind, att[c]>>] = "none"
    BY DEF Reserve, Fresh
  <1> QED BY <1>1, <1>2, <1>6 DEF TypeOK, Reserve

\* A caller that takes a hold on an attempt is the only one past that point.
LEMMA ReserveStep ==
    ASSUME TypeOK, IndInv, NEW c \in Caller, NEW kind \in Kind, NEW next,
           Reserve(c, kind, next),
           <<kind, next>> \in {<<"rate", "key">>, <<"key", "call">>, <<"call", "dispatch">>}
    PROVE  IndInv'
  <1> DEFINE Same(k, x) == /\ rstate'[<<k, x>>] = rstate[<<k, x>>]
                           /\ rbudget'[<<k, x>>] = rbudget[<<k, x>>]
                           /\ reserved'[<<k, x>>] = reserved[<<k, x>>]
                           /\ actual'[<<k, x>>] = actual[<<k, x>>]
             New(k, x) == /\ rstate[<<k, x>>] = "none" /\ rstate'[<<k, x>>] = "reserved"
                          /\ rbudget'[<<k, x>>] = BudgetFor(c, k)
                          /\ reserved'[<<k, x>>] = AmountFor(c, k)
                          /\ actual'[<<k, x>>] = Unknown
  <1>1. ASSUME NEW k \in Kind, NEW x \in Attempt
        PROVE (k = kind /\ x = att[c] => New(k, x)) /\ (k # kind \/ x # att[c] => Same(k, x))
    BY ReserveEffect
  <1>2. /\ pc[c] = kind /\ pc' = [pc EXCEPT ![c] = next]
        /\ att' = att /\ amt' = amt /\ win' = win /\ cost' = cost /\ windows' = windows
        /\ dispatched' = dispatched
    BY DEF Reserve, Goto
  <1>3. pc \in [Caller -> Steps] /\ att \in [Caller -> Attempt]
    BY DEF TypeOK
  <1>4. Provisioned(BudgetFor(c, kind))
    BY DEF Reserve, Fits
  <1> USE DEF AfterRate, AfterKey, AfterCall, Settling
  <1>5. ASSUME NEW x \in Attempt
        PROVE  /\ kind # "rate" \/ x # att[c] => Same("rate", x)
               /\ kind # "key" \/ x # att[c] => Same("key", x)
               /\ kind # "call" \/ x # att[c] => Same("call", x)
    BY <1>1 DEF Kind
  <1>6. New(kind, att[c]) /\ att[c] \in Attempt
    BY <1>1, <1>3
  <1>7. kind \in Kind /\ \/ kind = "rate" /\ next = "key"
                         \/ kind = "key" /\ next = "call"
                         \/ kind = "call" /\ next = "dispatch"
    OBVIOUS
  <1>8. HoldsInv'
    <2> SUFFICES ASSUME NEW d \in Caller
                 PROVE  /\ pc'[d] \in {"rate"} \cup AfterRate => win[d] \in windows
                        /\ pc'[d] \in AfterRate => rstate'[<<"rate", att[d]>>] # "none"
                        /\ pc'[d] \in AfterKey => /\ rstate'[<<"key", att[d]>>] # "none"
                                                  /\ reserved'[<<"key", att[d]>>] = amt[d]
                        /\ pc'[d] \in AfterCall => /\ rstate'[<<"call", att[d]>>] # "none"
                                                   /\ reserved'[<<"call", att[d]>>] = amt[d]
      BY <1>2 DEF HoldsInv
    <2>1. att[d] \in Attempt /\ HoldsInv /\ OwnerInv
      BY <1>3 DEF IndInv
    <2>2. CASE d = c
      BY <1>2, <1>3, <1>5, <1>6, <1>7, <2>1, <2>2 DEF HoldsInv, AmountFor
    <2>3. CASE d # c
      BY <1>2, <1>3, <1>5, <1>6, <1>7, <2>1, <2>3 DEF HoldsInv, OwnerInv
    <2> QED BY <2>2, <2>3
  <1>9. OwnerInv'
    <2> SUFFICES ASSUME NEW d \in Caller, NEW e \in Caller, d # e, att[d] = att[e],
                        pc'[d] \in AfterRate, pc'[e] \in AfterRate
                 PROVE FALSE
      BY <1>2 DEF OwnerInv
    <2>1. HoldsInv /\ OwnerInv
      BY DEF IndInv
    <2>2. CASE d = c
      BY <1>2, <1>3, <1>6, <1>7, <2>1, <2>2 DEF HoldsInv, OwnerInv
    <2>3. CASE e = c
      BY <1>2, <1>3, <1>6, <1>7, <2>1, <2>3 DEF HoldsInv, OwnerInv
    <2>4. CASE d # c /\ e # c
      BY <1>2, <1>3, <2>1, <2>4 DEF OwnerInv
    <2> QED BY <2>2, <2>3, <2>4
  <1>10. SentInv'
    <2>1. ASSUME NEW x \in Attempt
          PROVE  /\ dispatched[x] <= 1
                 /\ dispatched[x] = 1 =>
                      /\ rstate'[<<"rate", x>>] # "none" /\ rstate'[<<"key", x>>] # "none"
                      /\ rstate'[<<"call", x>>] # "none"
      BY <1>5, <1>6, <1>7 DEF IndInv, SentInv, Kind
    <2>2. pc'[c] \in {"call", "dispatch"} => dispatched[att[c]] = 0
      <3>1. dispatched[att[c]] \in Nat /\ dispatched[att[c]] <= 1
        BY <1>6 DEF IndInv, SentInv, TypeOK
      <3>2. kind \in {"key", "call"} => dispatched[att[c]] # 1
        BY <1>6, <1>7 DEF IndInv, SentInv
      <3> QED BY <1>2, <1>3, <1>7, <3>1, <3>2
    <2>3. \A d \in Caller : pc'[d] \in {"call", "dispatch"} => dispatched[att[d]] = 0
      BY <1>2, <1>3, <2>2 DEF IndInv, SentInv
    <2> QED BY <1>2, <2>1, <2>3 DEF SentInv, Kind
  <1>11. RowsInv'
    <2>1. ASSUME NEW x \in Attempt
          PROVE  /\ rstate'[<<"rate", x>>] \in {"none", "reserved"}
                 /\ rbudget'[<<"key", x>>] \in {KeyBudget, CallBudget}
                 /\ rbudget'[<<"call", x>>] = CallBudget
      BY <1>5, <1>6, <1>7 DEF IndInv, RowsInv, BudgetFor
    <2>2. ASSUME NEW k \in Kind, NEW x \in Attempt
          PROVE  IF rstate'[<<k, x>>] = "reconciled"
                 THEN Known(actual'[<<k, x>>]) /\ actual'[<<k, x>>] <= reserved'[<<k, x>>]
                 ELSE actual'[<<k, x>>] = Unknown
      BY <1>1, <1>6 DEF IndInv, RowsInv
    <2> QED BY <2>1, <2>2 DEF RowsInv, Known
  <1>12. SettleInv'
    <2>1. LedgersAgree'
      BY <1>2, <1>5, <1>6, <1>7 DEF IndInv, SettleInv, LedgersAgree
    <2>2. ASSUME NEW d \in Caller PROVE SettlingOf(d)'
      <3>1. att[d] \in Attempt /\ att'[d] = att[d] /\ cost'[d] = cost[d] /\ SettlingOf(d)
        BY <1>2, <1>3 DEF IndInv, SettleInv
      <3>2. CASE d = c
        BY <1>2, <1>3, <1>5, <1>6, <1>7, <3>1, <3>2 DEF SettlingOf, Settled
      <3>3. CASE d # c /\ pc[d] \in AfterRate
        <4>1. att[d] # att[c]
          BY <1>2, <1>3, <1>6, <1>7, <3>3 DEF IndInv, HoldsInv, OwnerInv
        <4> QED BY <1>2, <1>3, <1>5, <3>1, <3>3, <4>1 DEF SettlingOf, Settled, Recorded, Overage
      <3>4. CASE d # c /\ pc[d] \notin AfterRate
        BY <1>2, <1>3, <3>1, <3>4 DEF SettlingOf
      <3> QED BY <3>2, <3>3, <3>4
    <2> QED BY <2>1, <2>2 DEF SettleInv
  <1> QED BY <1>8, <1>9, <1>10, <1>11, <1>12 DEF IndInv

\* What settling a reservation changes, row by row.
LEMMA SettleEffect ==
    ASSUME TypeOK, NEW c \in Caller, NEW kind \in Kind, NEW n, Settle(<<kind, att[c]>>, n),
           NEW k \in Kind, NEW x \in Attempt
    PROVE  /\ rbudget' = rbudget /\ reserved' = reserved
           /\ k = kind /\ x = att[c] =>
                /\ rstate[<<k, x>>] \in {"reserved", "uncertain"}
                /\ rstate'[<<k, x>>] = IF Known(Recorded(<<k, x>>, n)) THEN "reconciled"
                                       ELSE "uncertain"
                /\ actual'[<<k, x>>] = Recorded(<<k, x>>, n)
           /\ k # kind \/ x # att[c] =>
                /\ rstate'[<<k, x>>] = rstate[<<k, x>>]
                /\ actual'[<<k, x>>] = actual[<<k, x>>]
  <1>1. att[c] \in Attempt /\ <<k, x>> \in ResId /\ <<kind, att[c]>> \in ResId
    BY DEF TypeOK, ResId
  <1>2. k # kind \/ x # att[c] => <<k, x>> # <<kind, att[c]>>
    OBVIOUS
  <1> QED BY <1>1, <1>2 DEF TypeOK, Settle, Open

\* Settling one hold of an attempt keeps every part of the invariant but the caller's own
\* position, which depends on the hold.
LEMMA SettleRows ==
    ASSUME TypeOK, IndInv, NEW c \in Caller, NEW kind \in {"key", "call"},
           Settle(<<kind, att[c]>>, cost[c])
    PROVE  /\ RowsInv'
           /\ \A k \in Kind, x \in Attempt : rstate'[<<k, x>>] = "none" <=> rstate[<<k, x>>] = "none"
  <1>1. att[c] \in Attempt /\ kind \in Kind /\ cost[c] \in Nat
    BY CapsAssumption DEF TypeOK, Kind, Costs, Unknown
  <1>2. ASSUME NEW k \in Kind, NEW x \in Attempt, k # kind \/ x # att[c]
        PROVE  rstate'[<<k, x>>] = rstate[<<k, x>>] /\ actual'[<<k, x>>] = actual[<<k, x>>]
    BY <1>1, <1>2, SettleEffect
  <1>3. rbudget' = rbudget /\ reserved' = reserved
    BY DEF Settle
  <1>4. ASSUME NEW x \in Attempt
        PROVE  /\ rstate'[<<"rate", x>>] \in {"none", "reserved"}
               /\ rbudget'[<<"key", x>>] \in {KeyBudget, CallBudget}
               /\ rbudget'[<<"call", x>>] = CallBudget
    BY <1>1, <1>2, <1>3 DEF IndInv, RowsInv, Kind
  <1>5. ASSUME NEW k \in Kind, NEW x \in Attempt
        PROVE  /\ IF rstate'[<<k, x>>] = "reconciled"
                  THEN Known(actual'[<<k, x>>]) /\ actual'[<<k, x>>] <= reserved'[<<k, x>>]
                  ELSE actual'[<<k, x>>] = Unknown
               /\ rstate'[<<k, x>>] = "none" <=> rstate[<<k, x>>] = "none"
    <2>1. CASE k = kind /\ x = att[c]
      <3>1. reserved[<<k, x>>] \in Nat
        BY IdType DEF TypeOK
      <3> QED BY <1>1, <2>1, <3>1, SettleEffect DEF Recorded, Overage, Known
    <2>2. CASE k # kind \/ x # att[c]
      BY <1>2, <1>3, <2>2 DEF IndInv, RowsInv
    <2> QED BY <2>1, <2>2
  <1> QED BY <1>4, <1>5 DEF RowsInv, Known, Unknown

\* Both reconciliations of finish, and their conflicts, keep the invariant.
LEMMA ReconcileStep ==
    ASSUME TypeOK, IndInv, NEW c \in Caller, ReconcileCall(c) \/ ReconcileKey(c)
    PROVE  IndInv'
  <1>1. PICK kind \in {"key", "call"}, from \in Settling, to \in Settling :
            /\ <<kind, from, to>> \in {<<"call", "settle_call", "settle_key">>,
                                      <<"key", "settle_key", "save">>}
            /\ Reconcile(c, kind, from, to)
    <2>1. CASE ReconcileCall(c)
      <3> WITNESS "call" \in {"key", "call"}
      <3>1. "settle_call" \in Settling /\ "settle_key" \in Settling
        BY DEF Settling
      <3> QED BY <2>1, <3>1 DEF ReconcileCall
    <2>2. CASE ReconcileKey(c)
      <3> WITNESS "key" \in {"key", "call"}
      <3>1. "save" \in Settling /\ "settle_key" \in Settling
        BY DEF Settling
      <3> QED BY <2>2, <3>1 DEF ReconcileKey
    <2> QED BY <2>1, <2>2
  <1> DEFINE i == <<kind, att[c]>>
  <1>2. /\ pc[c] = from /\ att' = att /\ amt' = amt /\ win' = win /\ cost' = cost
        /\ windows' = windows /\ dispatched' = dispatched
    BY <1>1 DEF Reconcile, Goto
  <1>3. /\ pc \in [Caller -> Steps] /\ att \in [Caller -> Attempt]
        /\ \E s \in {to, "idle"} : pc' = [pc EXCEPT ![c] = s]
    BY <1>1 DEF TypeOK, Reconcile, Goto
  <1>4. \/ pc' = [pc EXCEPT ![c] = to] /\ Settle(i, cost[c])
        \/ pc' = [pc EXCEPT ![c] = to] /\ Repeat(i, cost[c])
        \/ pc' = [pc EXCEPT ![c] = "idle"] /\ UNCHANGED resVars
    BY <1>1 DEF Reconcile, Goto
  <1>5. /\ RowsInv'
        /\ \A k \in Kind, x \in Attempt :
              rstate'[<<k, x>>] = "none" <=> rstate[<<k, x>>] = "none"
        /\ reserved' = reserved
    <2>1. CASE Settle(i, cost[c])
      BY <2>1, SettleRows DEF Settle
    <2>2. CASE UNCHANGED resVars
      BY <2>2 DEF IndInv, RowsInv, resVars, Known, Unknown
    <2> QED BY <1>4, <2>1, <2>2 DEF Repeat
  <1>6. kind \in Kind /\ to \in Settling /\ from \in Settling
    BY <1>1 DEF Kind
  <1>7. ASSUME Settle(i, cost[c]), NEW k \in Kind, NEW x \in Attempt
         PROVE  /\ k = kind /\ x = att[c] =>
                    /\ rstate[<<k, x>>] \in {"reserved", "uncertain"}
                    /\ rstate'[<<k, x>>] = IF Known(Recorded(<<k, x>>, cost[c]))
                                           THEN "reconciled" ELSE "uncertain"
                    /\ actual'[<<k, x>>] = Recorded(<<k, x>>, cost[c])
                /\ k # kind \/ x # att[c] =>
                    /\ rstate'[<<k, x>>] = rstate[<<k, x>>]
                    /\ actual'[<<k, x>>] = actual[<<k, x>>]
    BY <1>6, <1>7, SettleEffect
  <1>8. /\ pc'[c] \in {to, "idle"}
         /\ \A d \in Caller : d # c => pc'[d] = pc[d]
    BY <1>3
  <1>9. HoldsInv'
    <2>1. ASSUME NEW x \in Attempt
          PROVE  /\ rstate[<<"rate", x>>] # "none" => rstate'[<<"rate", x>>] # "none"
                 /\ rstate[<<"key", x>>] # "none" => rstate'[<<"key", x>>] # "none"
                 /\ rstate[<<"call", x>>] # "none" => rstate'[<<"call", x>>] # "none"
      BY <1>5 DEF Kind
    <2> SUFFICES ASSUME NEW d \in Caller
                 PROVE  /\ pc'[d] \in {"rate"} \cup AfterRate => win[d] \in windows
                        /\ pc'[d] \in AfterRate => rstate'[<<"rate", att[d]>>] # "none"
                        /\ pc'[d] \in AfterKey => /\ rstate'[<<"key", att[d]>>] # "none"
                                                  /\ reserved[<<"key", att[d]>>] = amt[d]
                        /\ pc'[d] \in AfterCall => /\ rstate'[<<"call", att[d]>>] # "none"
                                                   /\ reserved[<<"call", att[d]>>] = amt[d]
      BY <1>2, <1>5 DEF HoldsInv
    <2>2. att[d] \in Attempt /\ HoldsInv
      BY <1>3 DEF IndInv
    <2>3. \/ pc'[d] \in {pc[d], "idle"}
          \/ pc[d] \in Settling /\ pc'[d] \in Settling
      <3>1. CASE d = c
        BY <1>2, <1>6, <1>8, <3>1
      <3>2. CASE d # c
        BY <1>8, <3>2
      <3> QED BY <3>1, <3>2
    <2> QED BY <2>1, <2>2, <2>3 DEF HoldsInv, AfterRate, AfterKey, AfterCall, Settling
  <1>10. OwnerInv'
    BY <1>1, <1>2, <1>3 DEF IndInv, OwnerInv, AfterRate, AfterKey, AfterCall, Settling
  <1>11. SentInv'
    <2>1. \A d \in Caller : pc'[d] \in {"call", "dispatch"} => dispatched[att[d]] = 0
      BY <1>1, <1>2, <1>3 DEF IndInv, SentInv, Settling
    <2>2. ASSUME NEW x \in Attempt
          PROVE  /\ dispatched[x] <= 1
                 /\ dispatched[x] = 1 => \A k \in Kind : rstate'[<<k, x>>] # "none"
      BY <1>5 DEF IndInv, SentInv
    <2> QED BY <1>2, <2>1, <2>2 DEF SentInv
  <1>12. SettleInv'
    <2> DEFINE k == <<"key", att[c]>>
               l == <<"call", att[c]>>
    <2>1. /\ att[c] \in Attempt /\ SettlingOf(c) /\ LedgersAgree /\ RowsInv
          /\ reserved[k] = amt[c] /\ reserved[l] = amt[c]
          /\ rstate[k] # "none" /\ rstate[l] # "none"
      BY <1>1, <1>2, <1>3
      DEF IndInv, SettleInv, HoldsInv, AfterKey, AfterCall, Settling
    <2>2. ASSUME NEW x \in Attempt, x # att[c]
          PROVE  /\ rstate'[<<"key", x>>] = rstate[<<"key", x>>]
                 /\ rstate'[<<"call", x>>] = rstate[<<"call", x>>]
                 /\ actual'[<<"key", x>>] = actual[<<"key", x>>]
                 /\ actual'[<<"call", x>>] = actual[<<"call", x>>]
      <3>1. CASE Settle(i, cost[c])
        BY <1>7, <2>2, <3>1 DEF Kind
      <3>2. CASE UNCHANGED resVars
        BY <3>2 DEF resVars
      <3> QED BY <1>4, <3>1, <3>2 DEF Repeat
    <2>3. ASSUME NEW d \in Caller, d # c PROVE SettlingOf(d)'
      <3>1. att[d] \in Attempt /\ pc'[d] = pc[d] /\ SettlingOf(d)
        BY <1>3, <2>3 DEF IndInv, SettleInv
      <3>2. CASE pc[d] \in AfterRate
        <4>1. att[d] # att[c]
          BY <1>1, <1>2, <2>3, <3>2
          DEF IndInv, OwnerInv, AfterRate, AfterKey, AfterCall, Settling
        <4> QED BY <1>2, <1>5, <2>2, <3>1, <4>1 DEF SettlingOf, Settled, Recorded, Overage
      <3>3. CASE pc[d] \notin AfterRate
        BY <3>1, <3>3 DEF SettlingOf, AfterRate, AfterKey, AfterCall, Settling
      <3> QED BY <3>2, <3>3
    <2>4. /\ SettlingOf(c)'
          /\ rstate'[k] \in {"reconciled", "uncertain"} =>
                rstate'[l] = rstate'[k] /\ actual'[l] = actual'[k]
      <3>1. CASE kind = "call" /\ Settle(i, cost[c]) /\ pc' = [pc EXCEPT ![c] = to]
        <4>1. /\ rstate[l] \in {"reserved", "uncertain"}
              /\ actual'[l] = Recorded(l, cost[c]) /\ reserved' = reserved
              /\ rstate'[l] = IF Known(Recorded(l, cost[c])) THEN "reconciled" ELSE "uncertain"
              /\ rstate'[k] = rstate[k] /\ actual'[k] = actual[k]
          BY <1>5, <1>7, <2>1, <3>1 DEF Kind
        <4>2. pc[c] = "settle_call" /\ pc'[c] = "settle_key"
          BY <1>1, <1>2, <1>3, <3>1
        <4>3. rstate[l] = "uncertain" => actual[l] = Unknown
          BY <2>1 DEF RowsInv, Kind
        <4> QED
          BY <1>2, <2>1, <4>1, <4>2, <4>3
          DEF SettlingOf, Settled, LedgersAgree, Recorded, Overage, Known
      <3>2. CASE kind = "key" /\ Settle(i, cost[c]) /\ pc' = [pc EXCEPT ![c] = to]
        <4>1. /\ rstate[k] \in {"reserved", "uncertain"}
              /\ actual'[k] = Recorded(k, cost[c]) /\ reserved' = reserved
              /\ rstate'[k] = IF Known(Recorded(k, cost[c])) THEN "reconciled" ELSE "uncertain"
              /\ rstate'[l] = rstate[l] /\ actual'[l] = actual[l]
          BY <1>5, <1>7, <2>1, <3>2 DEF Kind
        <4>2. pc[c] = "settle_key" /\ pc'[c] = "save"
          BY <1>1, <1>2, <1>3, <3>2
        <4>3. /\ rstate[l] = "uncertain" => actual[l] = Unknown
              /\ rstate[l] = "reconciled" => Known(actual[l])
          BY <2>1 DEF RowsInv, Kind
        <4> QED
          BY <1>2, <2>1, <4>1, <4>2, <4>3
          DEF SettlingOf, Settled, Recorded, Overage, Known
      <3>3. CASE Repeat(i, cost[c]) /\ pc' = [pc EXCEPT ![c] = to]
        <4>1. rstate[i] = "reconciled" /\ actual[i] = cost[c] /\ UNCHANGED resVars
          BY <3>3 DEF Repeat
        <4>2. pc[c] = from /\ pc'[c] = to
          BY <1>2, <1>3, <3>3
        <4>3. Known(actual[i]) /\ actual[i] <= reserved[i] /\ reserved[i] \in Nat
              /\ cost[c] \in Nat
          BY <1>3, <2>1, <4>1, IdType, CapsAssumption DEF RowsInv, Kind, TypeOK, Costs, Unknown
        <4> QED
          BY <1>1, <1>2, <2>1, <4>1, <4>2, <4>3
          DEF SettlingOf, Settled, LedgersAgree, Recorded, Overage, Known, resVars
      <3>4. CASE UNCHANGED resVars /\ pc' = [pc EXCEPT ![c] = "idle"]
        BY <1>2, <1>3, <2>1, <3>4 DEF SettlingOf, LedgersAgree, resVars
      <3> QED BY <1>4, <3>1, <3>2, <3>3, <3>4
    <2>5. LedgersAgree'
      BY <2>1, <2>2, <2>4 DEF LedgersAgree
    <2> QED BY <2>3, <2>4, <2>5 DEF SettleInv
  <1> QED BY <1>5, <1>9, <1>10, <1>11, <1>12 DEF IndInv

\* The steps that touch no row: the clock, a caller's own progress, the provider call.
LEMMA OtherStep ==
    ASSUME TypeOK, IndInv, UNCHANGED resVars,
           \/ Tick \/ UNCHANGED vars
           \/ \E c \in Caller :
                \/ \E a \in Attempt, n \in 0 .. MaxCost : Begin(c, a, n)
                \/ ProvisionWindow(c) \/ KeyRefused(c) \/ \E kind \in Kind : Refuse(c, kind)
                \/ Dispatch(c) \/ NotDispatched(c) \/ Saved(c) \/ Crash(c)
                \/ \E n \in Costs : Answer(c, n) \/ FinishAgain(c, n)
    PROVE  IndInv'
  <1> USE DEF resVars, AfterRate, AfterKey, AfterCall, Settling
  <1>1. RowsInv' /\ LedgersAgree'
    BY DEF IndInv, RowsInv, SettleInv, LedgersAgree, Known, Unknown
  <1>2. /\ HoldsInv /\ OwnerInv /\ SentInv /\ \A d \in Caller : SettlingOf(d)
        /\ pc \in [Caller -> Steps] /\ att \in [Caller -> Attempt] /\ amt \in [Caller -> Nat]
        /\ win \in [Caller -> Minute] /\ cost \in [Caller -> Costs]
        /\ dispatched \in [Attempt -> Nat]
    BY DEF IndInv, SettleInv, TypeOK
  <1>3. CASE Tick \/ UNCHANGED vars
    <2>1. HoldsInv'
      BY <1>2, <1>3 DEF Tick, vars, callerVars, HoldsInv
    <2>2. OwnerInv' /\ SentInv'
      BY <1>2, <1>3 DEF Tick, vars, callerVars, OwnerInv, SentInv
    <2>3. ASSUME NEW d \in Caller PROVE SettlingOf(d)'
      BY <1>2, <1>3, <2>3 DEF Tick, vars, callerVars, SettlingOf, Settled, Recorded, Overage, Known
    <2> QED BY <1>1, <2>1, <2>2, <2>3 DEF IndInv, SettleInv
  <1>4. ASSUME NEW c \in Caller, NEW a \in Attempt, NEW n \in 0 .. MaxCost, Begin(c, a, n)
        PROVE IndInv'
    <2>1. HoldsInv'
      BY <1>2, <1>4 DEF Begin, Goto, HoldsInv
    <2>2. OwnerInv' /\ SentInv'
      BY <1>2, <1>4 DEF Begin, Goto, OwnerInv, SentInv
    <2>3. ASSUME NEW d \in Caller PROVE SettlingOf(d)'
      BY <1>2, <1>4, <2>3 DEF Begin, Goto, SettlingOf, Settled, Recorded, Overage, Known
    <2> QED BY <1>1, <2>1, <2>2, <2>3 DEF IndInv, SettleInv
  <1>5. ASSUME NEW c \in Caller, ProvisionWindow(c) PROVE IndInv'
    <2>1. HoldsInv'
      BY <1>2, <1>5 DEF ProvisionWindow, Goto, HoldsInv
    <2>2. OwnerInv' /\ SentInv'
      BY <1>2, <1>5 DEF ProvisionWindow, Goto, OwnerInv, SentInv
    <2>3. ASSUME NEW d \in Caller PROVE SettlingOf(d)'
      BY <1>2, <1>5, <2>3 DEF ProvisionWindow, Goto, SettlingOf, Settled, Recorded, Overage, Known
    <2> QED BY <1>1, <2>1, <2>2, <2>3 DEF IndInv, SettleInv
  <1>6. ASSUME NEW c \in Caller,
               KeyRefused(c) \/ (\E kind \in Kind : Refuse(c, kind)) \/ Saved(c) \/ Crash(c)
        PROVE IndInv'
    <2>1. /\ pc' = [pc EXCEPT ![c] = "idle"]
          /\ UNCHANGED <<att, amt, win, cost, windows, dispatched>>
      BY <1>6 DEF KeyRefused, Refuse, Saved, Crash, Goto
    <2>2. HoldsInv' /\ OwnerInv' /\ SentInv'
      BY <1>2, <2>1 DEF HoldsInv, OwnerInv, SentInv
    <2>3. ASSUME NEW d \in Caller PROVE SettlingOf(d)'
      BY <1>2, <2>1, <2>3 DEF SettlingOf, Settled, Recorded, Overage, Known
    <2> QED BY <1>1, <2>2, <2>3 DEF IndInv, SettleInv
  <1>7. ASSUME NEW c \in Caller, Dispatch(c) PROVE IndInv'
    <2>1. HoldsInv' /\ OwnerInv'
      BY <1>2, <1>7 DEF Dispatch, Goto, HoldsInv, OwnerInv
    <2>6. ASSUME NEW d \in Caller PROVE SettlingOf(d)'
      BY <1>2, <1>7, <2>6 DEF Dispatch, Goto, SettlingOf, Settled, Recorded, Overage, Known
    <2>2. \A kind \in Kind : rstate[<<kind, att[c]>>] # "none"
      BY <1>2, <1>7 DEF Dispatch, Goto, HoldsInv, Kind
    <2>3. dispatched[att[c]] = 0 /\ dispatched'[att[c]] = 1 /\ att[c] \in Attempt
      BY <1>2, <1>7 DEF Dispatch, Goto, SentInv
    <2>4. \A d \in Caller : d # c /\ pc[d] \in {"call", "dispatch"} => att[d] # att[c]
      BY <1>2, <1>7 DEF Dispatch, Goto, OwnerInv
    <2>5. SentInv'
      BY <1>2, <1>7, <2>2, <2>3, <2>4 DEF Dispatch, Goto, SentInv
    <2> QED BY <1>1, <2>1, <2>5, <2>6 DEF IndInv, SettleInv
  <1>8. ASSUME NEW c \in Caller, NEW n \in Costs,
               \/ (NotDispatched(c) /\ n = Unknown) \/ Answer(c, n) \/ FinishAgain(c, n)
        PROVE IndInv'
    <2>1. /\ pc[c] \in {"dispatch", "inflight"} \cup Settling
          /\ pc' = [pc EXCEPT ![c] = "settle_call"] /\ cost' = [cost EXCEPT ![c] = n]
          /\ UNCHANGED <<att, amt, win, windows, dispatched>>
          /\ pc[c] \in Settling => n \in {cost[c], Unknown}
      BY <1>8 DEF NotDispatched, Answer, FinishAgain, Goto, Settling
    <2>2. HoldsInv' /\ OwnerInv' /\ SentInv'
      BY <1>2, <2>1 DEF HoldsInv, OwnerInv, SentInv, Settling
    <2>3. \A d \in Caller : d # c => SettlingOf(d)'
      BY <1>2, <2>1 DEF SettlingOf, Settled, Recorded, Overage, Known
    <2>4. SettlingOf(c)'
      BY <1>2, <2>1 DEF SettlingOf, Settled, Recorded, Overage, Known
    <2> QED BY <1>1, <2>2, <2>3, <2>4 DEF IndInv, SettleInv
  <1>9. Unknown \in Costs
    BY CapsAssumption DEF Unknown, Costs
  <1> QED BY <1>3, <1>4, <1>5, <1>6, <1>7, <1>8, <1>9

\* The invariant is inductive.
LEMMA IndStep == TypeOK /\ IndInv /\ [Next]_vars => IndInv'
  <1> SUFFICES ASSUME TypeOK, IndInv, [Next]_vars PROVE IndInv'
    OBVIOUS
  <1>1. ASSUME NEW c \in Caller,
               Reserve(c, "rate", "key") \/ Reserve(c, "key", "call") \/ Reserve(c, "call", "dispatch")
        PROVE IndInv'
    BY <1>1, ReserveStep DEF Kind
  <1>2. ASSUME NEW c \in Caller, ReconcileCall(c) \/ ReconcileKey(c) PROVE IndInv'
    BY <1>2, ReconcileStep
  <1>3. CASE /\ \A c \in Caller : ~Reserve(c, "rate", "key") /\ ~Reserve(c, "key", "call")
             /\ \A c \in Caller : ~Reserve(c, "call", "dispatch")
             /\ \A c \in Caller : ~ReconcileCall(c) /\ ~ReconcileKey(c)
    <2>1. \/ Tick \/ UNCHANGED vars
          \/ \E c \in Caller :
                \/ \E a \in Attempt, n \in 0 .. MaxCost : Begin(c, a, n)
                \/ ProvisionWindow(c) \/ KeyRefused(c) \/ \E kind \in Kind : Refuse(c, kind)
                \/ Dispatch(c) \/ NotDispatched(c) \/ Saved(c) \/ Crash(c)
                \/ \E n \in Costs : Answer(c, n) \/ FinishAgain(c, n)
      BY <1>3 DEF Next, Hold
    <2>2. UNCHANGED resVars
      BY <2>1 DEF Tick, vars, Begin, ProvisionWindow, KeyRefused, Refuse, Dispatch, NotDispatched,
                  Saved, Crash, Answer, FinishAgain
    <2> QED BY <2>1, <2>2, OtherStep
  <1> QED BY <1>1, <1>2, <1>3

\* The reservations' unique keys let an attempt reach the provider at most once, with its
\* three holds taken, for any number of callers and any crashes.
THEOREM DispatchedOnceHolds == Spec => []DispatchedOnce
  <1>1. IndInv => DispatchedOnce
    BY DEF IndInv, SentInv, DispatchedOnce
  <1> QED BY <1>1, CoreInit, CoreStep, IndInit, IndStep, PTL DEF Spec

\* The key's ledger and the admission's record the same cost for an attempt.
THEOREM LedgersAgreeHolds == Spec => []LedgersAgree
  <1>1. IndInv => LedgersAgree
    BY DEF IndInv, SettleInv
  <1> QED BY <1>1, CoreInit, CoreStep, IndInit, IndStep, PTL DEF Spec

-----------------------------------------------------------------------------
(* A window counts its attempts. *)

\* The holds of a window form a finite set.
LEMMA HoldsFinite == \A b \in Budget : IsFiniteSet(HoldsOn(b))
  <1>1. IsFiniteSet(Kind)
    <2>1. IsFiniteSet({"rate"}) /\ IsFiniteSet({"key"}) /\ IsFiniteSet({"call"})
      BY FS_Singleton
    <2>2. IsFiniteSet({"rate"} \cup {"key"})
      BY <2>1, FS_Union
    <2>3. IsFiniteSet(({"rate"} \cup {"key"}) \cup {"call"})
      BY <2>1, <2>2, FS_Union
    <2>4. Kind = ({"rate"} \cup {"key"}) \cup {"call"}
      BY DEF Kind
    <2> QED BY <2>3, <2>4
  <1>2. IsFiniteSet(ResId)
    BY <1>1, FiniteAssumption, FS_Product DEF ResId
  <1> QED BY <1>2, FS_Subset DEF HoldsOn

\* Taking a hold adds one element to the set of the budget it lies on and to no other.
LEMMA ReserveHolds ==
    ASSUME TypeOK, NEW c \in Caller, NEW kind \in Kind, NEW next, Reserve(c, kind, next),
           NEW b \in Budget
    PROVE  /\ b # BudgetFor(c, kind) => HoldsOn(b)' = HoldsOn(b)
           /\ b = BudgetFor(c, kind) =>
                HoldsOn(b)' = HoldsOn(b) \cup {<<kind, att[c]>>} /\ <<kind, att[c]>> \notin HoldsOn(b)
  <1> DEFINE i == <<kind, att[c]>>
  <1>1. i \in ResId /\ rstate[i] = "none"
    BY IdType DEF TypeOK, Reserve, Fresh
  <1>2. /\ rstate' = [rstate EXCEPT ![i] = "reserved"]
        /\ rbudget' = [rbudget EXCEPT ![i] = BudgetFor(c, kind)]
        /\ rstate \in [ResId -> {"none", "reserved", "reconciled", "uncertain"}]
        /\ rbudget \in [ResId -> Budget]
    BY DEF Reserve, TypeOK
  <1> HIDE DEF i
  <1> QED BY <1>1, <1>2 DEF HoldsOn, i

\* Every step keeps the count of every window.
LEMMA WindowStep ==
    TypeOK /\ IndInv /\ WindowCountsAttempts /\ [Next]_vars => WindowCountsAttempts'
  <1> SUFFICES ASSUME TypeOK, IndInv, WindowCountsAttempts, [Next]_vars, NEW m \in Minute
               PROVE  held'[Window(m)] = Cardinality(HoldsOn(Window(m))')
    BY DEF WindowCountsAttempts
  <1>1. Window(m) \in Budget /\ held[Window(m)] = Cardinality(HoldsOn(Window(m)))
    BY IdType DEF WindowCountsAttempts
  <1>2. Window(m) # KeyBudget /\ Window(m) # CallBudget
    BY DEF Window, KeyBudget, CallBudget
  <1>3. CASE UNCHANGED <<held, rstate, rbudget>>
    BY <1>1, <1>3 DEF HoldsOn
  <1>4. ASSUME NEW c \in Caller, Reserve(c, "rate", "key")
        PROVE  held'[Window(m)] = Cardinality(HoldsOn(Window(m))')
    <2>1. /\ BudgetFor(c, "rate") = Window(win[c]) /\ AmountFor(c, "rate") = 1 /\ win[c] \in Minute
          /\ Window(win[c]) \in Budget /\ "rate" \in Kind
      BY IdType DEF BudgetFor, AmountFor, TypeOK, Kind
    <2>2. held' = [held EXCEPT ![Window(win[c])] = @ + 1] /\ held \in [Budget -> Nat]
      BY <1>4, <2>1 DEF Reserve, TypeOK
    <2>3. CASE Window(m) = Window(win[c])
      <3>1. /\ HoldsOn(Window(m))' = HoldsOn(Window(m)) \cup {<<"rate", att[c]>>}
            /\ <<"rate", att[c]>> \notin HoldsOn(Window(m))
        BY <1>1, <1>4, <2>1, <2>3, ReserveHolds
      <3>2. Cardinality(HoldsOn(Window(m))') = Cardinality(HoldsOn(Window(m))) + 1
        BY <1>1, <3>1, HoldsFinite, FS_AddElement
      <3> QED BY <1>1, <2>1, <2>2, <2>3, <3>2
    <2>4. CASE Window(m) # Window(win[c])
      <3>1. HoldsOn(Window(m))' = HoldsOn(Window(m))
        BY <1>1, <1>4, <2>1, <2>4, ReserveHolds
      <3> QED BY <1>1, <2>1, <2>2, <2>4, <3>1
    <2> QED BY <2>3, <2>4
  <1>5. ASSUME NEW c \in Caller, NEW kind \in {"key", "call"}, NEW next, Reserve(c, kind, next)
        PROVE  held'[Window(m)] = Cardinality(HoldsOn(Window(m))')
    <2>1. kind \in Kind /\ BudgetFor(c, kind) \in {KeyBudget, CallBudget}
      BY DEF Kind, BudgetFor
    <2>2. HoldsOn(Window(m))' = HoldsOn(Window(m))
      <3>1. Window(m) # BudgetFor(c, kind)
        BY <1>2, <2>1
      <3> QED BY <1>1, <1>5, <2>1, <3>1, ReserveHolds
    <2>3. held'[Window(m)] = held[Window(m)]
      BY <1>1, <1>2, <1>5, <2>1 DEF Reserve, TypeOK
    <2> QED BY <1>1, <2>2, <2>3
  <1>6. ASSUME NEW c \in Caller, NEW kind \in {"key", "call"}, Settle(<<kind, att[c]>>, cost[c])
        PROVE  held'[Window(m)] = Cardinality(HoldsOn(Window(m))')
    <2>1. rbudget[<<kind, att[c]>>] \in {KeyBudget, CallBudget}
      BY DEF IndInv, RowsInv, TypeOK
    <2>2. held'[Window(m)] = held[Window(m)]
      BY <1>1, <1>2, <1>6, <2>1 DEF Settle, HeldAfter, TypeOK
    <2>3. ASSUME NEW r \in ResId PROVE rstate'[r] = "none" <=> rstate[r] = "none"
      BY <1>6 DEF Settle, Open, TypeOK
    <2>4. HoldsOn(Window(m))' = HoldsOn(Window(m))
      BY <1>6, <2>3 DEF HoldsOn, Settle
    <2> QED BY <1>1, <2>2, <2>4
  <1>7. ASSUME NEW c \in Caller, Hold(c)
        PROVE  held'[Window(m)] = Cardinality(HoldsOn(Window(m))')
    BY <1>3, <1>4, <1>5, <1>7 DEF Hold, Refuse, resVars
  <1>8. ASSUME NEW c \in Caller, ReconcileCall(c) \/ ReconcileKey(c)
        PROVE  held'[Window(m)] = Cardinality(HoldsOn(Window(m))')
    BY <1>3, <1>6, <1>8 DEF ReconcileCall, ReconcileKey, Reconcile, Repeat, resVars
  <1> QED
    BY <1>3, <1>7, <1>8
    DEF Next, Tick, Begin, ProvisionWindow, KeyRefused, Dispatch, NotDispatched, Answer,
        FinishAgain, Saved, Crash, vars, resVars

\* However callers race to provision and fill a window, it admits exactly the attempts it
\* counts; with HeldWithinCapHolds, at most requests_per_minute of them.
THEOREM WindowCountsAttemptsHolds == Spec => []WindowCountsAttempts
  <1>1. Init => WindowCountsAttempts
    <2> SUFFICES ASSUME Init, NEW m \in Minute
                 PROVE  held[Window(m)] = Cardinality(HoldsOn(Window(m)))
      BY DEF WindowCountsAttempts
    <2>1. HoldsOn(Window(m)) = {}
      BY DEF Init, HoldsOn
    <2>2. held[Window(m)] = 0
      BY IdType DEF Init
    <2> QED BY <2>1, <2>2, FS_EmptySet
  <1> QED BY <1>1, CoreInit, CoreStep, IndInit, IndStep, WindowStep, PTL DEF Spec

\* The caps of admissions and keys and the rate of a minute hold for any number of callers.
THEOREM LimitsHoldAlways == Spec => []LimitsHold
  BY HeldWithinCapHolds, WindowCountsAttemptsHolds, PTL DEF LimitsHold

-----------------------------------------------------------------------------
(* What the holds are worth. *)

\* The units of a finite set of rows are pairs of a row and a number up to its amount, and
\* finitely many.
LEMMA UnitsFacts ==
    ASSUME NEW f, NEW S, IsFiniteSet(S), \A i \in S : f[i] \in Nat
    PROVE  /\ IsFiniteSet(Units(f, S)) /\ Total(f, S) \in Nat
           /\ \A u : u \in Units(f, S) <=> \E i \in S : \E n \in 1 .. f[i] : u = <<i, n>>
  <1> DEFINE F == [i \in S |-> {i} \X (1 .. f[i])]
             I == {F[i] : i \in S}
  <1>1. IsFiniteSet(I)
    <2>1. F \in Surjection(S, I)
      BY DEF Surjection
    <2> QED BY <2>1, FS_Surjection
  <1>2. ASSUME NEW T \in I PROVE IsFiniteSet(T)
    <2>1. PICK i \in S : T = {i} \X (1 .. f[i])
      BY <1>2
    <2>2. IsFiniteSet({i}) /\ IsFiniteSet(1 .. f[i])
      <3>1. f[i] \in Int /\ 1 \in Int
        OBVIOUS
      <3> QED BY <3>1, FS_Singleton, FS_Interval
    <2> QED BY <2>1, <2>2, FS_Product
  <1>3. Units(f, S) = UNION I
    BY DEF Units
  <1>4. IsFiniteSet(Units(f, S))
    <2> HIDE DEF I
    <2> QED BY <1>1, <1>2, <1>3, FS_UNION
  <1>5. Total(f, S) \in Nat
    BY <1>4, FS_CardinalityType DEF Total
  <1>6. ASSUME NEW u
        PROVE  u \in Units(f, S) <=> \E i \in S : \E n \in 1 .. f[i] : u = <<i, n>>
    BY DEF Units
  <1> QED BY <1>4, <1>5, <1>6

\* A sum over more rows with larger amounts is larger.
LEMMA TotalMonotone ==
    ASSUME NEW f, NEW g, NEW S, NEW T, IsFiniteSet(T), S \subseteq T,
           \A i \in S : f[i] \in Nat /\ f[i] <= g[i], \A i \in T : g[i] \in Nat
    PROVE  Total(f, S) <= Total(g, T)
  <1>1. IsFiniteSet(S)
    BY FS_Subset
  <1>2. \A u : u \in Units(f, S) <=> \E i \in S : \E n \in 1 .. f[i] : u = <<i, n>>
    BY <1>1, UnitsFacts
  <1>3. /\ \A u : u \in Units(g, T) <=> \E i \in T : \E n \in 1 .. g[i] : u = <<i, n>>
        /\ IsFiniteSet(Units(g, T))
    BY UnitsFacts
  <1>4. \A i \in S : 1 .. f[i] \subseteq 1 .. g[i]
    OBVIOUS
  <1>5. Units(f, S) \subseteq Units(g, T)
    BY <1>2, <1>3, <1>4
  <1> QED BY <1>3, <1>5, FS_Subset DEF Total

\* A sum depends only on the amounts of its rows.
LEMMA TotalSame ==
    ASSUME NEW f, NEW g, NEW S, \A i \in S : f[i] = g[i]
    PROVE  Total(f, S) = Total(g, S)
  BY DEF Total, Units

\* A new row adds its amount to the sum.
LEMMA TotalAdds ==
    ASSUME NEW f, NEW S, IsFiniteSet(S), NEW j, j \notin S, \A i \in S \cup {j} : f[i] \in Nat
    PROVE  Total(f, S \cup {j}) = Total(f, S) + f[j]
  <1> DEFINE N == {j} \X (1 .. f[j])
  <1>1. IsFiniteSet({j}) /\ Cardinality({j}) = 1 /\ IsFiniteSet(S \cup {j})
    BY FS_Singleton, FS_AddElement
  <1>2. IsFiniteSet(1 .. f[j]) /\ Cardinality(1 .. f[j]) = f[j]
    BY FS_Interval
  <1>3. IsFiniteSet(N) /\ Cardinality(N) = f[j]
    <2>1. IsFiniteSet(N) /\ Cardinality(N) = Cardinality({j}) * Cardinality(1 .. f[j])
      BY <1>1, <1>2, FS_Product
    <2>2. f[j] \in Nat
      OBVIOUS
    <2> HIDE DEF N
    <2> QED BY <1>1, <1>2, <2>1, <2>2
  <1>4. /\ \A u : u \in Units(f, S) <=> \E i \in S : \E n \in 1 .. f[i] : u = <<i, n>>
        /\ IsFiniteSet(Units(f, S)) /\ Total(f, S) \in Nat
    BY UnitsFacts
  <1>5. \A u : u \in Units(f, S \cup {j}) <=> \E i \in S \cup {j} : \E n \in 1 .. f[i] : u = <<i, n>>
    BY <1>1, UnitsFacts
  <1>6. \A u : u \in N <=> \E n \in 1 .. f[j] : u = <<j, n>>
    OBVIOUS
  <1> HIDE DEF N
  <1>7. Units(f, S \cup {j}) = Units(f, S) \cup N
    BY <1>4, <1>5, <1>6
  <1>8. Units(f, S) \cap N = {}
    BY <1>4, <1>6
  <1>9. Cardinality(Units(f, S) \cup N) = Cardinality(Units(f, S)) + Cardinality(N) - 0
    <2> DEFINE U == Units(f, S)
    <2>1. IsFiniteSet(U) /\ IsFiniteSet(N) /\ U \cap N = {}
      BY <1>3, <1>4, <1>8
    <2> HIDE DEF U
    <2>2. Cardinality(U \cup N) = Cardinality(U) + Cardinality(N) - Cardinality(U \cap N)
      BY <2>1, FS_Union
    <2>3. Cardinality({}) = 0
      BY FS_EmptySet
    <2>4. Cardinality(U \cup N) = Cardinality(U) + Cardinality(N) - 0
      BY <2>1, <2>2, <2>3, Zenon
    <2> QED BY <2>4 DEF U
  <1>10. f[j] \in Nat /\ Cardinality(Units(f, S)) \in Nat
    BY <1>4 DEF Total
  <1>11. Cardinality(Units(f, S \cup {j})) = Cardinality(Units(f, S)) + f[j]
    <2> DEFINE x == Cardinality(Units(f, S))
    <2>1. Cardinality(Units(f, S) \cup N) = x + f[j] - 0
      BY <1>3, <1>9
    <2>2. x + f[j] - 0 = x + f[j]
      <3>1. f[j] \in Nat /\ x \in Nat
        BY <1>10
      <3> HIDE DEF x
      <3> QED BY <3>1
    <2> QED BY <1>7, <2>1, <2>2, Zenon
  <1> QED BY <1>11 DEF Total

\* Every step keeps the holds backed by reservations.
LEMMA BackedStep ==
    TypeOK /\ HeldWithinCap /\ HoldsAreBacked /\ [Next]_vars => HoldsAreBacked'
  <1> DEFINE Sum(b) == Total(reserved, HoldsOn(b))
             Backed(b) == IF b \in frozen THEN held[b] = Cap(b) /\ Sum(b) <= held[b]
                          ELSE held[b] = Sum(b)
  <1> SUFFICES ASSUME TypeOK, HeldWithinCap, HoldsAreBacked, [Next]_vars, NEW b \in Budget
               PROVE  Backed(b)'
    BY DEF HoldsAreBacked
  <1>1. Backed(b)
    BY DEF HoldsAreBacked
  <1>2. CASE UNCHANGED <<held, resVars, frozen>>
    BY <1>1, <1>2 DEF HoldsOn, resVars, Total, Units
  <1>3. /\ \A i \in HoldsOn(b) : reserved[i] \in Nat
        /\ IsFiniteSet(HoldsOn(b)) /\ Sum(b) \in Nat
    <2>1. \A i \in HoldsOn(b) : reserved[i] \in Nat
      BY DEF HoldsOn, TypeOK
    <2> QED BY <2>1, HoldsFinite, UnitsFacts
  <1>4. held[b] \in Nat /\ held[b] <= Cap(b) /\ Cap(b) \in Nat
    BY CapType DEF TypeOK, HeldWithinCap
  <1>5. ASSUME NEW c \in Caller, NEW kind \in Kind, NEW next, Reserve(c, kind, next)
        PROVE  Backed(b)'
    <2> DEFINE i == <<kind, att[c]>>
               n == AmountFor(c, kind)
               t == BudgetFor(c, kind)
    <2>1. i \in ResId /\ n \in Nat /\ t \in Budget
      BY IdType DEF TypeOK, AmountFor, BudgetFor
    <2>2. /\ held' = [held EXCEPT ![t] = @ + n] /\ held[t] + n <= Cap(t)
          /\ reserved' = [reserved EXCEPT ![i] = n] /\ frozen' = frozen
      BY <1>5 DEF Reserve, Fits
    <2>3. rstate[i] = "none"
      BY <1>5 DEF Reserve, Fresh
    <2>4. i \notin HoldsOn(b)
      BY <2>3 DEF HoldsOn
    <2>5. reserved'[i] = n /\ \A j \in HoldsOn(b) : reserved'[j] = reserved[j]
      <3>1. reserved \in [ResId -> Nat] /\ HoldsOn(b) \subseteq ResId
        BY DEF TypeOK, HoldsOn
      <3> HIDE DEF i, n
      <3> QED BY <2>1, <2>2, <2>4, <3>1
    <2>6. Total(reserved', HoldsOn(b)) = Sum(b)
      BY <2>5, TotalSame
    <2>7. CASE b # t
      <3>1. HoldsOn(b)' = HoldsOn(b) /\ held'[b] = held[b]
        BY <1>5, <2>2, <2>7, ReserveHolds DEF TypeOK
      <3>2. Sum(b)' = Sum(b)
        BY <2>6, <3>1
      <3> QED BY <1>1, <2>2, <3>1, <3>2
    <2>8. CASE b = t
      <3>1. HoldsOn(b)' = HoldsOn(b) \cup {i} /\ held'[b] = held[b] + n
        BY <1>5, <2>1, <2>2, <2>8, ReserveHolds DEF TypeOK
      <3>2. Total(reserved', HoldsOn(b) \cup {i}) = Total(reserved', HoldsOn(b)) + n
        <4>1. \A j \in HoldsOn(b) \cup {i} : reserved'[j] \in Nat
          BY <1>3, <2>1, <2>5
        <4> QED BY <1>3, <2>4, <2>5, <4>1, TotalAdds
      <3>3. Sum(b)' = Sum(b) + n
        BY <2>6, <3>1, <3>2
      <3>4. b \in frozen => n = 0
        BY <1>1, <1>4, <2>1, <2>2, <2>8
      <3> HIDE DEF n, Sum
      <3> QED BY <1>1, <1>3, <1>4, <2>1, <2>2, <3>1, <3>3, <3>4
    <2> QED BY <2>7, <2>8
  <1>6. ASSUME NEW c \in Caller, NEW kind \in Kind, Settle(<<kind, att[c]>>, cost[c])
        PROVE  Backed(b)'
    <2> DEFINE i == <<kind, att[c]>>
    <2>1. i \in ResId
      BY IdType DEF TypeOK
    <2>2. ASSUME NEW r \in ResId PROVE rstate'[r] = "none" <=> rstate[r] = "none"
      BY <1>6 DEF Settle, Open, TypeOK
    <2>3. HoldsOn(b)' = HoldsOn(b)
      BY <1>6, <2>2 DEF HoldsOn, Settle
    <2>4. Sum(b)' = Sum(b)
      BY <1>6, <2>3 DEF Settle
    <2>5. \/ held' = held /\ frozen' = frozen
          \/ held' = [held EXCEPT ![rbudget[i]] = Cap(rbudget[i])] /\ frozen' = frozen \cup {rbudget[i]}
      BY <1>6 DEF Settle, HeldAfter
    <2>6. held \in [Budget -> Nat]
      BY DEF TypeOK
    <2> HIDE DEF Sum, i
    <2> QED BY <1>1, <1>3, <1>4, <2>4, <2>5, <2>6
  <1>7. ASSUME NEW c \in Caller, Hold(c) PROVE Backed(b)'
    BY <1>2, <1>5, <1>7 DEF Hold, Refuse, Kind
  <1>8. ASSUME NEW c \in Caller, ReconcileCall(c) \/ ReconcileKey(c) PROVE Backed(b)'
    BY <1>2, <1>6, <1>8 DEF ReconcileCall, ReconcileKey, Reconcile, Repeat, Kind
  <1> QED
    BY <1>2, <1>7, <1>8
    DEF Next, Tick, Begin, ProvisionWindow, KeyRefused, Dispatch, NotDispatched, Answer,
        FinishAgain, Saved, Crash, vars

\* Initially nothing is held.
LEMMA BackedInit == Init => HoldsAreBacked
  <1> SUFFICES ASSUME Init, NEW b \in Budget
               PROVE  b \notin frozen /\ held[b] = Total(reserved, HoldsOn(b))
    BY DEF HoldsAreBacked
  <1>1. HoldsOn(b) = {} /\ held[b] = 0 /\ b \notin frozen
    BY DEF Init, HoldsOn
  <1>2. Units(reserved, {}) = {}
    BY DEF Units
  <1> QED BY <1>1, <1>2, FS_EmptySet DEF Total

\* Costs recorded as settled are within the reservations that back the hold.
LEMMA SpendCovered == TypeOK /\ RowsInv /\ HoldsAreBacked => SpendWithinHold
  <1> DEFINE Paid(b) == {i \in HoldsOn(b) : rstate[i] = "reconciled"}
  <1> SUFFICES ASSUME TypeOK, RowsInv, HoldsAreBacked, NEW b \in Budget
               PROVE  Total(actual, Paid(b)) <= held[b]
    BY DEF SpendWithinHold
  <1>1. \A i \in HoldsOn(b) : reserved[i] \in Nat
    BY DEF HoldsOn, TypeOK
  <1>2. ASSUME NEW i \in Paid(b) PROVE actual[i] \in Nat /\ actual[i] <= reserved[i]
    <2>1. i \in ResId /\ rstate[i] = "reconciled"
      BY DEF HoldsOn
    <2>2. PICK kind \in Kind, a \in Attempt : i = <<kind, a>>
      BY <2>1 DEF ResId
    <2>3. actual[i] \in Nat
      BY <2>1, CapsAssumption DEF TypeOK, Costs, Unknown
    <2> QED BY <2>1, <2>2, <2>3 DEF RowsInv
  <1>3. Paid(b) \subseteq HoldsOn(b) /\ IsFiniteSet(HoldsOn(b)) /\ IsFiniteSet(Paid(b))
    BY HoldsFinite, FS_Subset
  <1>4. /\ Total(actual, Paid(b)) <= Total(reserved, HoldsOn(b))
        /\ Total(actual, Paid(b)) \in Nat /\ Total(reserved, HoldsOn(b)) \in Nat
    <2> HIDE DEF Paid
    <2> QED BY <1>1, <1>2, <1>3, TotalMonotone, UnitsFacts
  <1>5. Total(reserved, HoldsOn(b)) <= held[b] /\ held[b] \in Nat
    <2>1. held[b] \in Nat
      BY DEF TypeOK
    <2> QED BY <1>4, <2>1 DEF HoldsAreBacked
  <1> HIDE DEF Paid
  <1> QED BY <1>4, <1>5

\* For any callers, attempts and amounts, a budget holds exactly what its reservations took
\* (all of its cap once frozen), and that covers every cost recorded as settled.
THEOREM HoldsCoverSpendHolds == Spec => []HoldsCoverSpend
  <1>1. TypeOK /\ IndInv /\ HoldsAreBacked => HoldsCoverSpend
    BY SpendCovered DEF IndInv, HoldsCoverSpend
  <1> QED
    BY <1>1, CoreInit, CoreStep, IndInit, IndStep, BackedInit, BackedStep, PTL DEF Spec

\* On a frozen budget, which is full, only a hold of nothing fits.
LEMMA FrozenStep ==
    ASSUME TypeOK, HoldsAreBacked, [Next]_vars, NEW i \in ResId,
           rstate[i] = "none", rstate'[i] # "none", rbudget'[i] \in frozen
    PROVE  reserved'[i] = 0
  <1>1. ASSUME NEW c \in Caller, NEW kind \in Kind, NEW next, Reserve(c, kind, next)
        PROVE  reserved'[i] = 0
    <2>1. BudgetFor(c, kind) \in Budget /\ AmountFor(c, kind) \in Nat /\ <<kind, att[c]>> \in ResId
      BY IdType DEF TypeOK, AmountFor, BudgetFor
    <2>2. i = <<kind, att[c]>>
      BY <1>1, <2>1 DEF Reserve, TypeOK
    <2>3. rbudget'[i] = BudgetFor(c, kind) /\ reserved'[i] = AmountFor(c, kind)
      BY <1>1, <2>1, <2>2 DEF Reserve, TypeOK
    <2>4. held[BudgetFor(c, kind)] = Cap(BudgetFor(c, kind))
      BY <2>1, <2>3 DEF HoldsAreBacked
    <2>5. held[BudgetFor(c, kind)] + AmountFor(c, kind) <= Cap(BudgetFor(c, kind))
      BY <1>1 DEF Reserve, Fits
    <2> QED BY <2>1, <2>3, <2>4, <2>5, CapType
  <1>2. ASSUME NEW c \in Caller, NEW kind \in Kind, Settle(<<kind, att[c]>>, cost[c]) PROVE FALSE
    BY <1>2 DEF Settle, Open, TypeOK
  <1>3. CASE UNCHANGED resVars
    BY <1>3 DEF resVars
  <1>4. ASSUME NEW c \in Caller, Hold(c) PROVE reserved'[i] = 0
    BY <1>1, <1>3, <1>4 DEF Hold, Refuse, Kind
  <1>5. ASSUME NEW c \in Caller, ReconcileCall(c) \/ ReconcileKey(c) PROVE reserved'[i] = 0
    BY <1>2, <1>3, <1>5 DEF ReconcileCall, ReconcileKey, Reconcile, Repeat, Kind
  <1> QED
    BY <1>3, <1>4, <1>5
    DEF Next, Tick, Begin, ProvisionWindow, KeyRefused, Dispatch, NotDispatched, Answer,
        FinishAgain, Saved, Crash, vars

\* No hold is given back, and a budget an overage froze admits no further spending: "Freeze
\* further spending." (execution_storage.py, reconcile).
THEOREM SpentStaysSpentHolds == Spec => SpentStaysSpent
  <1>1. TypeOK /\ HoldsAreBacked /\ [Next]_vars =>
            [\A i \in ResId : rstate[i] = "none" /\ rstate'[i] # "none" /\ rbudget'[i] \in frozen
                                => reserved'[i] = 0]_vars
    BY FrozenStep
  <1>2. Spec => FrozenForGood
    BY <1>1, CoreInit, CoreStep, BackedInit, BackedStep, PTL DEF Spec, FrozenForGood
  <1> QED BY <1>2, NeverRefundHolds DEF SpentStaysSpent
=============================================================================
