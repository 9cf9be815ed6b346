---------------------------- MODULE SandboxBudget ----------------------------
(***************************************************************************)
(* The money ledger of the sandbox: sandbox_budgets and                    *)
(* sandbox_reservations (execution_storage.py), as the gateway drives it   *)
(* for attempts made under one application key (gateway/keys.py, start and *)
(* finish of gateway/service.py).                                          *)
(*                                                                         *)
(* An attempt takes three holds before its provider call, one transaction  *)
(* each: one unit of the key's per-minute window, the worst-case cost on   *)
(* the key's budget and the same cost on the admission's budget.  After    *)
(* the call the last two are reconciled with the observed cost.  API       *)
(* processes interleave at every transaction, may die at any of them, and  *)
(* may meet an attempt id that another process already used.               *)
(***************************************************************************)
EXTENDS Naturals, FiniteSets

CONSTANTS
    Caller,      \* API or worker processes
    Attempt,     \* attempt (request) ids
    CallCap,     \* cap of the admission's budget
    KeyCap,      \* cap of the application key's budget
    PerMinute,   \* requests_per_minute: cap of a rate window
    MaxCost,     \* bound: largest amount reserved
    MaxActual,   \* bound: largest cost a provider reports
    MaxMinute    \* bound: the clock stops at this minute

ASSUME CapsAssumption ==
    /\ CallCap \in Nat /\ KeyCap \in Nat /\ PerMinute \in Nat
    /\ MaxCost \in Nat /\ MaxActual \in Nat /\ MaxMinute \in Nat

ASSUME FiniteAssumption == IsFiniteSet(Attempt)

VARIABLES
    minute,                               \* the wall clock, in minutes
    windows, held,                        \* sandbox_budgets: provisioned windows, held_micro
    rstate, rbudget, reserved, actual,    \* sandbox_reservations
    pc, att, amt, win, cost,              \* callers
    dispatched,                           \* history: provider calls made per attempt id
    frozen                                \* history: budgets an overage has frozen

resVars    == <<rstate, rbudget, reserved, actual>>
callerVars == <<pc, att, amt, win, cost>>
vars == <<minute, windows, held, resVars, callerVars, dispatched, frozen>>

-----------------------------------------------------------------------------
Minute == 0 .. MaxMinute
Kind == {"rate", "key", "call"}

\* Budget ids: the admission's, the key's, and one window per minute.
Budget == Kind \X Minute
CallBudget == <<"call", 0>>
KeyBudget == <<"key", 0>>
Window(m) == <<"rate", m>>
Cap(b) == CASE b[1] = "call" -> CallCap [] b[1] = "key" -> KeyCap [] OTHER -> PerMinute

\* Reservation ids: "rate-", "key-" and "call-" followed by the attempt id.
ResId == Kind \X Attempt

\* A cost the provider did not report.
Unknown == MaxActual + 1
Costs == 0 .. Unknown

Steps == {"idle", "window", "rate", "key", "call", "dispatch", "inflight",
          "settle_call", "settle_key", "save"}

TypeOK ==
    /\ minute \in Minute
    /\ windows \in SUBSET Minute
    /\ held \in [Budget -> Nat]
    /\ rstate \in [ResId -> {"none", "reserved", "reconciled", "uncertain"}]
    /\ rbudget \in [ResId -> Budget]
    /\ reserved \in [ResId -> Nat]
    /\ actual \in [ResId -> Costs]
    /\ pc \in [Caller -> Steps]
    /\ att \in [Caller -> Attempt]
    /\ amt \in [Caller -> Nat]
    /\ win \in [Caller -> Minute]
    /\ cost \in [Caller -> Costs]
    /\ dispatched \in [Attempt -> Nat]
    /\ frozen \in SUBSET Budget

Init ==
    /\ minute = 0
    /\ windows = {}
    /\ held = [b \in Budget |-> 0]
    /\ rstate = [i \in ResId |-> "none"]
    /\ rbudget = [i \in ResId |-> CallBudget]
    /\ reserved = [i \in ResId |-> 0]
    /\ actual = [i \in ResId |-> Unknown]
    /\ pc = [c \in Caller |-> "idle"]
    /\ att \in [Caller -> Attempt]
    /\ \A c, d \in Caller : att[c] = att[d]
    /\ amt = [c \in Caller |-> 0]
    /\ win = [c \in Caller |-> 0]
    /\ cost = [c \in Caller |-> Unknown]
    /\ dispatched = [a \in Attempt |-> 0]
    /\ frozen = {}

-----------------------------------------------------------------------------
Goto(c, from, to) == pc[c] = from /\ pc' = [pc EXCEPT ![c] = to]

Tick ==
    /\ minute < MaxMinute
    /\ minute' = minute + 1
    /\ UNCHANGED <<windows, held, resVars, callerVars, dispatched, frozen>>

\* Gateway.start: an attempt id and the worst-case cost preflight computed for it.
Begin(c, a, n) ==
    /\ Goto(c, "idle", "window")
    /\ att' = [att EXCEPT ![c] = a]
    /\ amt' = [amt EXCEPT ![c] = n]
    /\ UNCHANGED <<minute, windows, held, resVars, win, cost, dispatched, frozen>>

\* Mutant: an upsert starts the window's count again.
ProvisionWindow_Upsert(c) ==
    /\ Goto(c, "window", "rate")
    /\ win' = [win EXCEPT ![c] = minute]
    /\ windows' = windows \cup {minute}
    /\ held' = [held EXCEPT ![Window(minute)] = 0]
    /\ UNCHANGED <<minute, resVars, att, amt, cost, dispatched, frozen>>

\* KeyManager.reserve: the window of the current minute is provisioned; the primary key
\* makes a second provisioning a no-op that keeps what the window already holds.
ProvisionWindow(c) ==
    /\ Goto(c, "window", "rate")
    /\ win' = [win EXCEPT ![c] = minute]
    /\ windows' = windows \cup {minute}
    /\ UNCHANGED <<minute, held, resVars, att, amt, cost, dispatched, frozen>>

\* KeyManager.check: the key was revoked, has expired or lacks the scope.
KeyRefused(c) ==
    /\ Goto(c, "window", "idle")
    /\ UNCHANGED <<minute, windows, held, resVars, att, amt, win, cost, dispatched, frozen>>

\* The budget a hold of each kind goes to, and how much it takes.
BudgetFor(c, kind) == CASE kind = "rate" -> Window(win[c])
                        [] kind = "key" -> KeyBudget
                        [] OTHER -> CallBudget
AmountFor(c, kind) == IF kind = "rate" THEN 1 ELSE amt[c]
Provisioned(b) == b[1] = "rate" => b[2] \in windows

\* The conditional UPDATE and the INSERT under two unique keys, one transaction.
Fits_StrictlyBelow(c, kind) ==
    Provisioned(BudgetFor(c, kind)) /\ held[BudgetFor(c, kind)] <= Cap(BudgetFor(c, kind))
Fits(c, kind) ==
    /\ Provisioned(BudgetFor(c, kind))
    /\ held[BudgetFor(c, kind)] + AmountFor(c, kind) <= Cap(BudgetFor(c, kind))

Fresh_NoUniqueKey(c, kind) == TRUE
Fresh(c, kind) == rstate[<<kind, att[c]>>] = "none"

Reserve(c, kind, next) ==
    LET i == <<kind, att[c]>>
        b == BudgetFor(c, kind)
    IN /\ Goto(c, kind, next)
       /\ Fits(c, kind) /\ Fresh(c, kind)
       /\ held' = [held EXCEPT ![b] = @ + AmountFor(c, kind)]
       /\ rstate' = [rstate EXCEPT ![i] = "reserved"]
       /\ rbudget' = [rbudget EXCEPT ![i] = b]
       /\ reserved' = [reserved EXCEPT ![i] = AmountFor(c, kind)]
       /\ actual' = [actual EXCEPT ![i] = Unknown]
       /\ UNCHANGED <<minute, windows, att, amt, win, cost, dispatched, frozen>>

\* 429 or 409: the transaction rolls back; holds taken before it stay.
Refuse(c, kind) ==
    /\ Goto(c, kind, "idle")
    /\ ~(Fits(c, kind) /\ Fresh(c, kind))
    /\ UNCHANGED <<minute, windows, held, resVars, att, amt, win, cost, dispatched, frozen>>

Hold(c) ==
    \/ Reserve(c, "rate", "key") \/ Reserve(c, "key", "call") \/ Reserve(c, "call", "dispatch")
    \/ \E kind \in Kind : Refuse(c, kind)

Dispatch(c) ==
    /\ Goto(c, "dispatch", "inflight")
    /\ dispatched' = [dispatched EXCEPT ![att[c]] = @ + 1]
    /\ UNCHANGED <<minute, windows, held, resVars, att, amt, win, cost, frozen>>

\* The recheck before the call (deadline, policy, endpoint, credential) fails: finish runs
\* without a result although nothing was sent.
NotDispatched(c) ==
    /\ Goto(c, "dispatch", "settle_call")
    /\ cost' = [cost EXCEPT ![c] = Unknown]
    /\ UNCHANGED <<minute, windows, held, resVars, att, amt, win, dispatched, frozen>>

\* The provider answers with a cost, or the call fails and its cost stays unknown.
Answer(c, n) ==
    /\ Goto(c, "inflight", "settle_call")
    /\ cost' = [cost EXCEPT ![c] = n]
    /\ UNCHANGED <<minute, windows, held, resVars, att, amt, win, dispatched, frozen>>

-----------------------------------------------------------------------------
(* reconcile, called twice by Gateway.finish *)

Known(n) == n # Unknown
Overage_NotChecked(i, n) == FALSE
Overage(i, n) == Known(n) /\ n > reserved[i]

\* What an overage does to the budget of reservation i.
HeldAfter_Refund(i, n) ==
    IF Overage(i, n) THEN [held EXCEPT ![rbudget[i]] = Cap(rbudget[i])]
    ELSE IF Known(n) THEN [held EXCEPT ![rbudget[i]] = @ - (reserved[i] - n)] ELSE held
HeldAfter_ReleaseActual(i, n) ==
    IF Known(n) THEN [held EXCEPT ![rbudget[i]] = @ - n] ELSE held
HeldAfter_NoFreeze(i, n) == held
HeldAfter(i, n) ==
    IF Overage(i, n) THEN [held EXCEPT ![rbudget[i]] = Cap(rbudget[i])] ELSE held

\* The cost a reservation is reconciled with: an overage is recorded as unknown.
Recorded(i, n) == IF Overage(i, n) THEN Unknown ELSE n

\* An open reservation is settled; one already reconciled is left alone.
Open_EvenReconciled(i) == rstate[i] # "none"
Open(i) == rstate[i] \in {"reserved", "uncertain"}

Settle(i, n) ==
    /\ Open(i)
    /\ held' = HeldAfter(i, n)
    /\ frozen' = IF Overage(i, n) THEN frozen \cup {rbudget[i]} ELSE frozen
    /\ actual' = [actual EXCEPT ![i] = Recorded(i, n)]
    /\ rstate' = [rstate EXCEPT ![i] = IF Known(Recorded(i, n)) THEN "reconciled"
                                       ELSE "uncertain"]
    /\ UNCHANGED <<rbudget, reserved>>

Repeat(i, n) ==
    /\ rstate[i] = "reconciled" /\ actual[i] = n
    /\ UNCHANGED <<held, resVars, frozen>>

\* 409: usage already reconciled with another cost.  finish raises.
Conflicts(i, n) == rstate[i] = "reconciled" /\ actual[i] # n

Reconcile(c, kind, from, to) ==
    LET i == <<kind, att[c]>>
    IN /\ \/ Goto(c, from, to) /\ (Settle(i, cost[c]) \/ Repeat(i, cost[c]))
          \/ /\ Goto(c, from, "idle") /\ Conflicts(i, cost[c])
             /\ UNCHANGED <<held, resVars, frozen>>
       /\ UNCHANGED <<minute, windows, att, amt, win, cost, dispatched>>

ReconcileCall(c) == Reconcile(c, "call", "settle_call", "settle_key")
ReconcileKey(c) == Reconcile(c, "key", "settle_key", "save")

\* finish saved the trace and the attempt: the attempt is over.
Saved(c) ==
    /\ Goto(c, "save", "idle")
    /\ UNCHANGED <<minute, windows, held, resVars, att, amt, win, cost, dispatched, frozen>>

\* A statement of finish failed before its trace was saved; the exception handler runs
\* finish again, with the same result (_infer_once) or with none (stream).
FinishAgain(c, n) ==
    /\ \E step \in {"settle_call", "settle_key", "save"} : Goto(c, step, "settle_call")
    /\ n \in {cost[c], Unknown}
    /\ cost' = [cost EXCEPT ![c] = n]
    /\ UNCHANGED <<minute, windows, held, resVars, att, amt, win, dispatched, frozen>>

\* The process dies; its holds stay as they are.
Crash(c) ==
    /\ pc[c] # "idle"
    /\ pc' = [pc EXCEPT ![c] = "idle"]
    /\ UNCHANGED <<minute, windows, held, resVars, att, amt, win, cost, dispatched, frozen>>

Next ==
    \/ Tick
    \/ \E c \in Caller :
        \/ \E a \in Attempt, n \in 0 .. MaxCost : Begin(c, a, n)
        \/ ProvisionWindow(c) \/ KeyRefused(c) \/ Hold(c)
        \/ Dispatch(c) \/ NotDispatched(c)
        \/ \E n \in Costs : Answer(c, n) \/ FinishAgain(c, n)
        \/ ReconcileCall(c) \/ ReconcileKey(c) \/ Saved(c) \/ Crash(c)

Spec == Init /\ [][Next]_vars

-----------------------------------------------------------------------------
(* Properties *)

HoldsOn(b) == {i \in ResId : rstate[i] # "none" /\ rbudget[i] = b}

\* The sum of f over S: the number of micro-dollars (or calls) it names, counted one by one.
Units(f, S) == UNION {{i} \X (1 .. f[i]) : i \in S}
Total(f, S) == Cardinality(Units(f, S))

\* The conditional UPDATE of reserve and the freeze of reconcile keep every budget's
\* hold within its cap, whatever the callers do concurrently.
HeldWithinCap == \A b \in Budget : held[b] <= Cap(b)

\* A budget holds exactly what its reservations reserved, so no hold is lost, counted
\* twice or given back by a crash, a refusal or a second finish; a frozen budget is full.
HoldsAreBacked ==
    \A b \in Budget :
        IF b \in frozen THEN held[b] = Cap(b) /\ Total(reserved, HoldsOn(b)) <= held[b]
        ELSE held[b] = Total(reserved, HoldsOn(b))

\* The costs recorded as paid under a budget stay within what it holds, hence its cap: a
\* cost above its reservation is never recorded as a settled one.
SpendWithinHold ==
    \A b \in Budget :
        Total(actual, {i \in HoldsOn(b) : rstate[i] = "reconciled"}) <= held[b]

\* "Request already reserved; never redispatch blindly": an attempt id reaches the
\* provider at most once, and only with all three of its holds taken.
DispatchedOnce ==
    \A a \in Attempt :
        /\ dispatched[a] <= 1
        /\ dispatched[a] = 1 => \A kind \in Kind : rstate[<<kind, a>>] # "none"

\* A minute's window admits exactly as many attempts as it holds units, at most
\* requests_per_minute, even when two processes provision it at once.
WindowCountsAttempts ==
    \A m \in Minute : held[Window(m)] = Cardinality(HoldsOn(Window(m)))

\* The key's ledger never runs ahead of the admission's: once finish has settled the
\* key's hold, both record the same cost, whatever finish is called with again.
LedgersAgree ==
    \A a \in Attempt :
        rstate[<<"key", a>>] \in {"reconciled", "uncertain"} =>
            /\ rstate[<<"call", a>>] = rstate[<<"key", a>>]
            /\ actual[<<"call", a>>] = actual[<<"key", a>>]

\* The limits of an admission, of a key and of a minute hold.
LimitsHold == HeldWithinCap /\ WindowCountsAttempts

\* A hold is worth what it was taken for: it is backed by reservations and covers the costs
\* recorded under it.
HoldsCoverSpend == HoldsAreBacked /\ SpendWithinHold

\* "Retain conservative holds even for settled calls; never invent refunds": no step
\* lowers a budget's hold.
NeverRefund == [][\A b \in Budget : held'[b] >= held[b]]_vars

\* "A provider overage is not silently dropped. Freeze further spending": no later
\* attempt reserves a positive amount on a frozen budget.
FrozenForGood ==
    [][\A i \in ResId :
        rstate[i] = "none" /\ rstate'[i] # "none" /\ rbudget'[i] \in frozen => reserved'[i] = 0]_vars

\* What was spent stays spent, and a budget that was overrun stays closed.
SpentStaysSpent == NeverRefund /\ FrozenForGood

-----------------------------------------------------------------------------
(* The inductive invariant behind the theorems of SandboxBudgetProofs. *)

Settled(i) == rstate[i] \in {"reconciled", "uncertain"}
Settling == {"settle_call", "settle_key", "save"}
AfterCall == {"dispatch", "inflight"} \cup Settling
AfterKey == {"call"} \cup AfterCall
AfterRate == {"key"} \cup AfterKey

\* The holds a caller has taken when it reaches each step.
HoldsInv ==
    \A c \in Caller :
        /\ pc[c] \in {"rate"} \cup AfterRate => win[c] \in windows
        /\ pc[c] \in AfterRate => rstate[<<"rate", att[c]>>] # "none"
        /\ pc[c] \in AfterKey =>
            rstate[<<"key", att[c]>>] # "none" /\ reserved[<<"key", att[c]>>] = amt[c]
        /\ pc[c] \in AfterCall =>
            rstate[<<"call", att[c]>>] # "none" /\ reserved[<<"call", att[c]>>] = amt[c]

\* Only the caller that took an attempt's first hold is past it.
OwnerInv ==
    \A c, d \in Caller :
        pc[c] \in AfterRate /\ pc[d] \in AfterRate /\ att[c] = att[d] => c = d

\* An attempt was sent at most once, and not by a caller that is about to send it.
SentInv ==
    /\ \A a \in Attempt :
        /\ dispatched[a] <= 1
        /\ dispatched[a] = 1 => \A kind \in Kind : rstate[<<kind, a>>] # "none"
    /\ \A c \in Caller : pc[c] \in {"call", "dispatch"} => dispatched[att[c]] = 0

\* Reservation rows agree with their ids; only the rate holds lie on windows, and no
\* window is ever settled.
RowsInv ==
    /\ \A a \in Attempt :
        /\ rstate[<<"rate", a>>] \in {"none", "reserved"}
        /\ rbudget[<<"key", a>>] \in {KeyBudget, CallBudget}
        /\ rbudget[<<"call", a>>] = CallBudget
    /\ \A kind \in Kind, a \in Attempt :
        LET i == <<kind, a>>
        IN IF rstate[i] = "reconciled" THEN Known(actual[i]) /\ actual[i] <= reserved[i]
           ELSE actual[i] = Unknown

\* How far the two settlements of a caller's attempt can be apart.
SettlingOf(c) ==
    LET k == <<"key", att[c]>>
        l == <<"call", att[c]>>
    IN /\ pc[c] \in {"call", "dispatch", "inflight"} => ~Settled(k)
       /\ pc[c] \in {"dispatch", "inflight"} => ~Settled(l)
       /\ pc[c] = "settle_call" /\ Settled(l) => Recorded(l, cost[c]) \in {actual[l], Unknown}
       /\ pc[c] \in {"settle_key", "save"} => Settled(l) /\ actual[l] = Recorded(l, cost[c])
       /\ pc[c] = "save" => Settled(k)

SettleInv == LedgersAgree /\ \A c \in Caller : SettlingOf(c)

IndInv == HoldsInv /\ OwnerInv /\ SentInv /\ RowsInv /\ SettleInv
=============================================================================
