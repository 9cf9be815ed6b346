--------------------------- MODULE EvidenceProofs ---------------------------
(***************************************************************************)
(* Proofs about research (ResearchRun), selection (Selection) and stage    *)
(* authority (StageAuthority) for any repositories, catalogs, workflows,   *)
(* callers, deployments and bounds.  Each part has its own invariant.      *)
(***************************************************************************)
EXTENDS Evidence, FiniteSetTheorems, SequenceTheorems, WellFoundedInduction, TLAPS

-----------------------------------------------------------------------------
(* Research *)

Reading == {"capture", "check", "reserve", "wait"}

\* A cached claim was read from its specification's sources, in their order.
GoodRow(c) ==
    /\ DOMAIN c.read = DOMAIN Reads(c.kind) /\ Extracts(c.kind, c.repo, c.subject)
    /\ c.kind = "artifact" => c.subject = c.read[1]
CacheInv == cache # None => \A c \in cache.claims : GoodRow(c)

\* Which roles are at work, and on what.
RoleInv ==
    /\ phase \in {"idle", "ledger", "catalog"} => \A k \in Kinds : role[k] = Idle
    /\ phase = "artifact" => \A k \in Others : role[k] = Idle
    /\ phase = "roles" => role["artifact"] = Idle
    /\ \A k \in Kinds :
        /\ role[k].at = "next" => role[k].repo = None /\ role[k].step = 1
        /\ role[k].at \in Reading => role[k].repo \in Repos /\ role[k].step <= Len(Reads(k))
        /\ role[k].at \in Reading \ {"capture"} => source[role[k].repo][Url(k)] # 0
        /\ k \in Others => /\ \A r \in role[k].todo : found[r] # 0
                           /\ role[k].at \in Reading => found[role[k].repo] # 0

\* What has been collected is about the artifacts found, and is what the recordings give.
ClaimsInv ==
    phase # "idle" =>
        /\ \A c \in claims : /\ c = ClaimOf(c.kind, c.repo, c.subject)
                             /\ Extracts(c.kind, c.repo, c.subject)
                             /\ c.subject # 0 /\ found[c.repo] = c.subject
        /\ \A r \in Repos : found[r] # 0 =>
             /\ found[r] = source[r]["hub"]
             /\ \E a \in claims : a.kind = "artifact" /\ a.repo = r /\ a.subject = found[r]

\* Nothing is lost: a specification waits, has its claim or its issue, or a role was stopped.
Stopping == \E i \in issues : i.status \in Stops
Waiting(k, r) == r \in role[k].todo \/ role[k].repo = r
Settled(k, r) ==
    \/ \E c \in claims : c.kind = k /\ c.repo = r
    \/ \E i \in issues : i.kind = k /\ i.repo = r /\ i.status = "unusable"
    \/ Stopping
ProgressInv ==
    /\ phase = "artifact" => \A r \in Repos : Waiting("artifact", r) \/ Settled("artifact", r)
    /\ phase = "roles" =>
        /\ \A r \in Repos : Settled("artifact", r)
        /\ \A k \in Others : \A r \in Specs(k) : found[r] # 0 => Waiting(k, r) \/ Settled(k, r)
    /\ \A k \in Kinds :
        role[k].at = "ended" => Stopping \/ (role[k].todo = {} /\ role[k].repo = None)

\* What is being published is valid and complete, and so is what has been.
DraftInv ==
    /\ phase \in {"ledger", "catalog"} =>
        /\ IsLedger(draft) /\ Valid(draft) /\ Complete(draft)
        /\ \A c \in draft.claims : GoodRow(c)
    /\ phase = "catalog" => draft \in ledgers
    /\ PublishedIsComplete /\ LedgerBeforeCatalog

\* After a late read nobody is past a check that the cancellation would stop.
LateInv ==
    \A k \in Kinds : late[k] = 0 \/ (late[k] = 1 /\ cancelled /\ role[k].at # "reserve")

IndInv == TypeOK /\ CacheInv /\ RoleInv /\ ClaimsInv /\ ProgressInv /\ DraftInv /\ LateInv

\* What a read does to its role, whose next state is y: it picks a repository or ends, moves
\* on, is stopped, drops the specification with an issue, or collects its claim.
Picks(k, y) ==
    /\ role[k].at = "next" /\ y.repo \in role[k].todo /\ y.todo = role[k].todo \ {y.repo}
    /\ y.at = "capture" /\ y.step = 1 /\ UNCHANGED <<claims, issues, found>>
Ends(k, y) ==
    /\ role[k].at = "next" /\ role[k].todo = {} /\ y.todo = {} /\ y.repo = None
    /\ y.at = "ended" /\ UNCHANGED <<claims, issues, found>>
Moves(k, y) ==
    /\ role[k].at \in Reading /\ y.at \in Reading
    /\ y.repo = role[k].repo /\ y.todo = role[k].todo /\ y.step <= Len(Reads(k))
    /\ y.at # "capture" => source[y.repo][Reads(k)[y.step]] # 0
    /\ y.at = "reserve" => ~cancelled
    /\ UNCHANGED <<claims, issues, found>>
IsStopped(k, y) ==
    /\ role[k].at \in Reading /\ y.at = "ended" /\ y.todo = role[k].todo
    /\ \E i \in Issue : i.status \in Stops /\ issues' = issues \cup {i}
    /\ UNCHANGED <<claims, found>>
Drops(k, y) ==
    /\ role[k].at \in Reading
    /\ y.at = "next" /\ y.repo = None /\ y.step = 1 /\ y.todo = role[k].todo
    /\ issues' = issues \cup {[kind |-> k, repo |-> role[k].repo, status |-> "unusable"]}
    /\ UNCHANGED <<claims, found>>
Collects(k, y) ==
    /\ role[k].at = "wait" /\ role[k].step = Len(Reads(k))
    /\ y.at = "next" /\ y.repo = None /\ y.step = 1 /\ y.todo = role[k].todo
    /\ LET r == role[k].repo IN
        /\ Extracts(k, r, Subject(k, r))
        /\ claims' = claims \cup {ClaimOf(k, r, Subject(k, r))}
        /\ found' = [found EXCEPT ![r] = Subject(k, r)]
    /\ UNCHANGED issues
Turn(k, y) ==
    /\ y \in RoleState /\ role' = [role EXCEPT ![k] = y]
    /\ UNCHANGED <<world, phase, cache, draft, store, runs, changes>>
    /\ \/ Picks(k, y) \/ Ends(k, y) \/ Moves(k, y)
       \/ IsStopped(k, y) \/ Drops(k, y) \/ Collects(k, y)
-----------------------------------------------------------------------------
(* The steps *)

\* A specification is read from one source or two; an artifact from its hub entry.
LEMMA ReadsFacts ==
    \A k \in Kinds : /\ Len(Reads(k)) \in {1, 2} /\ DOMAIN Reads(k) = 1 .. Len(Reads(k))
                     /\ \A i \in 1 .. Len(Reads(k)) : Reads(k)[i] \in Urls
                     /\ k = "artifact" => Len(Reads(k)) = 1 /\ Reads(k)[1] = "hub"
  <1>1. Reads("artifact") = <<"hub">> /\ Reads("capability") = <<"card">>
        /\ Reads("deployment") = <<"model", "endpoint">>
    BY DEF Reads
  <1> QED BY <1>1 DEF Kinds, Urls

\* A role that is done with a specification keeps only what is left to do.
LEMMA Renewed ==
    ASSUME NEW x \in RoleState
    PROVE  LET y == [x EXCEPT !.at = "next", !.repo = None, !.step = 1, !.tries = 0]
           IN  /\ y \in RoleState /\ y.at = "next" /\ y.repo = None
               /\ y.step = 1 /\ y.todo = x.todo
  <1>1. 1 \in 1 .. 2 /\ 0 \in 0 .. MaxRetries
    BY LimitsAssumption
  <1> QED BY <1>1 DEF RoleState

\* Every read of a role is a turn.
LEMMA Turns ==
    ASSUME IndInv, NEW k \in Kinds, Read(k)
    PROVE  \E y : Turn(k, y)
  <1> DEFINE x == role[k]
  <1>1. x \in RoleState /\ x.todo \subseteq Repos /\ (x.at = "next" => x.repo = None /\ x.step = 1)
    BY DEF IndInv, TypeOK, RoleInv, RoleState
  <1>2. x.at \in Reading =>
          /\ x.repo \in Repos /\ x.step \in 1 .. 2 /\ x.step <= Len(Reads(k)) /\ x.tries \in Nat
          /\ x.at # "capture" => source[x.repo][Reads(k)[x.step]] # 0
    BY <1>1, LimitsAssumption DEF IndInv, RoleInv, RoleState, Url, Item, Reading
  <1>3. None \notin Repos /\ 0 \in 0 .. MaxRetries
    BY PlanAssumption, LimitsAssumption
  <1> DEFINE Frame == UNCHANGED <<world, phase, cache, draft, store, runs, changes>>
             Ended == [x EXCEPT !.at = "ended"]
             Next0 == [x EXCEPT !.at = "next", !.repo = None, !.step = 1, !.tries = 0]
  <1>4. ASSUME NEW status \in Stops, Stop(k, status), x.at \in Reading, UNCHANGED <<claims, found>>,
               Frame
        PROVE  \E y : Turn(k, y)
    <2>1. Ended \in RoleState /\ Ended.at = "ended" /\ Ended.todo = x.todo
      BY <1>1 DEF RoleState
    <2>2. [kind |-> k, repo |-> x.repo, status |-> status] \in Issue
      BY <1>2, <1>4 DEF Issue
    <2>3. IsStopped(k, Ended)
      BY <1>4, <2>1, <2>2 DEF IsStopped, Stop, Note, Item
    <2>4. role' = [role EXCEPT ![k] = Ended]
      BY <1>4 DEF Stop, Step, Item
    <2> QED BY <1>4, <2>1, <2>3, <2>4 DEF Turn
  <1>5. /\ Next0 \in RoleState /\ Next0.at = "next" /\ Next0.repo = None
        /\ Next0.step = 1 /\ Next0.todo = x.todo
    BY <1>1, Renewed
  <1>6. ASSUME Unusable(k), x.at \in Reading, UNCHANGED <<claims, found>>, Frame
        PROVE  \E y : Turn(k, y)
    <2>1. Drops(k, Next0)
      BY <1>5, <1>6 DEF Drops, Unusable, Note, Item
    <2>2. role' = [role EXCEPT ![k] = Next0]
      BY <1>6 DEF Unusable, Skip, Step, Item
    <2> QED BY <1>5, <1>6, <2>1, <2>2 DEF Turn
  <1>7. ASSUME NEW y, y \in RoleState, Step(k, y), Moves(k, y), Frame
        PROVE  \E z : Turn(k, z)
    BY <1>7 DEF Turn, Step
  <1>8. CASE Pick(k)
    <2>1. CASE x.todo = {} /\ Step(k, Ended)
      <3>1. Ended \in RoleState /\ Ended.at = "ended" /\ Ended.todo = {} /\ Ended.repo = None
        BY <1>1, <1>8, <2>1 DEF RoleState, Pick, Item
      <3>2. Ends(k, Ended)
        BY <1>8, <2>1, <3>1 DEF Ends, Pick, Item
      <3> QED BY <1>8, <2>1, <3>1, <3>2 DEF Turn, Pick, Step
    <2>2. ASSUME NEW r \in x.todo,
                 Step(k, [x EXCEPT !.at = "capture", !.repo = r, !.todo = @ \ {r}])
          PROVE  \E y : Turn(k, y)
      <3> DEFINE y == [x EXCEPT !.at = "capture", !.repo = r, !.todo = @ \ {r}]
      <3>1. /\ y \in RoleState /\ y.at = "capture" /\ y.repo = r /\ y.todo = x.todo \ {r}
            /\ y.step = 1
        BY <1>1, <1>8 DEF RoleState, Pick, Item
      <3>2. Picks(k, y)
        BY <1>8, <3>1 DEF Picks, Pick, Item
      <3>3. role' = [role EXCEPT ![k] = y]
        BY <2>2 DEF Step
      <3> QED BY <1>8, <3>1, <3>2, <3>3 DEF Turn, Pick
    <2> QED BY <1>8, <2>1, <2>2 DEF Pick, Item
  <1>9. CASE Capture(k)
    <2> DEFINE y == [x EXCEPT !.at = "check"]
    <2>1. x.at \in Reading /\ Frame /\ UNCHANGED <<claims, found>>
      BY <1>9 DEF Capture, Item, Reading
    <2>2. CASE Stop(k, "cancelled") \/ Stop(k, "timeout")
      BY <1>4, <2>1, <2>2 DEF Stops
    <2>3. CASE Unusable(k)
      BY <1>6, <2>1, <2>3
    <2>4. CASE source[x.repo][Url(k)] # 0 /\ Step(k, y) /\ UNCHANGED issues
      <3>1. /\ y \in RoleState /\ y.at = "check" /\ y.repo = x.repo /\ y.todo = x.todo
            /\ y.step = x.step
        BY <1>1 DEF RoleState
      <3>2. Moves(k, y)
        BY <1>2, <2>1, <2>4, <3>1 DEF Moves, Reading, Url, Item
      <3> HIDE DEF y
      <3> QED BY <1>7, <2>1, <2>4, <3>1, <3>2
    <2> QED BY <1>9, <2>2, <2>3, <2>4 DEF Capture, Item
  <1>10. CASE Check(k)
    <2> DEFINE y == [x EXCEPT !.at = "reserve"]
    <2>1. x.at = "check" /\ x.at \in Reading /\ Frame /\ UNCHANGED <<claims, found>>
      BY <1>10 DEF Check, Item, Reading
    <2>2. CASE Stop(k, "cancelled") \/ Stop(k, "timeout")
      BY <1>4, <2>1, <2>2 DEF Stops
    <2>3. CASE ~cancelled /\ Step(k, y) /\ UNCHANGED issues
      <3>1. /\ y \in RoleState /\ y.at = "reserve" /\ y.repo = x.repo /\ y.todo = x.todo
            /\ y.step = x.step
        BY <1>1 DEF RoleState
      <3>2. Moves(k, y)
        BY <1>2, <2>1, <2>3, <3>1 DEF Moves, Reading
      <3> HIDE DEF y
      <3> QED BY <1>7, <2>1, <2>3, <3>1, <3>2
    <2> QED BY <1>10, <2>2, <2>3 DEF Check, Item
  <1>11. CASE Reserve(k)
    <2> DEFINE y == [x EXCEPT !.at = "wait"]
    <2>1. x.at = "reserve" /\ x.at \in Reading /\ Frame /\ UNCHANGED <<claims, found>>
      BY <1>11 DEF Reserve, Item, Reading
    <2>2. CASE Stop(k, "budget")
      BY <1>4, <2>1, <2>2 DEF Stops
    <2>3. CASE Step(k, y) /\ UNCHANGED issues
      <3>1. /\ y \in RoleState /\ y.at = "wait" /\ y.repo = x.repo /\ y.todo = x.todo
            /\ y.step = x.step
        BY <1>1 DEF RoleState
      <3>2. Moves(k, y)
        BY <1>2, <2>1, <2>3, <3>1 DEF Moves, Reading
      <3> HIDE DEF y
      <3> QED BY <1>7, <2>1, <2>3, <3>1, <3>2
    <2> QED BY <1>11, <2>2, <2>3 DEF Reserve, Item
  <1>12. CASE GiveUp(k)
    <2>1. x.at \in Reading /\ Frame /\ UNCHANGED <<claims, found>>
      BY <1>12 DEF GiveUp, Item, Reading
    <2> QED BY <1>4, <1>12, <2>1 DEF GiveUp, Stops
  <1>13. CASE RateLimited(k)
    <2> DEFINE y == [x EXCEPT !.at = "check", !.tries = @ + 1]
    <2>1. x.at = "wait" /\ x.at \in Reading /\ Frame /\ UNCHANGED <<claims, found>>
      BY <1>13 DEF RateLimited, Item, Reading
    <2>2. CASE Unusable(k)
      BY <1>6, <2>1, <2>2
    <2>3. CASE x.tries < MaxRetries /\ Step(k, y) /\ UNCHANGED issues
      <3>1. x.tries + 1 \in 0 .. MaxRetries
        BY <1>2, <2>1, <2>3, LimitsAssumption
      <3>2. /\ y \in RoleState /\ y.at = "check" /\ y.repo = x.repo /\ y.todo = x.todo
            /\ y.step = x.step
        BY <1>1, <3>1 DEF RoleState
      <3>3. Moves(k, y)
        BY <1>2, <2>1, <2>3, <3>2 DEF Moves, Reading
      <3> HIDE DEF y
      <3> QED BY <1>7, <2>1, <2>3, <3>2, <3>3
    <2> QED BY <1>13, <2>2, <2>3 DEF RateLimited, Item
  <1>14. CASE Answered(k)
    <2> DEFINE y == [x EXCEPT !.at = "capture", !.step = @ + 1, !.tries = 0]
               r == x.repo
    <2>1. x.at = "wait" /\ x.at \in Reading /\ Frame
      BY <1>14 DEF Answered, Item, Reading
    <2>2. CASE Unusable(k) /\ UNCHANGED <<claims, found>>
      BY <1>6, <2>1, <2>2
    <2>3. CASE x.step < Len(Reads(k)) /\ Step(k, y) /\ UNCHANGED <<claims, issues, found>>
      <3>1. x.step + 1 \in 1 .. 2 /\ x.step + 1 <= Len(Reads(k))
        <4>1. Len(Reads(k)) = 1 \/ Len(Reads(k)) = 2
          BY ReadsFacts
        <4>2. x.step \in 1 .. 2 /\ x.step < Len(Reads(k))
          BY <1>2, <2>1, <2>3
        <4>3. \A a \in 1 .. 2, n \in {1, 2} : a < n => a + 1 \in 1 .. 2 /\ a + 1 <= n
          OBVIOUS
        <4> QED BY <4>1, <4>2, <4>3
      <3>2. /\ y \in RoleState /\ y.at = "capture" /\ y.repo = x.repo /\ y.todo = x.todo
            /\ y.step = x.step + 1
        BY <1>1, <1>3, <3>1 DEF RoleState
      <3>3. Moves(k, y)
        BY <1>2, <2>1, <2>3, <3>1, <3>2 DEF Moves, Reading
      <3> HIDE DEF y
      <3> QED BY <1>7, <2>1, <2>3, <3>2, <3>3
    <2>4. CASE /\ x.step = Len(Reads(k)) /\ Extracts(k, r, Subject(k, r))
               /\ claims' = claims \cup {ClaimOf(k, r, Subject(k, r))}
               /\ found' = [found EXCEPT ![r] = Subject(k, r)]
               /\ Skip(k) /\ UNCHANGED issues
      <3>1. Collects(k, Next0)
        BY <1>5, <2>1, <2>4 DEF Collects
      <3>2. role' = [role EXCEPT ![k] = Next0]
        BY <2>4 DEF Skip, Step, Item
      <3> QED BY <1>5, <2>1, <3>1, <3>2 DEF Turn
    <2> QED BY <1>14, <2>2, <2>3, <2>4 DEF Answered, Item
  <1> QED BY <1>8, <1>9, <1>10, <1>11, <1>12, <1>13, <1>14 DEF Read, Proceed

\* A cached claim whose sources are all current is the claim that its recordings give now.
LEMMA FreshRow ==
    ASSUME NEW c \in Claim, GoodRow(c), \A i \in DOMAIN c.read : Current(c, i)
    PROVE  c = ClaimOf(c.kind, c.repo, c.subject)
  <1>1. /\ c.kind \in Kinds /\ c.read \in Seq(Version) /\ DOMAIN c.read = DOMAIN Reads(c.kind)
        /\ c = [kind |-> c.kind, repo |-> c.repo, read |-> c.read, subject |-> c.subject]
    BY DEF Claim, GoodRow
  <1>2. \A i \in DOMAIN Reads(c.kind) : c.read[i] = source[c.repo][Reads(c.kind)[i]]
    BY <1>1 DEF Current
  <1>3. c.read = [i \in DOMAIN c.read |-> c.read[i]]
    <2>1. \A s \in Seq(Version) : s = [i \in DOMAIN s |-> s[i]]
      OBVIOUS
    <2> QED BY <1>1, <2>1
  <1>4. c.read = ReadOf(c.kind, c.repo)
    BY <1>1, <1>2, <1>3 DEF ReadOf
  <1> QED BY <1>1, <1>4 DEF ClaimOf

\* The cached artifact claims that a run reuses name the version now recorded.
LEMMA FreshArtifact ==
    ASSUME IndInv, NEW r \in Repos, Fresh(CachedArtifact(r)), ~Raises(CachedArtifact(r))
    PROVE  /\ CachedArtifact(r) # {}
           /\ \A c \in CachedArtifact(r) :
                /\ c \in Claim /\ c.kind = "artifact" /\ c.repo = r
                /\ c = ClaimOf(c.kind, c.repo, c.subject) /\ Extracts(c.kind, c.repo, c.subject)
                /\ c.subject = source[r]["hub"] /\ c.subject # 0
  <1>1. CachedArtifact(r) # {}
    BY DEF Fresh
  <1>2. SUFFICES ASSUME NEW c \in CachedArtifact(r)
                 PROVE  /\ c \in Claim /\ c.kind = "artifact" /\ c.repo = r
                        /\ c = ClaimOf(c.kind, c.repo, c.subject)
                        /\ Extracts(c.kind, c.repo, c.subject)
                        /\ c.subject = source[r]["hub"] /\ c.subject # 0
    BY <1>1
  <1>3. /\ c \in Claim /\ c.kind = "artifact" /\ c.repo = r /\ GoodRow(c)
    BY <1>2 DEF CachedArtifact, Rows, IndInv, CacheInv, TypeOK, IsLedger
  <1>4. \A i \in DOMAIN c.read : Current(c, i)
    BY <1>2 DEF Fresh
  <1>5. DOMAIN c.read = 1 .. 1 /\ Reads(c.kind)[1] = "hub" /\ c.subject = c.read[1]
    BY <1>3, ReadsFacts DEF GoodRow, Claim
  <1>6. 1 \in DOMAIN c.read /\ \A j \in 1 .. 1 - 1 : FALSE
    BY <1>5
  <1>7. source[r]["hub"] # 0
    BY <1>2, <1>3, <1>5, <1>6 DEF Raises
  <1> QED BY <1>3, <1>4, <1>5, <1>6, <1>7, FreshRow DEF GoodRow, Current

\* The cached claims that the other roles reuse are about the artifact found.
LEMMA FreshSpec ==
    ASSUME IndInv, NEW k \in Others, NEW r \in Specs(k), Fresh(CachedSpec(k, r))
    PROVE  /\ CachedSpec(k, r) # {}
           /\ \A c \in CachedSpec(k, r) :
                /\ c \in Claim /\ c.kind = k /\ c.repo = r
                /\ c = ClaimOf(c.kind, c.repo, c.subject) /\ Extracts(c.kind, c.repo, c.subject)
                /\ c.subject = found[r] /\ c.subject # 0
  <1>1. CachedSpec(k, r) # {}
    BY DEF Fresh
  <1>2. SUFFICES ASSUME NEW c \in CachedSpec(k, r)
                 PROVE  /\ c \in Claim /\ c.kind = k /\ c.repo = r
                        /\ c = ClaimOf(c.kind, c.repo, c.subject)
                        /\ Extracts(c.kind, c.repo, c.subject)
                        /\ c.subject = found[r] /\ c.subject # 0
    BY <1>1
  <1>3. /\ c \in Claim /\ c.kind = k /\ c.repo = r /\ GoodRow(c)
        /\ c.subject = found[r] /\ c.subject # 0
    BY <1>2 DEF CachedSpec, Rows, IndInv, CacheInv, TypeOK, IsLedger
  <1>4. \A i \in DOMAIN c.read : Current(c, i)
    BY <1>2 DEF Fresh
  <1> QED BY <1>3, <1>4, FreshRow DEF GoodRow

\* What is collected stays what the recordings give: cached claims are reused only when they are.
LEMMA ClaimsStep == IndInv /\ [Next]_vars => ClaimsInv'
  <1> SUFFICES ASSUME IndInv, [Next]_vars PROVE ClaimsInv'
    OBVIOUS
  <1>1. ASSUME NEW r \in Repos, NEW u \in Urls,
               Rerecord(r, u)
        PROVE ClaimsInv'
    BY <1>1 DEF Rerecord, ClaimsInv
  <1>2. CASE Cancel
    BY <1>2 DEF Cancel, world, IndInv, ClaimsInv, ClaimOf, ReadOf, Extracts
  <1>3. CASE Deadline
    BY <1>3 DEF Deadline, world, IndInv, ClaimsInv, ClaimOf, ReadOf, Extracts
  <1>4. CASE Start
    <2>1. CASE EndRun
      BY <2>1 DEF EndRun, ClaimsInv
    <2>2. CASE ~EndRun
      <3> DEFINE reused == {r \in Repos : Fresh(CachedArtifact(r))}
      <3>1. /\ ~\E r \in Repos : Raises(CachedArtifact(r))
            /\ claims' = UNION {CachedArtifact(r) : r \in reused}
            /\ found' = [r \in Repos |-> IF r \in reused THEN source[r]["hub"] ELSE 0]
            /\ UNCHANGED source
        BY <1>4, <2>2 DEF Start
      <3>2. \A r \in reused :
              /\ CachedArtifact(r) # {}
              /\ \A c \in CachedArtifact(r) :
                   /\ c.kind = "artifact" /\ c.repo = r
                   /\ c = ClaimOf(c.kind, c.repo, c.subject)
                   /\ Extracts(c.kind, c.repo, c.subject)
                   /\ c.subject = source[r]["hub"] /\ c.subject # 0
        BY <3>1, FreshArtifact
      <3>3. \A c \in claims' : \E r \in reused : c \in CachedArtifact(r)
        BY <3>1
      <3>4. \A r \in reused : \A c \in CachedArtifact(r) : c \in claims'
        BY <3>1
      <3>5. \A r \in Repos : found'[r] = IF r \in reused THEN source[r]["hub"] ELSE 0
        BY <3>1
      <3> HIDE DEF reused
      <3>6. reused \subseteq Repos
        BY DEF reused
      <3>7. \A c \in claims' : /\ c = ClaimOf(c.kind, c.repo, c.subject)
                               /\ Extracts(c.kind, c.repo, c.subject)
                               /\ c.subject # 0 /\ found'[c.repo] = c.subject
        BY <3>2, <3>3, <3>5, <3>6
      <3>8. \A r \in Repos : found'[r] # 0 =>
              /\ found'[r] = source[r]["hub"]
              /\ \E a \in claims' : a.kind = "artifact" /\ a.repo = r /\ a.subject = found'[r]
        BY <3>2, <3>4, <3>5
      <3> QED BY <3>1, <3>7, <3>8 DEF ClaimsInv, ClaimOf, ReadOf, Extracts
    <2> QED BY <2>1, <2>2
  <1>5. CASE StartRefused
    BY <1>5 DEF StartRefused, world, IndInv, ClaimsInv, ClaimOf, ReadOf, Extracts
  <1>6. CASE Crash
    BY <1>6 DEF Crash, EndRun, IndInv, ClaimsInv, ClaimOf, ReadOf, Extracts
  <1>7. ASSUME NEW k \in Kinds,
               Read(k)
        PROVE ClaimsInv'
    <2>1. PICK y : Turn(k, y)
      BY <1>7, Turns
    <2>2. UNCHANGED <<source, phase>>
      BY <2>1 DEF Turn, world
    <2>3. CASE UNCHANGED <<claims, found>>
      BY <2>2, <2>3 DEF IndInv, ClaimsInv, ClaimOf, ReadOf, Extracts
    <2>4. CASE Collects(k, y)
      <3> DEFINE r == role[k].repo
                 v == Subject(k, r)
      <3>1. /\ r \in Repos /\ Extracts(k, r, v)
            /\ claims' = claims \cup {ClaimOf(k, r, v)} /\ found' = [found EXCEPT ![r] = v]
        BY <2>4 DEF Collects, IndInv, RoleInv, Reading
      <3>2. found \in [Repos -> Version] /\ \A c \in claims : c.repo \in Repos
        BY DEF IndInv, TypeOK, Claim
      <3>3. phase # "idle" => v # 0 /\ v = source[r]["hub"] /\ (k = "artifact" \/ found[r] = v)
        <4>1. CASE k = "artifact"
          <5>1. Reads(k)[role[k].step] = "hub"
            BY <2>4, <4>1, ReadsFacts DEF Collects
          <5>2. source[r][Reads(k)[role[k].step]] # 0
            BY <2>4 DEF Collects, IndInv, RoleInv, Reading, Url, Item
          <5> QED BY <4>1, <5>1, <5>2 DEF Subject
        <4>2. CASE k # "artifact"
          <5>1. found[r] # 0
            BY <2>4, <4>2 DEF Collects, IndInv, RoleInv, Reading, Others, Kinds
          <5> QED BY <3>1, <4>2, <5>1 DEF Subject, IndInv, ClaimsInv
        <4> QED BY <4>1, <4>2
      <3> HIDE DEF r, v
      <3>4. /\ ClaimOf(k, r, v).kind = k /\ ClaimOf(k, r, v).repo = r
            /\ ClaimOf(k, r, v).subject = v
        BY DEF ClaimOf
      <3>5. \A q \in Repos : found'[q] = IF q = r THEN v ELSE found[q]
        BY <3>1, <3>2
      <3>6. phase # "idle" => \A c \in claims' :
                /\ c = ClaimOf(c.kind, c.repo, c.subject)
                /\ Extracts(c.kind, c.repo, c.subject)
                /\ c.subject # 0 /\ found'[c.repo] = c.subject
        BY <3>1, <3>2, <3>3, <3>4, <3>5 DEF IndInv, ClaimsInv
      <3>7. phase # "idle" => \A q \in Repos : found'[q] # 0 =>
                /\ found'[q] = source[q]["hub"]
                /\ \E a \in claims' : a.kind = "artifact" /\ a.repo = q /\ a.subject = found'[q]
        BY <3>1, <3>2, <3>3, <3>4, <3>5 DEF IndInv, ClaimsInv
      <3> QED BY <2>2, <3>6, <3>7 DEF ClaimsInv, ClaimOf, ReadOf, Extracts
    <2> QED BY <2>1, <2>3, <2>4 DEF Turn, Picks, Ends, Moves, IsStopped, Drops
  <1>8. CASE StartRoles
    <2>1. CASE EndRun
      BY <2>1 DEF EndRun, ClaimsInv
    <2>2. CASE ~EndRun
      <3>1. /\ phase = "artifact" /\ UNCHANGED <<source, found>>
            /\ claims' = claims \cup UNION {UNION {CachedSpec(k, r) : r \in Reused(k)} : k \in Others}
        BY <1>8, <2>2 DEF StartRoles
      <3>2. \A c \in claims' : c \in claims \/ \E k \in Others : \E r \in Reused(k) : c \in CachedSpec(k, r)
        BY <3>1
      <3>3. \A k \in Others : \A r \in Reused(k) : \A c \in CachedSpec(k, r) :
                   /\ c.kind = k /\ c.repo = r
                   /\ c = ClaimOf(c.kind, c.repo, c.subject)
                   /\ Extracts(c.kind, c.repo, c.subject)
                   /\ c.subject = found[r] /\ c.subject # 0
        BY FreshSpec DEF Reused
      <3>4. \A c \in claims' : /\ c = ClaimOf(c.kind, c.repo, c.subject)
                               /\ Extracts(c.kind, c.repo, c.subject)
                               /\ c.subject # 0 /\ found[c.repo] = c.subject
        BY <3>1, <3>2, <3>3 DEF IndInv, ClaimsInv
      <3>5. claims \subseteq claims'
        BY <3>1
      <3> QED BY <3>1, <3>4, <3>5 DEF IndInv, ClaimsInv, ClaimOf, ReadOf, Extracts
    <2> QED BY <2>1, <2>2
  <1>9. CASE Merge
    BY <1>9 DEF Merge, EndRun, IndInv, ClaimsInv, ClaimOf, ReadOf, Extracts
  <1>10. CASE PutLedger
    BY <1>10 DEF PutLedger, EndRun, IndInv, ClaimsInv, ClaimOf, ReadOf, Extracts
  <1>11. CASE PutCatalog
    BY <1>11 DEF PutCatalog, EndRun, IndInv, ClaimsInv, ClaimOf, ReadOf, Extracts
  <1>12. CASE UNCHANGED vars
    BY <1>12 DEF vars, world, IndInv, ClaimsInv, ClaimOf, ReadOf, Extracts
  <1> QED BY <1>1, <1>2, <1>3, <1>4, <1>5, <1>6, <1>7, <1>8, <1>9, <1>10, <1>11, <1>12 DEF Next, Run

\* What a turn leaves behind: the role's work only shrinks, what is collected only grows, and
\* only artifact discovery finds anything.
LEMMA TurnFacts ==
    ASSUME IndInv, NEW k \in Kinds, NEW y, Turn(k, y)
    PROVE  /\ role[k].at \in {"next"} \cup Reading /\ y.todo \subseteq role[k].todo
           /\ claims \subseteq claims' /\ issues \subseteq issues'
           /\ \A q \in Repos : found[q] # 0 => found'[q] # 0
           /\ k # "artifact" => found' = found
           /\ role'[k] = y /\ \A j \in Kinds : j # k => role'[j] = role[j]
           /\ DOMAIN role' = Kinds
  <1>1. role \in [Kinds -> RoleState] /\ found \in [Repos -> Version]
    BY DEF IndInv, TypeOK
  <1>2. role'[k] = y /\ (\A j \in Kinds : j # k => role'[j] = role[j]) /\ DOMAIN role' = Kinds
    BY <1>1 DEF Turn
  <1>3. role[k].at \in {"next"} \cup Reading /\ y.todo \subseteq role[k].todo
    BY DEF Turn, Picks, Ends, Moves, IsStopped, Drops, Collects, Reading
  <1>4. claims \subseteq claims' /\ issues \subseteq issues'
    BY DEF Turn, Picks, Ends, Moves, IsStopped, Drops, Collects
  <1>5. CASE UNCHANGED found
    BY <1>2, <1>3, <1>4, <1>5
  <1>6. CASE Collects(k, y)
    <2> DEFINE r == role[k].repo
               v == Subject(k, r)
    <2>1. r \in Repos /\ found' = [found EXCEPT ![r] = v]
      BY <1>6 DEF Collects, IndInv, RoleInv, Reading
    <2>2. CASE k = "artifact"
      <3>1. Reads(k)[role[k].step] = "hub"
        BY <1>6, <2>2, ReadsFacts DEF Collects
      <3>2. source[r][Reads(k)[role[k].step]] # 0
        BY <1>6 DEF Collects, IndInv, RoleInv, Reading, Url, Item
      <3>3. v # 0
        BY <2>2, <3>1, <3>2 DEF Subject
      <3> HIDE DEF r, v
      <3> QED BY <1>1, <1>2, <1>3, <1>4, <2>1, <2>2, <3>3
    <2>3. CASE k # "artifact"
      <3>1. v = found[r]
        BY <2>3 DEF Subject
      <3> HIDE DEF r, v
      <3>2. found' = found
        BY <1>1, <2>1, <3>1
      <3> QED BY <1>2, <1>3, <1>4, <3>2
    <2> QED BY <2>2, <2>3
  <1> QED BY <1>5, <1>6 DEF Turn, Picks, Ends, Moves, IsStopped, Drops

\* The roles work when their phase has come, on specifications whose artifact was found.
LEMMA RoleStep == IndInv /\ [Next]_vars => RoleInv'
  <1> SUFFICES ASSUME IndInv, [Next]_vars PROVE RoleInv'
    OBVIOUS
  <1>1. ASSUME NEW r \in Repos, NEW u \in Urls,
               Rerecord(r, u)
        PROVE RoleInv'
    <2>1. phase = "idle" /\ UNCHANGED <<phase, role, found>>
      BY <1>1 DEF Rerecord
    <2>2. \A j \in Kinds : role[j] = Idle
      BY <2>1 DEF IndInv, RoleInv
    <2> QED BY <2>1, <2>2 DEF RoleInv, Idle, Reading, Others, Kinds
  <1>2. CASE Cancel
    BY <1>2 DEF Cancel, world, IndInv, RoleInv, Url, Item
  <1>3. CASE Deadline
    BY <1>3 DEF Deadline, world, IndInv, RoleInv, Url, Item
  <1>4. CASE Start
    <2>1. ASSUME role' = [j \in Kinds |-> Idle], phase' \in {"idle", "ledger"} PROVE RoleInv'
      BY <2>1 DEF RoleInv, Idle, Reading, Others, Kinds
    <2>2. CASE EndRun
      BY <2>1, <2>2 DEF EndRun
    <2>3. CASE ~EndRun
      <3>1. PICK todo : role' = [role EXCEPT !["artifact"] = [Idle EXCEPT !.at = "next", !.todo = todo]]
        BY <1>4, <2>3 DEF Start
      <3>2. phase' = "artifact" /\ phase = "idle"
        BY <1>4, <2>3 DEF Start
      <3>3. role \in [Kinds -> RoleState] /\ \A j \in Kinds : role[j] = Idle
        BY <3>2 DEF IndInv, TypeOK, RoleInv
      <3>4. /\ role'["artifact"].at = "next" /\ role'["artifact"].repo = None
            /\ role'["artifact"].step = 1 /\ \A j \in Others : role'[j] = Idle
        BY <3>1, <3>3 DEF Idle, Kinds, Others
      <3> QED BY <3>2, <3>4 DEF RoleInv, Idle, Reading, Others, Kinds
    <2> QED BY <2>2, <2>3
  <1>5. CASE StartRefused
    BY <1>5 DEF StartRefused, world, IndInv, RoleInv, Url, Item
  <1>6. CASE Crash
    <2>1. ASSUME role' = [j \in Kinds |-> Idle], phase' \in {"idle", "ledger"} PROVE RoleInv'
      BY <2>1 DEF RoleInv, Idle, Reading, Others, Kinds
    <2> QED BY <1>6, <2>1 DEF Crash, EndRun
  <1>7. ASSUME NEW k \in Kinds,
               Read(k)
        PROVE RoleInv'
    <2>1. PICK y : Turn(k, y)
      BY <1>7, Turns
    <2>2. /\ role[k].at \in {"next"} \cup Reading /\ y.todo \subseteq role[k].todo
          /\ \A q \in Repos : found[q] # 0 => found'[q] # 0
          /\ role'[k] = y /\ \A j \in Kinds : j # k => role'[j] = role[j]
      BY <2>1, TurnFacts
    <2>3. UNCHANGED <<source, phase>> /\ y \in RoleState
      BY <2>1 DEF Turn, world
    <2>4. /\ phase' \in {"idle", "ledger", "catalog"} => \A j \in Kinds : role'[j] = Idle
          /\ phase' = "artifact" => \A j \in Others : role'[j] = Idle
          /\ phase' = "roles" => role'["artifact"] = Idle
      <3>1. role[k] # Idle
        BY <2>2 DEF Idle, Reading
      <3> QED BY <2>2, <2>3, <3>1 DEF IndInv, RoleInv, Kinds, Others
    <2> DEFINE Good(j, x) ==
          /\ x.at = "next" => x.repo = None /\ x.step = 1
          /\ x.at \in Reading => x.repo \in Repos /\ x.step <= Len(Reads(j))
          /\ x.at \in Reading \ {"capture"} => source[x.repo][Reads(j)[x.step]] # 0
          /\ j \in Others => /\ \A r \in x.todo : found'[r] # 0
                             /\ x.at \in Reading => found'[x.repo] # 0
    <2>5. \A j \in Kinds : /\ role[j].todo \subseteq Repos
                           /\ role[j].at \in Reading => role[j].repo \in Repos
      BY DEF IndInv, TypeOK, RoleInv, RoleState
    <2>6. \A j \in Kinds : Good(j, role[j])
      BY <2>2, <2>5 DEF IndInv, RoleInv, Url, Item
    <2>7. Good(k, y)
      <3>1. CASE Picks(k, y)
        <4>1. y.repo \in Repos /\ y.step = 1 /\ y.at = "capture" /\ y.repo \in role[k].todo
          BY <2>5, <3>1 DEF Picks
        <4>2. 1 <= Len(Reads(k))
          BY ReadsFacts
        <4> QED BY <2>2, <2>6, <4>1, <4>2
      <3>2. CASE Ends(k, y) \/ IsStopped(k, y)
        BY <2>2, <2>6, <3>2 DEF Ends, IsStopped, Reading
      <3>3. CASE Moves(k, y)
        <4>1. /\ role[k].at \in Reading /\ y.at \in Reading
              /\ y.repo = role[k].repo /\ y.todo = role[k].todo /\ y.step <= Len(Reads(k))
              /\ y.at # "capture" => source[y.repo][Reads(k)[y.step]] # 0
          BY <3>3 DEF Moves
        <4> QED BY <2>6, <4>1 DEF Reading
      <3>4. CASE Drops(k, y) \/ Collects(k, y)
        BY <2>2, <2>6, <3>4 DEF Drops, Collects, Reading
      <3> QED BY <2>1, <3>1, <3>2, <3>3, <3>4 DEF Turn
    <2>8. \A j \in Kinds : Good(j, role'[j])
      BY <2>2, <2>6, <2>7
    <2> QED BY <2>3, <2>4, <2>8 DEF RoleInv, Url, Item
  <1>8. CASE StartRoles
    <2>1. ASSUME role' = [j \in Kinds |-> Idle], phase' \in {"idle", "ledger"} PROVE RoleInv'
      BY <2>1 DEF RoleInv, Idle, Reading, Others, Kinds
    <2>2. CASE EndRun
      BY <2>1, <2>2 DEF EndRun
    <2>3. CASE ~EndRun
      <3> DEFINE todo(k) == {r \in Specs(k) \ Reused(k) : found[r] # 0}
      <3>1. /\ phase' = "roles" /\ UNCHANGED found
            /\ role' = [k \in Kinds |-> IF k = "artifact" THEN Idle
                                        ELSE [Idle EXCEPT !.at = "next", !.todo = todo(k)]]
        BY <1>8, <2>3 DEF StartRoles
      <3>2. \A k \in Others : \A r \in todo(k) : found[r] # 0
        OBVIOUS
      <3> HIDE DEF todo
      <3>3. /\ role'["artifact"] = Idle
            /\ \A k \in Others : /\ role'[k].at = "next" /\ role'[k].repo = None
                                 /\ role'[k].step = 1 /\ role'[k].todo = todo(k)
        BY <3>1 DEF Idle, Kinds, Others
      <3> QED BY <3>1, <3>2, <3>3 DEF RoleInv, Idle, Reading, Others, Kinds
    <2> QED BY <2>2, <2>3
  <1>9. CASE Merge
    <2>1. ASSUME role' = [j \in Kinds |-> Idle], phase' \in {"idle", "ledger"} PROVE RoleInv'
      BY <2>1 DEF RoleInv, Idle, Reading, Others, Kinds
    <2> QED BY <1>9, <2>1 DEF Merge, EndRun
  <1>10. CASE PutLedger
    <2>1. ASSUME role' = [j \in Kinds |-> Idle], phase' \in {"idle", "ledger"} PROVE RoleInv'
      BY <2>1 DEF RoleInv, Idle, Reading, Others, Kinds
    <2>2. CASE EndRun
      BY <2>1, <2>2 DEF EndRun
    <2>3. CASE ~EndRun
      BY <1>10, <2>3 DEF PutLedger, IndInv, RoleInv, Url, Item
    <2> QED BY <2>2, <2>3
  <1>11. CASE PutCatalog
    <2>1. ASSUME role' = [j \in Kinds |-> Idle], phase' \in {"idle", "ledger"} PROVE RoleInv'
      BY <2>1 DEF RoleInv, Idle, Reading, Others, Kinds
    <2> QED BY <1>11, <2>1 DEF PutCatalog, EndRun
  <1>12. CASE UNCHANGED vars
    BY <1>12 DEF vars, world, IndInv, RoleInv, Url, Item
  <1> QED BY <1>1, <1>2, <1>3, <1>4, <1>5, <1>6, <1>7, <1>8, <1>9, <1>10, <1>11, <1>12 DEF Next, Run

\* No specification is lost on the way from the plan to its claim or its issue.
LEMMA ProgressStep == IndInv /\ [Next]_vars => ProgressInv'
  <1> SUFFICES ASSUME IndInv, [Next]_vars PROVE ProgressInv'
    OBVIOUS
  <1>1. ASSUME NEW r \in Repos, NEW u \in Urls,
               Rerecord(r, u)
        PROVE ProgressInv'
    BY <1>1 DEF Rerecord, IndInv, ProgressInv, Stopping, Waiting, Settled
  <1>2. CASE Cancel
    BY <1>2 DEF Cancel, IndInv, ProgressInv, Stopping, Waiting, Settled
  <1>3. CASE Deadline
    BY <1>3 DEF Deadline, IndInv, ProgressInv, Stopping, Waiting, Settled
  <1>4. CASE Start
    <2>1. ASSUME role' = [j \in Kinds |-> Idle], phase' \in {"idle", "ledger"}
          PROVE  ProgressInv'
      BY <2>1 DEF ProgressInv, Idle
    <2>2. CASE EndRun
      BY <2>1, <2>2 DEF EndRun
    <2>3. CASE ~EndRun
      <3> DEFINE reused == {r \in Repos : Fresh(CachedArtifact(r))}
      <3>1. /\ ~\E r \in Repos : Raises(CachedArtifact(r))
            /\ claims' = UNION {CachedArtifact(r) : r \in reused}
            /\ role' = [role EXCEPT !["artifact"] =
                          [Idle EXCEPT !.at = "next", !.todo = Repos \ reused]]
        BY <1>4, <2>3 DEF Start
      <3>2. \A r \in reused : \E c \in claims' : c.kind = "artifact" /\ c.repo = r
        BY <3>1, FreshArtifact
      <3> HIDE DEF reused
      <3>3. phase' = "artifact" /\ phase = "idle"
        BY <1>4, <2>3 DEF Start
      <3>4. role \in [Kinds -> RoleState] /\ \A j \in Kinds : role[j] = Idle
        BY <3>3 DEF IndInv, TypeOK, RoleInv
      <3>5. /\ role'["artifact"].at = "next" /\ role'["artifact"].todo = Repos \ reused
            /\ \A j \in Others : role'[j] = Idle
        BY <3>1, <3>4 DEF Idle, Kinds, Others
      <3>6. \A r \in Repos : Waiting("artifact", r)' \/ Settled("artifact", r)'
        BY <3>2, <3>5 DEF Waiting, Settled
      <3> QED BY <3>3, <3>5, <3>6 DEF ProgressInv, Idle, Others, Kinds
    <2> QED BY <2>2, <2>3
  <1>5. CASE StartRefused
    BY <1>5 DEF StartRefused, IndInv, ProgressInv, Stopping, Waiting, Settled
  <1>6. CASE Crash
    <2>1. ASSUME role' = [j \in Kinds |-> Idle], phase' \in {"idle", "ledger"}
          PROVE  ProgressInv'
      BY <2>1 DEF ProgressInv, Idle
    <2> QED BY <1>6, <2>1 DEF Crash, EndRun
  <1>7. ASSUME NEW k \in Kinds,
               Read(k)
        PROVE ProgressInv'
    <2>1. PICK y : Turn(k, y)
      BY <1>7, Turns
    <2>2. /\ role[k].at \in {"next"} \cup Reading
          /\ claims \subseteq claims' /\ issues \subseteq issues'
          /\ k # "artifact" => found' = found
          /\ role'[k] = y /\ \A j \in Kinds : j # k => role'[j] = role[j]
      BY <2>1, TurnFacts
    <2>3. UNCHANGED phase
      BY <2>1 DEF Turn
    <2>4. \A j \in Kinds, r \in Repos : Settled(j, r) => Settled(j, r)'
      BY <2>2 DEF Settled, Stopping
    <2>5. \A r \in Repos : Waiting(k, r) => Waiting(k, r)' \/ Settled(k, r)'
      <3> SUFFICES ASSUME NEW r \in Repos, Waiting(k, r)
                   PROVE  Waiting(k, r)' \/ Settled(k, r)'
        OBVIOUS
      <3>1. (role[k].at = "next" => role[k].repo = None) /\ None \notin Repos
        BY PlanAssumption DEF IndInv, RoleInv
      <3>2. CASE Picks(k, y)
        BY <2>2, <3>1, <3>2 DEF Picks, Waiting
      <3>3. CASE Ends(k, y)
        BY <3>1, <3>3 DEF Ends, Waiting
      <3>4. CASE Moves(k, y)
        BY <2>2, <3>4 DEF Moves, Waiting
      <3>5. CASE IsStopped(k, y)
        BY <3>5 DEF IsStopped, Settled, Stopping
      <3>6. CASE Drops(k, y)
        <4>1. CASE r \in role[k].todo
          BY <2>2, <3>6, <4>1 DEF Drops, Waiting
        <4>2. CASE role[k].repo = r
          <5> DEFINE i == [kind |-> k, repo |-> r, status |-> "unusable"]
          <5>1. i \in issues'
            BY <3>6, <4>2 DEF Drops
          <5>2. i.kind = k /\ i.repo = r /\ i.status = "unusable"
            OBVIOUS
          <5> HIDE DEF i
          <5> QED BY <5>1, <5>2 DEF Settled
        <4> QED BY <4>1, <4>2 DEF Waiting
      <3>7. CASE Collects(k, y)
        <4>1. CASE r \in role[k].todo
          BY <2>2, <3>7, <4>1 DEF Collects, Waiting
        <4>2. CASE role[k].repo = r
          <5> DEFINE c == ClaimOf(k, r, Subject(k, r))
          <5>1. c \in claims'
            BY <3>7, <4>2 DEF Collects
          <5>2. c.kind = k /\ c.repo = r
            BY DEF ClaimOf
          <5> HIDE DEF c
          <5> QED BY <5>1, <5>2 DEF Settled
        <4> QED BY <4>1, <4>2 DEF Waiting
      <3> QED BY <2>1, <3>2, <3>3, <3>4, <3>5, <3>6, <3>7 DEF Turn
    <2>6. \A j \in Kinds, r \in Repos :
            Waiting(j, r) \/ Settled(j, r) => Waiting(j, r)' \/ Settled(j, r)'
      BY <2>2, <2>4, <2>5 DEF Waiting
    <2>7. phase = "roles" => k # "artifact"
      BY <2>2 DEF IndInv, RoleInv, Idle, Reading
    <2>8. y.at = "ended" => Stopping' \/ (y.todo = {} /\ y.repo = None)
      BY <2>1 DEF Turn, Picks, Ends, Moves, IsStopped, Drops, Collects, Stopping, Reading
    <2>9. Stopping => Stopping'
      BY <2>2 DEF Stopping
    <2>10. "artifact" \in Kinds /\ \A j \in Others : j \in Kinds /\ Specs(j) \subseteq Repos
      BY PlanAssumption DEF Others, Kinds, Specs
    <2>11. \A j \in Kinds : role'[j].at = "ended" =>
             Stopping' \/ (role'[j].todo = {} /\ role'[j].repo = None)
      BY <2>2, <2>8, <2>9 DEF IndInv, ProgressInv
    <2>12. phase = "artifact" =>
             \A r \in Repos : Waiting("artifact", r)' \/ Settled("artifact", r)'
      BY <2>6, <2>10 DEF IndInv, ProgressInv
    <2>13. ASSUME phase = "roles"
           PROVE /\ \A r \in Repos : Settled("artifact", r)'
                 /\ \A j \in Others : \A r \in Specs(j) :
                      found'[r] # 0 => Waiting(j, r)' \/ Settled(j, r)'
      BY <2>2, <2>4, <2>6, <2>7, <2>10, <2>13 DEF IndInv, ProgressInv
    <2> QED BY <2>3, <2>11, <2>12, <2>13 DEF ProgressInv
  <1>8. CASE StartRoles
    <2>1. ASSUME role' = [j \in Kinds |-> Idle], phase' \in {"idle", "ledger"}
          PROVE  ProgressInv'
      BY <2>1 DEF ProgressInv, Idle
    <2>2. CASE EndRun
      BY <2>1, <2>2 DEF EndRun
    <2>3. CASE ~EndRun
      <3> DEFINE todo(k) == {r \in Specs(k) \ Reused(k) : found[r] # 0}
      <3>1. /\ phase = "artifact" /\ phase' = "roles" /\ role["artifact"].at = "ended"
            /\ UNCHANGED <<found, issues>>
            /\ claims' = claims \cup UNION {UNION {CachedSpec(k, r) : r \in Reused(k)} : k \in Others}
            /\ role' = [k \in Kinds |-> IF k = "artifact" THEN Idle
                                        ELSE [Idle EXCEPT !.at = "next", !.todo = todo(k)]]
        BY <1>8, <2>3 DEF StartRoles
      <3>2. \A k \in Others : \A r \in Reused(k) : \E c \in claims' : c.kind = k /\ c.repo = r
        <4> SUFFICES ASSUME NEW k \in Others, NEW r \in Reused(k)
                     PROVE  \E c \in claims' : c.kind = k /\ c.repo = r
          OBVIOUS
        <4>1. PICK c \in CachedSpec(k, r) : c.kind = k /\ c.repo = r
          BY FreshSpec DEF Reused
        <4>2. c \in UNION {CachedSpec(k, q) : q \in Reused(k)}
          BY <4>1
        <4>3. c \in claims'
          BY ZenonT(60), <3>1, <4>2
        <4> QED BY <4>1, <4>3
      <3>3. claims \subseteq claims'
        BY <3>1
      <3>4. \A k \in Others : \A r \in Specs(k) : found[r] # 0 => r \in todo(k) \/ r \in Reused(k)
        OBVIOUS
      <3> HIDE DEF todo
      <3>5. /\ role'["artifact"] = Idle
            /\ \A k \in Others : role'[k].at = "next" /\ role'[k].todo = todo(k)
        BY <3>1 DEF Idle, Kinds, Others
      <3>6. \A r \in Repos : Settled("artifact", r)
        BY <3>1, PlanAssumption DEF IndInv, ProgressInv, Waiting, Settled, Kinds
      <3>7. \A r \in Repos : Settled("artifact", r)'
        BY <3>1, <3>3, <3>6 DEF Settled, Stopping
      <3>8. \A k \in Others : \A r \in Specs(k) :
              found'[r] # 0 => Waiting(k, r)' \/ Settled(k, r)'
        <4> SUFFICES ASSUME NEW k \in Others, NEW r \in Specs(k), found[r] # 0
                     PROVE  Waiting(k, r)' \/ Settled(k, r)'
          BY <3>1
        <4>1. CASE r \in todo(k)
          BY <3>5, <4>1 DEF Waiting
        <4>2. CASE r \in Reused(k)
          BY <3>2, <4>2 DEF Settled
        <4> QED BY <3>4, <4>1, <4>2
      <3> QED BY <3>1, <3>5, <3>7, <3>8 DEF ProgressInv, Idle, Others, Kinds
    <2> QED BY <2>2, <2>3
  <1>9. CASE Merge
    <2>1. ASSUME role' = [j \in Kinds |-> Idle], phase' \in {"idle", "ledger"}
          PROVE  ProgressInv'
      BY <2>1 DEF ProgressInv, Idle
    <2> QED BY <1>9, <2>1 DEF Merge, EndRun
  <1>10. CASE PutLedger
    <2>1. ASSUME role' = [j \in Kinds |-> Idle], phase' \in {"idle", "ledger"}
          PROVE  ProgressInv'
      BY <2>1 DEF ProgressInv, Idle
    <2>2. CASE EndRun
      BY <2>1, <2>2 DEF EndRun
    <2>3. CASE ~EndRun
      <3>1. phase' = "catalog" /\ phase = "ledger" /\ UNCHANGED role
        BY <1>10, <2>3 DEF PutLedger
      <3> QED BY <3>1 DEF IndInv, RoleInv, ProgressInv, Idle
    <2> QED BY <2>2, <2>3
  <1>11. CASE PutCatalog
    <2>1. ASSUME role' = [j \in Kinds |-> Idle], phase' \in {"idle", "ledger"}
          PROVE  ProgressInv'
      BY <2>1 DEF ProgressInv, Idle
    <2> QED BY <1>11, <2>1 DEF PutCatalog, EndRun
  <1>12. CASE UNCHANGED vars
    BY <1>12 DEF vars, IndInv, ProgressInv, Stopping, Waiting, Settled
  <1> QED BY <1>1, <1>2, <1>3, <1>4, <1>5, <1>6, <1>7, <1>8, <1>9, <1>10, <1>11, <1>12 DEF Next, Run

\* The cache is a ledger that was published.
LEMMA CacheStep == IndInv /\ [Next]_vars => CacheInv'
  <1> SUFFICES ASSUME IndInv, [Next]_vars PROVE CacheInv'
    OBVIOUS
  <1>1. ASSUME NEW r \in Repos, NEW u \in Urls,
               Rerecord(r, u)
        PROVE CacheInv'
    BY <1>1 DEF Rerecord, IndInv, CacheInv, GoodRow, Extracts
  <1>2. CASE Cancel
    BY <1>2 DEF Cancel, IndInv, CacheInv, GoodRow, Extracts
  <1>3. CASE Deadline
    BY <1>3 DEF Deadline, IndInv, CacheInv, GoodRow, Extracts
  <1>4. CASE Start
    BY <1>4 DEF Start, EndRun, IndInv, CacheInv, GoodRow, Extracts
  <1>5. CASE StartRefused
    BY <1>5 DEF StartRefused, IndInv, CacheInv, GoodRow, Extracts
  <1>6. CASE Crash
    BY <1>6 DEF Crash, EndRun, IndInv, CacheInv, GoodRow, Extracts
  <1>7. ASSUME NEW k \in Kinds,
               Read(k)
        PROVE CacheInv'
    <2>1. PICK y : Turn(k, y)
      BY <1>7, Turns
    <2> QED BY <2>1 DEF Turn, IndInv, CacheInv, GoodRow, Extracts
  <1>8. CASE StartRoles
    BY <1>8 DEF StartRoles, EndRun, IndInv, CacheInv, GoodRow, Extracts
  <1>9. CASE Merge
    BY <1>9 DEF Merge, EndRun, IndInv, CacheInv, GoodRow, Extracts
  <1>10. CASE PutLedger
    BY <1>10 DEF PutLedger, EndRun, IndInv, CacheInv, GoodRow, Extracts
  <1>11. CASE PutCatalog
    BY <1>11 DEF PutCatalog, EndRun, IndInv, CacheInv, GoodRow, Extracts, DraftInv
  <1>12. CASE UNCHANGED vars
    BY <1>12 DEF vars, IndInv, CacheInv, GoodRow, Extracts
  <1> QED BY <1>1, <1>2, <1>3, <1>4, <1>5, <1>6, <1>7, <1>8, <1>9, <1>10, <1>11, <1>12 DEF Next, Run

\* A check separates every read from the one before.
LEMMA LateStep == IndInv /\ [Next]_vars => LateInv'
  <1> SUFFICES ASSUME IndInv, [Next]_vars PROVE LateInv'
    OBVIOUS
  <1>1. ASSUME NEW r \in Repos, NEW u \in Urls,
               Rerecord(r, u)
        PROVE LateInv'
    BY <1>1 DEF Rerecord, world, IndInv, LateInv
  <1>2. CASE Cancel
    BY <1>2 DEF Cancel, world, IndInv, LateInv
  <1>3. CASE Deadline
    BY <1>3 DEF Deadline, world, IndInv, LateInv
  <1>4. CASE Start
    <2>1. ASSUME late' = [k \in Kinds |-> 0] PROVE LateInv'
      BY <2>1 DEF LateInv
    <2>2. CASE EndRun
      BY <2>1, <2>2 DEF EndRun
    <2>3. CASE ~EndRun
      <3>1. UNCHANGED <<late, cancelled>> /\ \A k \in Kinds : role'[k].at # "reserve"
        <4>1. PICK todo : role' = [role EXCEPT !["artifact"] = [Idle EXCEPT !.at = "next", !.todo = todo]]
          BY <1>4, <2>3 DEF Start
        <4>2. role \in [Kinds -> RoleState] /\ \A j \in Kinds : role[j] = Idle
          BY <1>4 DEF Start, IndInv, TypeOK, RoleInv
        <4>3. role'["artifact"].at = "next" /\ \A j \in Others : role'[j].at = "idle"
          BY <4>1, <4>2 DEF Idle, Kinds, Others
        <4> QED BY <1>4, <2>3, <4>3 DEF Start, Kinds, Others
      <3> QED BY <3>1 DEF IndInv, LateInv
    <2> QED BY <2>2, <2>3
  <1>5. CASE StartRefused
    BY <1>5 DEF StartRefused, world, IndInv, LateInv
  <1>6. CASE Crash
    BY <1>6 DEF Crash, EndRun, LateInv
  <1>7. ASSUME NEW k \in Kinds,
               Read(k)
        PROVE LateInv'
    <2>1. PICK y : Turn(k, y)
      BY <1>7, Turns
    <2>2. role'[k] = y /\ (\A j \in Kinds : j # k => role'[j] = role[j]) /\ UNCHANGED cancelled
      BY <2>1, TurnFacts DEF Turn, world
    <2>3. y.at = "reserve" => ~cancelled
      BY <2>1 DEF Turn, Picks, Ends, Moves, IsStopped, Drops, Collects
    <2>4. late \in [Kinds -> Nat]
      BY DEF IndInv, TypeOK
    <2>5. CASE UNCHANGED late
      BY <2>2, <2>3, <2>5 DEF IndInv, LateInv
    <2>6. CASE late' # late
      <3>1. /\ cancelled /\ role[k].at = "reserve" /\ late' = [late EXCEPT ![k] = late[k] + 1]
            /\ role' = [role EXCEPT ![k] = [role[k] EXCEPT !.at = "wait"]]
        BY <1>7, <2>6 DEF Read, Proceed, Pick, Capture, Check, Reserve, GiveUp, RateLimited, Answered,
                       Step, Item
      <3>2. role'[k].at = "wait"
        BY <3>1 DEF IndInv, TypeOK, RoleState
      <3>3. late[k] = 0
        BY <3>1 DEF IndInv, LateInv
      <3>4. late'[k] = 1 /\ \A j \in Kinds : j # k => late'[j] = late[j]
        BY <2>4, <3>1, <3>3
      <3> QED BY <2>2, <3>1, <3>2, <3>4 DEF IndInv, LateInv
    <2> QED BY <2>5, <2>6
  <1>8. CASE StartRoles
    <2>1. ASSUME late' = [k \in Kinds |-> 0] PROVE LateInv'
      BY <2>1 DEF LateInv
    <2>2. CASE EndRun
      BY <2>1, <2>2 DEF EndRun
    <2>3. CASE ~EndRun
      <3>1. UNCHANGED <<late, cancelled>> /\ \A k \in Kinds : role'[k].at # "reserve"
        <4> DEFINE todo(k) == {r \in Specs(k) \ Reused(k) : found[r] # 0}
        <4>1. role' = [k \in Kinds |-> IF k = "artifact" THEN Idle
                                        ELSE [Idle EXCEPT !.at = "next", !.todo = todo(k)]]
          BY <1>8, <2>3 DEF StartRoles
        <4> HIDE DEF todo
        <4>2. \A k \in Kinds : role'[k].at \in {"idle", "next"}
          BY <4>1 DEF Idle
        <4> QED BY <1>8, <2>3, <4>2 DEF StartRoles
      <3> QED BY <3>1 DEF IndInv, LateInv
    <2> QED BY <2>2, <2>3
  <1>9. CASE Merge
    <2>1. ASSUME late' = [k \in Kinds |-> 0] PROVE LateInv'
      BY <2>1 DEF LateInv
    <2>2. CASE EndRun
      BY <2>1, <2>2 DEF EndRun
    <2>3. CASE ~EndRun
      <3>1. UNCHANGED <<late, cancelled>> /\ \A k \in Kinds : role'[k].at # "reserve"
        BY <1>9, <2>3 DEF Merge, Idle
      <3> QED BY <3>1 DEF IndInv, LateInv
    <2> QED BY <2>2, <2>3
  <1>10. CASE PutLedger
    <2>1. ASSUME late' = [k \in Kinds |-> 0] PROVE LateInv'
      BY <2>1 DEF LateInv
    <2>2. CASE EndRun
      BY <2>1, <2>2 DEF EndRun
    <2>3. CASE ~EndRun
      <3>1. UNCHANGED <<late, cancelled>> /\ \A k \in Kinds : role'[k].at # "reserve"
        BY <1>10, <2>3 DEF PutLedger, IndInv, RoleInv, Idle
      <3> QED BY <3>1 DEF IndInv, LateInv
    <2> QED BY <2>2, <2>3
  <1>11. CASE PutCatalog
    BY <1>11 DEF PutCatalog, EndRun, LateInv
  <1>12. CASE UNCHANGED vars
    BY <1>12 DEF vars, world, IndInv, LateInv
  <1> QED BY <1>1, <1>2, <1>3, <1>4, <1>5, <1>6, <1>7, <1>8, <1>9, <1>10, <1>11, <1>12 DEF Next, Run

\* What both roles leave behind, once they ended and nothing stopped them, is a valid and
\* complete ledger.
LEMMA MergedLedger ==
    ASSUME IndInv, phase = "roles", \A k \in Others : role[k].at = "ended", MayPublish
    PROVE  LET l == [source |-> source, claims |-> claims, issues |-> issues]
           IN  IsLedger(l) /\ Valid(l) /\ Complete(l) /\ \A c \in l.claims : GoodRow(c)
  <1> DEFINE l == [source |-> source, claims |-> claims, issues |-> issues]
  <1>1. l.source = source /\ l.claims = claims /\ l.issues = issues
    OBVIOUS
  <1> HIDE DEF l
  <1>2. IsLedger(l)
    BY <1>1 DEF IndInv, TypeOK, IsLedger
  <1>3. \A c \in claims : /\ c \in Claim /\ c.kind \in Kinds /\ c.repo \in Repos
                          /\ c = ClaimOf(c.kind, c.repo, c.subject)
                          /\ Extracts(c.kind, c.repo, c.subject)
                          /\ c.subject # 0 /\ found[c.repo] = c.subject
                          /\ c.subject = source[c.repo]["hub"]
    BY DEF IndInv, TypeOK, ClaimsInv, Claim
  <1>4. \A c \in claims : /\ DOMAIN c.read = DOMAIN Reads(c.kind)
                          /\ \A i \in DOMAIN c.read : c.read[i] = source[c.repo][Reads(c.kind)[i]]
    <2> SUFFICES ASSUME NEW c \in claims
                 PROVE  /\ DOMAIN c.read = DOMAIN Reads(c.kind)
                        /\ \A i \in DOMAIN c.read : c.read[i] = source[c.repo][Reads(c.kind)[i]]
      OBVIOUS
    <2>1. c.read = ReadOf(c.kind, c.repo)
      <3>1. ClaimOf(c.kind, c.repo, c.subject).read = ReadOf(c.kind, c.repo)
        BY DEF ClaimOf
      <3> QED BY <1>3, <3>1
    <2> QED BY <2>1 DEF ReadOf
  <1>5. \A c \in claims : GoodRow(c)
    <2> SUFFICES ASSUME NEW c \in claims PROVE GoodRow(c)
      OBVIOUS
    <2>1. CASE c.kind = "artifact"
      <3>1. DOMAIN c.read = 1 .. 1 /\ Reads(c.kind)[1] = "hub"
        BY <1>3, <1>4, <2>1, ReadsFacts
      <3>2. c.read[1] = source[c.repo]["hub"]
        BY <1>4, <3>1
      <3> QED BY <1>3, <1>4, <3>2 DEF GoodRow
    <2>2. CASE c.kind # "artifact"
      BY <1>3, <1>4, <2>2 DEF GoodRow
    <2> QED BY <2>1, <2>2
  <1>6. Valid(l)
    <2> SUFFICES ASSUME NEW c \in claims PROVE Derived(l, c)
      BY <1>1 DEF Valid
    <2>1. PICK a \in claims : a.kind = "artifact" /\ a.repo = c.repo /\ a.subject = found[c.repo]
      BY <1>3 DEF IndInv, ClaimsInv
    <2> QED BY <1>1, <1>3, <2>1 DEF Derived, Artifacts
  <1>7. ~Stopping
    BY DEF MayPublish, Stopping
  <1>8. \A k \in Kinds, r \in Repos : Settled(k, r) => Holds(l, k, r) \/ Explained(l, k, r)
    BY <1>1, <1>4, <1>7 DEF Settled, Holds, Explained
  <1>9. \A k \in Others : k \in Kinds /\ role[k].todo = {} /\ role[k].repo = None
    BY <1>7 DEF IndInv, ProgressInv, Others, Kinds
  <1>10. \A k \in Others : Specs(k) \subseteq Repos
    BY PlanAssumption DEF Specs
  <1>11. None \notin Repos /\ "artifact" \in Kinds
    BY PlanAssumption DEF Kinds
  <1>12. \A r \in Repos : Holds(l, "artifact", r) => found[r] # 0
    BY <1>1, <1>3 DEF Holds
  <1>13. \A r \in Repos : Holds(l, "artifact", r) \/ Explained(l, "artifact", r)
    BY <1>8, <1>11 DEF IndInv, ProgressInv
  <1>14. \A k \in Others : \A r \in Specs(k) :
           Holds(l, "artifact", r) => Holds(l, k, r) \/ Explained(l, k, r)
    <2> SUFFICES ASSUME NEW k \in Others, NEW r \in Specs(k), Holds(l, "artifact", r)
                 PROVE  Holds(l, k, r) \/ Explained(l, k, r)
      OBVIOUS
    <2>1. r \in Repos /\ r # None /\ found[r] # 0
      BY <1>10, <1>11, <1>12
    <2>2. Waiting(k, r) \/ Settled(k, r)
      BY <2>1 DEF IndInv, ProgressInv
    <2> QED BY <1>8, <1>9, <2>1, <2>2 DEF Waiting
  <1> QED BY <1>1, <1>2, <1>5, <1>6, <1>13, <1>14 DEF Complete, l

\* What is published is what was merged, and was stored as a ledger before.
LEMMA DraftStep == IndInv /\ [Next]_vars => DraftInv'
  <1> SUFFICES ASSUME IndInv, [Next]_vars PROVE DraftInv'
    OBVIOUS
  <1>a. ASSUME UNCHANGED <<phase, draft, source, ledgers, catalogs>>
        PROVE  DraftInv'
    <2>1. phase \in {"ledger", "catalog"} => Valid(draft)'
      BY <1>a DEF IndInv, DraftInv, Valid, Derived, ClaimOf, ReadOf, Extracts, Artifacts
    <2> QED BY <1>a, <2>1 DEF IndInv, DraftInv, PublishedIsComplete, LedgerBeforeCatalog
  <1>b. ASSUME phase' = "idle" \/ phase' = "artifact" \/ phase' = "roles",
               UNCHANGED <<ledgers, catalogs>>
        PROVE  DraftInv'
    BY <1>b DEF IndInv, DraftInv, PublishedIsComplete, LedgerBeforeCatalog
  <1>1. ASSUME NEW r \in Repos, NEW u \in Urls,
               Rerecord(r, u)
        PROVE DraftInv'
    BY <1>b, <1>1 DEF Rerecord, store
  <1>2. CASE Cancel
    BY <1>a, <1>2 DEF Cancel, world, store
  <1>3. CASE Deadline
    BY <1>a, <1>3 DEF Deadline, world, store
  <1>4. CASE Start
    BY <1>b, <1>4 DEF Start, EndRun, store
  <1>5. CASE StartRefused
    BY <1>a, <1>5 DEF StartRefused, world, store
  <1>6. CASE Crash
    BY <1>b, <1>6 DEF Crash, EndRun, store
  <1>7. ASSUME NEW k \in Kinds,
               Read(k)
        PROVE DraftInv'
    <2>1. PICK y : Turn(k, y)
      BY <1>7, Turns
    <2> QED BY <1>a, <2>1 DEF Turn, world, store
  <1>8. CASE StartRoles
    BY <1>b, <1>8 DEF StartRoles, EndRun, store
  <1>9. CASE Merge
    <2>1. CASE EndRun
      BY <1>b, <1>9, <2>1 DEF Merge, EndRun, store
    <2>2. CASE ~EndRun
      <3>1. /\ phase' = "ledger" /\ UNCHANGED <<source, ledgers, catalogs>>
            /\ phase = "roles" /\ (\A k \in Others : role[k].at = "ended") /\ MayPublish
            /\ draft' = [source |-> source, claims |-> claims, issues |-> issues]
        BY <1>9, <2>2 DEF Merge, store
      <3>2. /\ IsLedger(draft') /\ Valid(draft') /\ Complete(draft')
            /\ \A c \in draft'.claims : GoodRow(c)
        BY <3>1, MergedLedger
      <3>3. Valid(draft)'
        BY <3>1, <3>2 DEF Valid, Derived, ClaimOf, ReadOf, Extracts, Artifacts
      <3> QED BY <3>1, <3>2, <3>3 DEF IndInv, DraftInv, PublishedIsComplete, LedgerBeforeCatalog
    <2> QED BY <2>1, <2>2
  <1>10. CASE PutLedger
    <2>1. CASE EndRun /\ UNCHANGED ledgers
      BY <1>b, <1>10, <2>1 DEF PutLedger, EndRun
    <2>2. CASE ~(EndRun /\ UNCHANGED ledgers)
      <3>1. /\ phase = "ledger" /\ phase' = "catalog" /\ UNCHANGED <<source, draft, catalogs>>
            /\ ledgers' = ledgers \cup {draft}
        BY <1>10, <2>2 DEF PutLedger
      <3>2. Valid(draft)'
        BY <3>1 DEF IndInv, DraftInv, Valid, Derived, ClaimOf, ReadOf, Extracts, Artifacts
      <3> QED BY <3>1, <3>2 DEF IndInv, DraftInv, PublishedIsComplete, LedgerBeforeCatalog
    <2> QED BY <2>1, <2>2
  <1>11. CASE PutCatalog
    <2>1. /\ phase = "catalog" /\ phase' = "idle" /\ UNCHANGED ledgers
          /\ catalogs' = catalogs \cup {draft}
      BY <1>11 DEF PutCatalog, EndRun
    <2> QED BY <2>1 DEF IndInv, DraftInv, PublishedIsComplete, LedgerBeforeCatalog
  <1>12. CASE UNCHANGED vars
    BY <1>a, <1>12 DEF vars, world, store
  <1> QED BY <1>1, <1>2, <1>3, <1>4, <1>5, <1>6, <1>7, <1>8, <1>9, <1>10, <1>11, <1>12 DEF Next, Run

\* A claim read from the recordings is a claim.
LEMMA ClaimTyped ==
    ASSUME IndInv, NEW k \in Kinds, NEW r \in Repos, NEW v \in Version
    PROVE  ClaimOf(k, r, v) \in Claim
  <1>1. source[r] \in [Urls -> Version]
    BY DEF IndInv, TypeOK
  <1>2. \A i \in 1 .. Len(Reads(k)) : source[r][Reads(k)[i]] \in Version
    BY <1>1, ReadsFacts
  <1>3. ReadOf(k, r) = [i \in 1 .. Len(Reads(k)) |-> source[r][Reads(k)[i]]] /\ Len(Reads(k)) \in Nat
    BY ReadsFacts DEF ReadOf
  <1>4. ReadOf(k, r) \in Seq(Version)
    BY <1>2, <1>3
  <1> QED BY <1>4 DEF ClaimOf, Claim

\* Types are kept.
LEMMA TypeStep == IndInv /\ [Next]_vars => TypeOK'
  <1> SUFFICES ASSUME IndInv, [Next]_vars PROVE TypeOK'
    OBVIOUS
  <1>0. TypeOK /\ 0 \in Version /\ 0 \in 0 .. MaxCalls /\ Idle \in RoleState
    BY LimitsAssumption DEF IndInv, Version, Idle, RoleState
  <1>a. ASSUME EndRun,
               source' \in [Repos -> [Urls -> Version]],
               age' \in [Repos -> [Urls -> {"future", "fresh", "expired"}]], cancelled' \in BOOLEAN,
               cache' = None \/ IsLedger(cache'), \A l \in ledgers' \cup catalogs' : IsLedger(l),
               runs' \in 0 .. MaxRuns, changes' \in 0 .. MaxChanges
        PROVE  TypeOK'
    <2>1. /\ phase' = "idle" /\ role' \in [Kinds -> RoleState] /\ calls' \in 0 .. MaxCalls
          /\ found' \in [Repos -> Version] /\ (\A c \in claims' : c \in Claim)
          /\ issues' \subseteq Issue /\ draft' = None /\ late' \in [Kinds -> Nat]
      BY <1>0, <1>a DEF EndRun
    <2>2. elapsed' \in BOOLEAN
      BY <1>a DEF EndRun
    <2>3. \A l \in {cache', draft'} : l = None \/ IsLedger(l)
      BY <1>a, <2>1
    <2> QED BY <1>a, <2>1, <2>2, <2>3 DEF TypeOK
  <1>b. ASSUME UNCHANGED <<source, age, cancelled, elapsed, calls, found, issues, cache, draft, ledgers,
                           catalogs, changes, late>>,
               phase' \in {"idle", "artifact", "roles", "ledger", "catalog"},
               role' \in [Kinds -> RoleState], \A c \in claims' : c \in Claim, runs' \in 0 .. MaxRuns
        PROVE  TypeOK'
    <2>1. cancelled' \in BOOLEAN /\ elapsed' \in BOOLEAN
      BY <1>0, <1>b DEF TypeOK
    <2> QED BY <1>0, <1>b, <2>1 DEF TypeOK
  <1>1. ASSUME NEW r \in Repos, NEW u \in Urls,
               Rerecord(r, u)
        PROVE TypeOK'
    <2>a. /\ source \in [Repos -> [Urls -> Version]] /\ source[r] \in [Urls -> Version]
          /\ age \in [Repos -> [Urls -> {"future", "fresh", "expired"}]]
          /\ age[r] \in [Urls -> {"future", "fresh", "expired"}]
      BY <1>0, <1>1 DEF TypeOK
    <2>1. source' \in [Repos -> [Urls -> Version]]
      <3>1. source' = source \/ \E v \in Version : source' = [source EXCEPT ![r][u] = v]
        BY <1>1 DEF Rerecord
      <3>2. \A v \in Version : [source[r] EXCEPT ![u] = v] \in [Urls -> Version]
        BY <2>a
      <3> QED BY <2>a, <3>1, <3>2
    <2>2. age' \in [Repos -> [Urls -> {"future", "fresh", "expired"}]]
      <3>1. \E a \in {"future", "fresh", "expired"} : age' = [age EXCEPT ![r][u] = a]
        BY <1>1 DEF Rerecord
      <3>2. \A a \in {"future", "fresh", "expired"} :
              [age[r] EXCEPT ![u] = a] \in [Urls -> {"future", "fresh", "expired"}]
        BY <2>a
      <3> QED BY <2>a, <3>1, <3>2
    <2>3. changes' \in 0 .. MaxChanges
      BY <1>0, <1>1, LimitsAssumption DEF Rerecord, TypeOK
    <2>4. cancelled' \in BOOLEAN /\ elapsed' \in BOOLEAN
      BY <1>0, <1>1 DEF Rerecord, TypeOK
    <2> QED BY <1>0, <1>1, <2>1, <2>2, <2>3, <2>4 DEF Rerecord, TypeOK, store
  <1>2. CASE Cancel
    <2>1. cancelled' \in BOOLEAN /\ elapsed' \in BOOLEAN
      BY <1>0, <1>2 DEF Cancel, TypeOK
    <2> QED BY <1>0, <1>2, <2>1 DEF Cancel, TypeOK, store
  <1>3. CASE Deadline
    <2>1. cancelled' \in BOOLEAN /\ elapsed' \in BOOLEAN
      BY <1>0, <1>3 DEF Deadline, TypeOK
    <2> QED BY <1>0, <1>3, <2>1 DEF Deadline, TypeOK, store
  <1>4. CASE Start
    <2>1. /\ runs' \in 0 .. MaxRuns /\ cancelled' \in BOOLEAN
          /\ UNCHANGED <<source, age, cancelled, cache, ledgers, catalogs, changes>>
      BY <1>0, <1>4, LimitsAssumption DEF Start, TypeOK, store
    <2>2. CASE EndRun
      BY <1>0, <1>a, <2>1, <2>2 DEF TypeOK
    <2>3. CASE ~EndRun
      <3> DEFINE reused == {r \in Repos : Fresh(CachedArtifact(r))}
                 new == [Idle EXCEPT !.at = "next", !.todo = Repos \ reused]
      <3>1. /\ ~\E r \in Repos : Raises(CachedArtifact(r))
            /\ phase' = "artifact"
            /\ claims' = UNION {CachedArtifact(r) : r \in reused}
            /\ found' = [r \in Repos |-> IF r \in reused THEN source[r]["hub"] ELSE 0]
            /\ role' = [role EXCEPT !["artifact"] = new]
            /\ UNCHANGED <<elapsed, calls, issues, draft, late>>
        BY <1>4, <2>3 DEF Start
      <3>2. \A c \in claims' : c \in Claim
        BY <3>1, FreshArtifact
      <3>3. found' \in [Repos -> Version]
        <4>1. \A r \in Repos : source[r]["hub"] \in Version
          BY <1>0 DEF TypeOK, Urls
        <4> HIDE DEF reused
        <4> QED BY <1>0, <3>1, <4>1
      <3>4. reused \subseteq Repos
        OBVIOUS
      <3> HIDE DEF reused
      <3>5. new \in RoleState
        BY <1>0, <3>4 DEF Idle, RoleState
      <3> HIDE DEF new
      <3>6. role' \in [Kinds -> RoleState]
        BY <1>0, <3>1, <3>5 DEF TypeOK
      <3>7. cancelled' \in BOOLEAN /\ elapsed' \in BOOLEAN
        BY <1>0, <2>1, <3>1 DEF TypeOK
      <3> QED BY <1>0, <2>1, <3>1, <3>2, <3>3, <3>6, <3>7 DEF TypeOK
    <2> QED BY <2>2, <2>3
  <1>5. CASE StartRefused
    <2>1. runs' \in 0 .. MaxRuns
      BY <1>0, <1>5, LimitsAssumption DEF StartRefused, TypeOK
    <2> QED BY <1>0, <1>b, <1>5, <2>1 DEF StartRefused, TypeOK, world, store
  <1>6. CASE Crash
    <2>1. cancelled' \in BOOLEAN
      BY <1>6 DEF Crash
    <2> QED BY <1>0, <1>a, <1>6, <2>1 DEF Crash, TypeOK, store
  <1>7. ASSUME NEW k \in Kinds,
               Read(k)
        PROVE TypeOK'
    <2>1. PICK y : Turn(k, y)
      BY <1>7, Turns
    <2>2. /\ role' \in [Kinds -> RoleState]
          /\ UNCHANGED <<source, age, cancelled, elapsed, phase, cache, draft, ledgers, catalogs, runs,
                         changes>>
      BY <1>0, <2>1 DEF Turn, TypeOK, world, store
    <2>3. issues' \subseteq Issue
      <3>1. CASE Drops(k, y)
        <4>1. role[k].repo \in Repos
          BY <3>1 DEF Drops, IndInv, RoleInv
        <4>2. [kind |-> k, repo |-> role[k].repo, status |-> "unusable"] \in Issue
          BY <4>1 DEF Issue
        <4> QED BY <1>0, <3>1, <4>2 DEF Drops, TypeOK
      <3>2. CASE ~Drops(k, y)
        BY <1>0, <2>1, <3>2 DEF Turn, Picks, Ends, Moves, IsStopped, Collects, TypeOK
      <3> QED BY <3>1, <3>2
    <2>4. found' \in [Repos -> Version] /\ \A c \in claims' : c \in Claim
      <3>1. CASE Collects(k, y)
        <4> DEFINE r == role[k].repo
                   v == Subject(k, r)
        <4>1. /\ r \in Repos /\ claims' = claims \cup {ClaimOf(k, r, v)}
              /\ found' = [found EXCEPT ![r] = v]
          BY <3>1 DEF Collects, IndInv, RoleInv, Reading
        <4>2. v \in Version
          BY <1>0, <4>1 DEF Subject, TypeOK, Urls
        <4> HIDE DEF r, v
        <4>3. ClaimOf(k, r, v) \in Claim
          BY <4>1, <4>2, ClaimTyped
        <4> QED BY <1>0, <4>1, <4>2, <4>3 DEF TypeOK
      <3>2. CASE ~Collects(k, y)
        BY <1>0, <2>1, <3>2 DEF Turn, Picks, Ends, Moves, IsStopped, Drops, TypeOK
      <3> QED BY <3>1, <3>2
    <2>5. calls' \in 0 .. MaxCalls /\ late' \in [Kinds -> Nat]
      <3>1. calls \in 0 .. MaxCalls /\ late \in [Kinds -> Nat]
        BY <1>0 DEF TypeOK
      <3>2. CASE Reserve(k)
        <4>1. calls' \in 0 .. MaxCalls
          BY <3>1, <3>2, LimitsAssumption DEF Reserve, HasCall
        <4>2. late' = late \/ late' = [late EXCEPT ![k] = late[k] + 1]
          BY <3>2 DEF Reserve
        <4>3. late' \in [Kinds -> Nat]
          BY <3>1, <4>2
        <4> QED BY <4>1, <4>3
      <3>3. CASE ~Reserve(k)
        BY <1>7, <3>1, <3>3 DEF Read, Proceed, Pick, Capture, Check, GiveUp, RateLimited, Answered
      <3> QED BY <3>2, <3>3
    <2>6. cancelled' \in BOOLEAN /\ elapsed' \in BOOLEAN
      BY <1>0, <2>2 DEF TypeOK
    <2> QED BY <1>0, <2>2, <2>3, <2>4, <2>5, <2>6 DEF TypeOK
  <1>8. CASE StartRoles
    <2>1. /\ runs' \in 0 .. MaxRuns /\ cancelled' \in BOOLEAN
          /\ UNCHANGED <<source, age, cancelled, cache, ledgers, catalogs, runs, changes>>
      BY <1>0, <1>8 DEF StartRoles, TypeOK, store
    <2>2. CASE EndRun
      BY <1>0, <1>a, <2>1, <2>2 DEF TypeOK
    <2>3. CASE ~EndRun
      <3> DEFINE todo(k) == {r \in Specs(k) \ Reused(k) : found[r] # 0}
      <3>1. /\ phase' = "roles" /\ UNCHANGED <<elapsed, calls, found, issues, draft, late>>
            /\ claims' = claims \cup UNION {UNION {CachedSpec(k, r) : r \in Reused(k)} : k \in Others}
            /\ role' = [k \in Kinds |-> IF k = "artifact" THEN Idle
                                        ELSE [Idle EXCEPT !.at = "next", !.todo = todo(k)]]
        BY <1>8, <2>3 DEF StartRoles
      <3>2. \A k \in Others : \A r \in Reused(k) : \A c \in CachedSpec(k, r) : c \in Claim
        BY FreshSpec DEF Reused
      <3>3. \A c \in claims' : c \in Claim
        <4>1. claims' = claims \cup UNION {UNION {CachedSpec(k, r) : r \in Reused(k)} : k \in Others}
          BY <3>1
        <4>2. \A c \in claims' :
                c \in claims \/ \E k \in Others : \E r \in Reused(k) : c \in CachedSpec(k, r)
          BY <4>1
        <4> QED BY <1>0, <3>2, <4>2 DEF TypeOK
      <3>4. \A k \in Kinds : todo(k) \subseteq Repos
        BY PlanAssumption DEF Specs
      <3> HIDE DEF todo
      <3>5. \A k \in Kinds : [Idle EXCEPT !.at = "next", !.todo = todo(k)] \in RoleState
        BY <1>0, <3>4 DEF Idle, RoleState
      <3>6. role' \in [Kinds -> RoleState]
        BY <1>0, <3>1, <3>5
      <3> QED BY <1>b, <2>1, <3>1, <3>3, <3>6
    <2> QED BY <2>2, <2>3
  <1>9. CASE Merge
    <2>1. /\ runs' \in 0 .. MaxRuns /\ cancelled' \in BOOLEAN
          /\ UNCHANGED <<source, age, cancelled, cache, ledgers, catalogs, runs, changes>>
      BY <1>0, <1>9 DEF Merge, TypeOK, store
    <2>2. CASE EndRun
      BY <1>0, <1>a, <2>1, <2>2 DEF TypeOK
    <2>3. CASE ~EndRun
      <3>1. /\ phase' = "ledger" /\ UNCHANGED <<elapsed, calls, found, claims, issues, late>>
            /\ role' = [k \in Kinds |-> Idle]
            /\ draft' = [source |-> source, claims |-> claims, issues |-> issues]
        BY <1>9, <2>3 DEF Merge
      <3>2. IsLedger(draft')
        <4>1. draft'.source = source /\ draft'.claims = claims /\ draft'.issues = issues
          BY <3>1
        <4> QED BY <1>0, <4>1 DEF TypeOK, IsLedger
      <3>3. cancelled' \in BOOLEAN /\ elapsed' \in BOOLEAN
        BY <1>0, <2>1, <3>1 DEF TypeOK
      <3>4. role' \in [Kinds -> RoleState]
        BY <1>0, <3>1
      <3>5. \A l \in {cache', draft'} : l = None \/ IsLedger(l)
        BY <1>0, <2>1, <3>2 DEF TypeOK
      <3> QED BY <1>0, <2>1, <3>1, <3>3, <3>4, <3>5 DEF TypeOK
    <2> QED BY <2>2, <2>3
  <1>10. CASE PutLedger
    <2>1. /\ runs' \in 0 .. MaxRuns /\ cancelled' \in BOOLEAN
          /\ UNCHANGED <<source, age, cancelled, cache, catalogs, runs, changes>>
      BY <1>0, <1>10 DEF PutLedger, TypeOK
    <2>2. \A l \in ledgers' \cup catalogs' : IsLedger(l)
      BY <1>0, <1>10 DEF PutLedger, TypeOK, IndInv, DraftInv
    <2>3. CASE EndRun
      BY <1>0, <1>a, <2>1, <2>2, <2>3 DEF TypeOK
    <2>4. CASE ~EndRun
      <3>1. phase' = "catalog" /\ UNCHANGED <<elapsed, calls, role, found, claims, issues, draft, late>>
        BY <1>10, <2>4 DEF PutLedger
      <3>2. cancelled' \in BOOLEAN /\ elapsed' \in BOOLEAN
        BY <1>0, <2>1, <3>1 DEF TypeOK
      <3> QED BY <1>0, <2>1, <2>2, <3>1, <3>2 DEF TypeOK
    <2> QED BY <2>3, <2>4
  <1>11. CASE PutCatalog
    <2>1. /\ runs' \in 0 .. MaxRuns /\ cancelled' \in BOOLEAN
          /\ UNCHANGED <<source, age, cancelled, ledgers, runs, changes>>
      BY <1>0, <1>11 DEF PutCatalog, TypeOK
    <2>2. IsLedger(draft) /\ cache' = draft /\ catalogs' = catalogs \cup {draft} /\ EndRun
      BY <1>11 DEF PutCatalog, IndInv, DraftInv
    <2>3. \A l \in ledgers' \cup catalogs' : IsLedger(l)
      BY <1>0, <2>1, <2>2 DEF TypeOK
    <2> QED BY <1>0, <1>a, <2>1, <2>2, <2>3 DEF TypeOK
  <1>12. CASE UNCHANGED vars
    BY <1>0, <1>b, <1>12 DEF vars, TypeOK, world, store
  <1> QED BY <1>1, <1>2, <1>3, <1>4, <1>5, <1>6, <1>7, <1>8, <1>9, <1>10, <1>11, <1>12 DEF Next, Run

-----------------------------------------------------------------------------
(* What is proved of research *)

\* At first nothing is cached, collected or published.
LEMMA IndInit == Init => IndInv
  <1> SUFFICES ASSUME Init PROVE IndInv
    OBVIOUS
  <1>1. \A k \in Kinds : role[k] = Idle
    BY DEF Init
  <1>2. TypeOK
    <2>1. 0 \in Version /\ 1 \in Version /\ 0 \in 0 .. MaxCalls /\ Idle \in RoleState
      BY LimitsAssumption DEF Version, Idle, RoleState
    <2>2. 0 \in 0 .. MaxRuns /\ 0 \in 0 .. MaxChanges
      BY LimitsAssumption
    <2>3. cancelled \in BOOLEAN /\ elapsed \in BOOLEAN
      BY DEF Init
    <2> QED BY <2>1, <2>2, <2>3 DEF Init, TypeOK
  <1>3. RoleInv
    BY <1>1 DEF Init, RoleInv, Idle, Reading, Others, Kinds
  <1>4. CacheInv /\ ClaimsInv /\ LateInv
    BY DEF Init, CacheInv, ClaimsInv, LateInv
  <1>5. ProgressInv
    BY <1>1 DEF Init, ProgressInv, Idle
  <1>6. DraftInv
    BY DEF Init, DraftInv, PublishedIsComplete, LedgerBeforeCatalog
  <1> QED BY <1>2, <1>3, <1>4, <1>5, <1>6 DEF IndInv

\* Roles, claims, cache and draft agree in every reachable state of the research service.
THEOREM Inductive == Spec => []IndInv
  <1>1. IndInv /\ [Next]_vars => IndInv'
    BY TypeStep, CacheStep, RoleStep, ClaimsStep, ProgressStep, DraftStep, LateStep DEF IndInv
  <1> QED BY IndInit, <1>1, PTL DEF Spec

\* PublicResearch.run publishes only complete snapshots, derived from the recordings and
\* stored ledger first, whatever its two concurrent roles, the cache, cancellation, the budget
\* and crashes do; a cancelled role starts at most the read whose check had passed.
THEOREM SafeResearch == Spec => []ResearchSafety
  <1>1. IndInv => ResearchSafety
    <2> SUFFICES ASSUME IndInv PROVE ResearchSafety
      OBVIOUS
    <2>1. MergeIsValid
      BY DEF IndInv, DraftInv, MergeIsValid
    <2>2. OneLateReadPerRole
      BY DEF IndInv, TypeOK, LateInv, OneLateReadPerRole
    <2> QED BY <2>1, <2>2 DEF IndInv, DraftInv, ResearchSafety
  <1> QED BY Inductive, <1>1, PTL

-----------------------------------------------------------------------------
(* Numbers *)

\* A set of numbers has a least one.
LEMMA LeastExists ==
    ASSUME NEW T, T \subseteq Nat, T # {}
    PROVE  \E x \in T : \A y \in T : x <= y
  <1>1. PICK x \in T : \A y \in T : ~(<<y, x>> \in OpToRel(<, Nat))
    BY NatLessThanWellFounded, WFMin, Zenon
  <1>2. \A y \in T : ~(y < x)
    BY <1>1 DEF OpToRel
  <1> QED BY <1>2

-----------------------------------------------------------------------------
(* The selector *)

\* What the catalog says about configurations and workflows, and a filter result in hand.
SelectTypes ==
    /\ models \in [Configs -> Shapes] /\ workflow \in Workflows
    /\ clock \in 0 .. MaxClock
    /\ at \in {"start", "search", "refilter", "compare", "summary", "recommended", "compiled", "refused"}

\* The instance counts as this module does.
LEMMA SelectCount == \A X : Select!Cardinality(X) = Cardinality(X)
  BY DEF Select!Cardinality, Cardinality

\* The best mapping gives every stage the first configuration of the ranking.
Cheapest(set) == [i \in 1 .. Stages |-> Select!Ranked(set)[1]]
IsMapping(m) == DOMAIN m = 1 .. Stages /\ m \in Seq(Configs)
SearchInv ==
    /\ at \in {"search", "refilter"} => filtered.eligible \subseteq Configs
    /\ at = "refilter" => filtered.eligible # {} /\ mapping = Cheapest(filtered.eligible) /\ IsMapping(mapping)
    /\ mapping \in Seq(Configs)
    /\ recommendation # None \/ at \in {"compare", "summary", "recommended"} => IsMapping(recommendation.mapping)
    /\ compiled # None => compiled \in Seq(Configs) /\ Cardinality(Select!Used(compiled)) <= 3

SelectInv == SelectTypes /\ SearchInv

\* Configurations are numbers; what is unknown is not.
LEMMA ConfigNumbers == Configs \subseteq Nat /\ None \notin Nat
  <1>1. Cardinality(Configs) \in Nat
    BY SelectionAssumption, FS_CardinalityType
  <1> QED BY <1>1, SelectionAssumption

\* Of some configurations one is ranked before all others.
LEMMA CheapestFirst ==
    ASSUME models \in [Configs -> Shapes], NEW S, S \subseteq Configs, S # {}
    PROVE  \E x \in S : \A y \in S \ {x} : Select!Cheaper(x, y)
  <1>1. Configs \subseteq Nat /\ None \notin Nat
    BY ConfigNumbers
  <1>2. \A x \in S : models[x].price \in Nat \cup {None}
    BY SelectionAssumption
  <1>3. CASE \E x \in S : models[x].price # None
    <2> DEFINE P == {models[x].price : x \in {z \in S : models[z].price # None}}
    <2>1. P \subseteq Nat /\ P # {}
      BY <1>2, <1>3
    <2>2. PICK p \in P : \A q \in P : p <= q
      <3> HIDE DEF P
      <3> QED BY <2>1, LeastExists
    <2> DEFINE T == {x \in S : models[x].price = p}
    <2>3. T \subseteq Nat /\ T # {} /\ p \in Nat
      BY <1>1, <2>1, <2>2
    <2>4. PICK x \in T : \A y \in T : x <= y
      <3> HIDE DEF T
      <3> QED BY <2>3, LeastExists
    <2>5. x \in S /\ models[x].price = p /\ x \in Nat
      BY <2>3, <2>4
    <2>6. ASSUME NEW y \in S \ {x} PROVE Select!Cheaper(x, y)
      <3>1. CASE models[y].price = None
        BY <1>1, <2>3, <2>5, <3>1 DEF Select!Cheaper
      <3>2. CASE models[y].price # None
        <4>1. models[y].price \in Nat /\ p <= models[y].price
          BY <1>2, <2>2, <3>2
        <4>2. models[y].price = p => x < y
          BY <1>1, <2>4, <2>5, <2>6
        <4> QED BY <1>1, <2>3, <2>5, <3>2, <4>1, <4>2 DEF Select!Cheaper
      <3> QED BY <3>1, <3>2
    <2> QED BY <2>5, <2>6
  <1>4. CASE \A x \in S : models[x].price = None
    <2>1. PICK x \in S : \A y \in S : x <= y
      BY <1>1, LeastExists
    <2>2. \A y \in S \ {x} : Select!Cheaper(x, y)
      BY <1>1, <1>4, <2>1 DEF Select!Cheaper
    <2> QED BY <2>2
  <1> QED BY <1>3, <1>4

\* A finite set of configurations can be ranked.
IsRanking(s, S, n) == s \in [1 .. n -> S] /\ \A i, j \in DOMAIN s : i < j => Select!Cheaper(s[i], s[j])
\* Any eligible set has a ranking.
LEMMA RankingExists ==
    ASSUME models \in [Configs -> Shapes]
    PROVE  \A S \in SUBSET Configs : \E s : IsRanking(s, S, Cardinality(S))
  <1> DEFINE B == {n \in Nat : \E S \in SUBSET Configs : Cardinality(S) = n /\ ~\E s : IsRanking(s, S, n)}
  <1>1. \A S \in SUBSET Configs : IsFiniteSet(S) /\ Cardinality(S) \in Nat
    BY SelectionAssumption, FS_Subset, FS_CardinalityType
  <1>2. B = {}
    <2>1. SUFFICES ASSUME B # {} PROVE FALSE
      OBVIOUS
    <2>2. PICK n \in B : \A k \in B : n <= k
      BY <2>1, LeastExists
    <2>3. PICK S \in SUBSET Configs : Cardinality(S) = n /\ ~\E s : IsRanking(s, S, n)
      OBVIOUS
    <2>4. n # 0
      <3>1. ASSUME n = 0 PROVE FALSE
        <4>1. S = {}
          BY <1>1, <2>3, <3>1, FS_EmptySet
        <4>2. IsRanking([i \in 1 .. 0 |-> i], S, n)
          BY <3>1, <4>1 DEF IsRanking
        <4> QED BY <2>3, <4>2
      <3> QED BY <3>1
    <2>5. S # {}
      BY <2>3, <2>4, FS_EmptySet
    <2>6. PICK x \in S : \A y \in S \ {x} : Select!Cheaper(x, y)
      BY <2>5, CheapestFirst
    <2>7. Cardinality(S \ {x}) = n - 1 /\ n - 1 \in Nat
      BY <1>1, <2>3, <2>4, <2>6, FS_RemoveElement
    <2>8. PICK t : IsRanking(t, S \ {x}, n - 1)
      BY <2>2, <2>7
    <2> DEFINE s == [i \in 1 .. n |-> IF i = 1 THEN x ELSE t[i - 1]]
    <2>9. t \in [1 .. n - 1 -> S \ {x}]
      BY <2>8 DEF IsRanking
    <2>10. \A i \in 1 .. n : i # 1 => i - 1 \in 1 .. n - 1
      BY <2>7
    <2>11. s \in [1 .. n -> S]
      BY <2>6, <2>9, <2>10
    <2>12. ASSUME NEW i \in 1 .. n, NEW j \in 1 .. n, i < j PROVE Select!Cheaper(s[i], s[j])
      <3>1. j # 1 /\ s[j] = t[j - 1] /\ j - 1 \in 1 .. n - 1
        BY <2>10, <2>12
      <3>2. CASE i = 1
        BY <2>6, <2>9, <3>1, <3>2
      <3>3. CASE i # 1
        <4>1. s[i] = t[i - 1] /\ i - 1 \in 1 .. n - 1 /\ i - 1 < j - 1
          BY <2>10, <2>12, <3>3
        <4> HIDE DEF s
        <4> QED BY <2>8, <2>9, <3>1, <4>1 DEF IsRanking
      <3> QED BY <3>2, <3>3
    <2>13. IsRanking(s, S, n)
      <3>1. DOMAIN s = 1 .. n
        OBVIOUS
      <3> HIDE DEF s
      <3> QED BY <2>11, <2>12, <3>1 DEF IsRanking
    <2> QED BY <2>3, <2>13
  <1> QED BY <1>1, <1>2

\* The ranking lists every eligible configuration, each after the cheaper ones.
LEMMA RankedFacts ==
    ASSUME models \in [Configs -> Shapes], NEW S, S \subseteq Configs
    PROVE  /\ IsRanking(Select!Ranked(S), S, Cardinality(S))
           /\ \A e \in S : \E i \in 1 .. Cardinality(S) : Select!Ranked(S)[i] = e
  <1> DEFINE r == Select!Ranked(S)
             n == Cardinality(S)
  <1>1. IsRanking(r, S, n)
    <2>1. \E z : IsRanking(z, S, Cardinality(S))
      BY RankingExists
    <2>2. \E x \in [1 .. Select!Cardinality(S) -> S] :
            \A i, j \in DOMAIN x : i < j => Select!Cheaper(x[i], x[j])
      BY <2>1, SelectCount DEF IsRanking
    <2>3. /\ r \in [1 .. Select!Cardinality(S) -> S]
          /\ \A i, j \in DOMAIN r : i < j => Select!Cheaper(r[i], r[j])
      BY <2>2 DEF Select!Ranked
    <2> QED BY <2>3, SelectCount DEF IsRanking
  <1>2. IsFiniteSet(S) /\ n \in Nat
    BY SelectionAssumption, FS_Subset, FS_CardinalityType
  <1>3. IsFiniteSet(1 .. n) /\ Cardinality(1 .. n) = n
    BY <1>2, FS_Interval
  <1>4. r \in [1 .. n -> S] /\ \A i, j \in 1 .. n : i < j => Select!Cheaper(r[i], r[j])
    BY <1>1 DEF IsRanking
  <1>5. \A c \in Configs : ~Select!Cheaper(c, c)
    <2>1. \A c \in Configs : c \in Nat /\ models[c].price \in Nat \cup {None}
      BY ConfigNumbers, SelectionAssumption
    <2> QED BY <2>1, SelectionAssumption DEF Select!Cheaper
  <1>6. \A i, j \in 1 .. n : r[i] = r[j] => i = j
    <2> HIDE DEF r, n
    <2> SUFFICES ASSUME NEW i \in 1 .. n, NEW j \in 1 .. n, r[i] = r[j], i # j PROVE FALSE
      OBVIOUS
    <2>1. i < j \/ j < i
      BY <1>2
    <2>2. r[i] \in Configs
      BY <1>4
    <2> QED BY <1>4, <1>5, <2>1, <2>2
  <1>7. r \in Injection(1 .. n, S)
    BY <1>4, <1>6 DEF Injection, IsInjective
  <1>8. r \in Surjection(1 .. n, S)
    <2> HIDE DEF r, n
    <2>1. n = Cardinality(S)
      BY DEF n
    <2> QED BY <1>2, <1>3, <1>7, <2>1, FS_Injection
  <1> QED BY <1>1, <1>8 DEF Surjection

-----------------------------------------------------------------------------
(* The search *)

\* The mapping of every stage to the first position.
One == [i \in 1 .. Stages |-> 1]

\* What a mapping of the stages uses.
LEMMA UsedFacts ==
    ASSUME NEW k \in Nat, NEW m \in Select!Mappings(k)
    PROVE  /\ Select!Used(m) \subseteq 1 .. k /\ Select!Used(m) # {}
           /\ Select!Size(m) \in Nat \ {0}
           /\ Select!Size(m) = 1 => \E v \in 1 .. k : Select!Used(m) = {v}
           /\ \A i \in 1 .. Stages : m[i] \in Select!Used(m)
  <1>1. m \in [1 .. Stages -> 1 .. k] /\ 1 \in 1 .. Stages
    BY SelectionAssumption DEF Select!Mappings
  <1>2. /\ Select!Used(m) \subseteq 1 .. k /\ m[1] \in Select!Used(m)
        /\ \A i \in 1 .. Stages : m[i] \in Select!Used(m)
    BY <1>1 DEF Select!Used
  <1>3. IsFiniteSet(Select!Used(m))
    BY <1>2, FS_Interval, FS_Subset
  <1>4. Select!Size(m) = Cardinality(Select!Used(m))
    BY SelectCount DEF Select!Size
  <1>5. Select!Size(m) \in Nat /\ Select!Size(m) # 0
    BY <1>2, <1>3, <1>4, FS_CardinalityType, FS_EmptySet
  <1>6. Select!Size(m) = 1 => \E v : Select!Used(m) = {v}
    BY <1>3, <1>4, FS_Singleton
  <1> QED BY <1>2, <1>5, <1>6

\* It is a mapping that uses one position.
LEMMA OneFacts ==
    ASSUME NEW k \in Nat \ {0}
    PROVE  One \in Select!Mappings(k) /\ Select!Used(One) = {1} /\ Select!Size(One) = 1
  <1>1. One \in Select!Mappings(k) /\ 1 \in 1 .. Stages
    BY SelectionAssumption DEF One, Select!Mappings
  <1>2. Select!Used(One) = {1}
    BY <1>1 DEF One, Select!Used
  <1>3. Select!Size(One) = 1
    BY <1>2, SelectCount, FS_Singleton DEF Select!Size
  <1> QED BY <1>1, <1>2, <1>3

\* It is the first mapping to be enumerated.
LEMMA OneComesFirst ==
    ASSUME NEW k \in Nat \ {0}
    PROVE  One \in Select!Searched(k)
  <1>1. One \in Select!Mappings(k) /\ Select!Used(One) = {1} /\ Select!Size(One) = 1
    BY OneFacts
  <1>2. ASSUME NEW x \in Select!Mappings(k) PROVE ~Select!Before(x, One)
    <2>1. x \in [1 .. Stages -> 1 .. k] /\ DOMAIN x = 1 .. Stages
      BY DEF Select!Mappings
    <2>2. ~(Select!Size(x) < Select!Size(One))
      BY <1>1, UsedFacts
    <2>3. ASSUME Select!Size(x) = 1
          PROVE  ~Select!Precedes(Select!Portfolio(x), Select!Portfolio(One))
      <3>1. PICK v \in 1 .. k : Select!Used(x) = {v}
        BY <2>3, UsedFacts
      <3>2. ASSUME NEW m, Select!Size(m) = 1, NEW w \in Nat, Select!Used(m) = {w}
            PROVE  Select!Portfolio(m) \in [1 .. 1 -> {w}]
        <4> DEFINE F == [1 .. 1 -> {w}]
                   Up(s) == \A i, j \in DOMAIN s : i < j => s[i] < s[j]
        <4>1. [i \in 1 .. 1 |-> w] \in F /\ Up([i \in 1 .. 1 |-> w])
          OBVIOUS
        <4>2. Select!Portfolio(m) = CHOOSE s \in F : Up(s)
          BY <3>2 DEF Select!Portfolio
        <4> HIDE DEF F, Up
        <4>3. Select!Portfolio(m) \in F
          BY <4>1, <4>2
        <4> QED BY <4>3 DEF F
      <3>3. Select!Portfolio(x) \in [1 .. 1 -> {v}] /\ Select!Portfolio(One) \in [1 .. 1 -> {1}]
        BY <1>1, <2>3, <3>1, <3>2
      <3> QED BY <3>3 DEF Select!Precedes
    <2>4. ASSUME Select!Used(x) = Select!Used(One) PROVE ~Select!Precedes(x, One)
      <3>1. \A i \in 1 .. Stages : x[i] = 1 /\ One[i] = 1
        BY <1>1, <2>4, UsedFacts DEF One
      <3> QED BY <2>1, <3>1 DEF Select!Precedes
    <2> QED BY <1>1, <2>2, <2>3, <2>4 DEF Select!Before
  <1> DEFINE all == {m \in Select!Mappings(k) : Select!Size(m) <= 3}
  <1>3. One \in all /\ {x \in all : Select!Before(x, One)} = {}
    BY <1>1, <1>2
  <1>4. Select!Cardinality({x \in all : Select!Before(x, One)}) < MaxMappings
    <2>1. Select!Cardinality({}) = 0 /\ 0 < MaxMappings
      BY SelectCount, FS_EmptySet, SelectionAssumption
    <2> QED BY <1>3, <2>1
  <1> QED BY <1>3, <1>4 DEF Select!Searched

\* A score begins with the penalty: ranks and additional configurations.
LEMMA ScoreBegins ==
    ASSUME NEW k \in Nat, NEW r \in [1 .. k -> Configs], NEW m \in Select!Mappings(k)
    PROVE  /\ Select!Score(m, r)[1] = Select!RankSum(m) + 2 * (Select!Size(m) - 1)
           /\ DOMAIN Select!Score(m, r) = 1 .. Stages + 2
  <1> DEFINE s == <<Select!RankSum(m) + 2 * (Select!Size(m) - 1), Select!Size(m)>>
             t == [i \in DOMAIN m |-> r[m[i]]]
  <1>1. m \in [1 .. Stages -> 1 .. k] /\ Stages \in Nat
    BY SelectionAssumption DEF Select!Mappings
  <1>2. t \in [1 .. Stages -> Configs]
    BY <1>1
  <1>3. t \in Seq(Configs) /\ Len(t) = Stages
    <2> HIDE DEF t
    <2> QED BY <1>1, <1>2
  <1>4. Select!Score(m, r) = s \o t
    BY DEF Select!Score
  <1>5. Len(s) = 2 /\ s[1] = Select!RankSum(m) + 2 * (Select!Size(m) - 1)
    OBVIOUS
  <1> DEFINE U == Configs \cup {s[1], s[2]}
  <1>6. s \in Seq(U) /\ t \in Seq(U)
    <2>1. s \in Seq(U)
      OBVIOUS
    <2>2. Seq(Configs) \subseteq Seq(U)
      <3> HIDE DEF s, t
      <3> QED OBVIOUS
    <2> QED BY <1>3, <2>1, <2>2
  <1> HIDE DEF s, t, U
  <1>7. (s \o t)[1] = s[1] /\ DOMAIN (s \o t) = 1 .. Stages + 2
    <2>1. s \o t \in Seq(U) /\ Len(s \o t) = Stages + 2
      <3>1. s \o t \in Seq(U) /\ Len(s \o t) = Len(s) + Len(t)
        BY <1>6, ConcatProperties
      <3> QED BY <1>1, <1>3, <1>5, <3>1
    <2>2. (s \o t)[1] = s[1]
      <3>1. 1 \in 1 .. Len(s) + Len(t) /\ 1 <= Len(s)
        BY <1>1, <1>3, <1>5
      <3> QED BY <1>6, <3>1, ConcatProperties
    <2> QED BY <1>1, <2>1, <2>2
  <1> QED BY <1>4, <1>5, <1>7

\* It is zero for the first mapping only.
LEMMA OneScoresBest ==
    ASSUME NEW k \in 1 .. Cardinality(Configs), NEW m \in Select!Mappings(k)
    PROVE  /\ m = One => Select!RankSum(m) + 2 * (Select!Size(m) - 1) = 0
           /\ m # One => /\ Select!RankSum(m) + 2 * (Select!Size(m) - 1) \in Nat
                         /\ Select!RankSum(m) + 2 * (Select!Size(m) - 1) > 0
  <1> DEFINE P == {x \in (DOMAIN m) \X Configs : x[2] < m[x[1]]}
  <1>1. /\ m \in [1 .. Stages -> 1 .. k] /\ Stages \in Nat /\ DOMAIN m = 1 .. Stages
        /\ IsFiniteSet(Configs) /\ Configs = 1 .. Cardinality(Configs) /\ Cardinality(Configs) \in Nat
        /\ k \in Nat
    BY SelectionAssumption, FS_CardinalityType DEF Select!Mappings
  <1>2. IsFiniteSet(1 .. Stages)
    BY <1>1, FS_Interval
  <1>3. IsFiniteSet((1 .. Stages) \X Configs)
    BY <1>1, <1>2, FS_Product
  <1>4. IsFiniteSet(P)
    BY <1>1, <1>3, FS_Subset
  <1>5. Select!RankSum(m) = Cardinality(P) /\ Cardinality(P) \in Nat
    BY <1>4, SelectCount, FS_CardinalityType DEF Select!RankSum
  <1>6. Select!Size(m) \in Nat \ {0}
    BY <1>1, UsedFacts
  <1>7. CASE m = One
    <2>1. P = {}
      BY <1>1, <1>7 DEF One
    <2>2. Cardinality(P) = 0 /\ Select!Size(m) = 1
      BY <1>1, <1>7, <2>1, FS_EmptySet, OneFacts
    <2> QED BY <1>5, <1>7, <2>2
  <1>8. CASE m # One
    <2>1. PICK i \in 1 .. Stages : m[i] # 1
      BY <1>1, <1>8 DEF One
    <2>2. 1 < m[i] /\ 1 \in Configs
      BY <1>1, <2>1
    <2>3. <<i, 1>> \in P
      BY <1>1, <2>2
    <2>4. Cardinality(P) # 0
      <3> HIDE DEF P
      <3> QED BY <1>4, <2>3, FS_EmptySet
    <2> HIDE DEF P
    <2> QED BY <1>5, <1>6, <1>8, <2>4
  <1> QED BY <1>7, <1>8

\* Among the mappings of any part of the ranking it is the best, and the search finds it.
LEMMA OneIsBetter ==
    ASSUME NEW n \in 1 .. Cardinality(Configs), NEW r \in [1 .. n -> Configs],
           NEW m \in Select!Mappings(n), m # One
    PROVE  Select!Better(One, m, r) /\ ~Select!Better(m, One, r)
  <1> DEFINE a == Select!Score(One, r)
             b == Select!Score(m, r)
  <1>1. n \in Nat \ {0} /\ Stages \in Nat
    BY SelectionAssumption, FS_CardinalityType
  <1>2. One \in Select!Mappings(n)
    BY <1>1, OneFacts
  <1>3. DOMAIN a = 1 .. Stages + 2 /\ DOMAIN b = 1 .. Stages + 2
    BY <1>1, <1>2, ScoreBegins
  <1>4. a[1] = 0
    BY <1>1, <1>2, ScoreBegins, OneScoresBest
  <1>5. b[1] \in Nat /\ b[1] > 0
    BY <1>1, ScoreBegins, OneScoresBest
  <1> HIDE DEF a, b
  <1>6. Select!Precedes(a, b)
    <2>1. 1 \in DOMAIN a /\ a[1] < b[1] /\ \A j \in 1 .. 1 - 1 : a[j] = b[j]
      BY <1>1, <1>3, <1>4, <1>5
    <2> QED BY <2>1 DEF Select!Precedes
  <1>7. ~Select!Precedes(b, a)
    <2>1. SUFFICES ASSUME NEW i \in DOMAIN b, b[i] < a[i], \A j \in 1 .. i - 1 : b[j] = a[j] PROVE FALSE
      BY DEF Select!Precedes
    <2>2. i = 1 \/ 1 \in 1 .. i - 1
      BY <1>1, <1>3
    <2> QED BY <1>4, <1>5, <2>1, <2>2
  <1> QED BY <1>6, <1>7 DEF Select!Better, a, b

\* So the bounded search maps every stage to the configuration ranked first.
LEMMA SearchFinds ==
    ASSUME models \in [Configs -> Shapes], NEW S, S \subseteq Configs, S # {}
    PROVE  /\ Select!Search(Select!Ranked(S)) = Cheapest(S)
           /\ Select!Ranked(S)[1] \in Configs
           /\ Len(Select!Ranked(S)) \in 1 .. Cardinality(Configs)
           /\ Select!Ranked(S) \in [1 .. Len(Select!Ranked(S)) -> S]
  <1> DEFINE r == Select!Ranked(S)
             n == Cardinality(S)
             k == IF Len(r) <= MaxCandidates THEN Len(r) ELSE MaxCandidates
             Best(m) == \A x \in Select!Searched(k) \ {m} : Select!Better(m, x, r)
  <1>1. IsFiniteSet(S) /\ n \in 1 .. Cardinality(Configs) /\ Cardinality(Configs) \in Nat
    <2>1. IsFiniteSet(S) /\ Cardinality(S) <= Cardinality(Configs) /\ Cardinality(Configs) \in Nat
      BY SelectionAssumption, FS_Subset, FS_CardinalityType
    <2> QED BY <2>1, FS_CardinalityType, FS_EmptySet
  <1>2. r \in [1 .. n -> S]
    BY RankedFacts DEF IsRanking
  <1>3. Len(r) = n
    <2> HIDE DEF r, n
    <2>1. n \in Nat
      BY <1>1
    <2> QED BY <1>2, <2>1
  <1>4. r \in [1 .. n -> Configs] /\ r[1] \in Configs
    <2> HIDE DEF r, n
    <2> QED BY <1>1, <1>2
  <1>5. k \in 1 .. n /\ k \in Nat \ {0}
    <2> HIDE DEF r, n
    <2> QED BY <1>1, <1>3, SelectionAssumption
  <1> HIDE DEF r, n, k
  <1>6. \A m \in Select!Searched(k) : m \in Select!Mappings(n)
    BY <1>1, <1>5 DEF Select!Searched, Select!Mappings
  <1>7. One \in Select!Searched(k) /\ Best(One)
    <2>1. One \in Select!Searched(k)
      BY <1>5, OneComesFirst
    <2>2. ASSUME NEW x \in Select!Searched(k) \ {One} PROVE Select!Better(One, x, r)
      BY <1>1, <1>4, <1>6, <2>2, OneIsBetter
    <2> QED BY <2>1, <2>2
  <1>8. ASSUME NEW m \in Select!Searched(k), Best(m) PROVE m = One
    <2>1. SUFFICES ASSUME m # One PROVE FALSE
      OBVIOUS
    <2>2. Select!Better(m, One, r)
      BY <1>7, <1>8, <2>1
    <2> QED BY <1>1, <1>4, <1>6, <2>1, <2>2, OneIsBetter
  <1>9. (CHOOSE m \in Select!Searched(k) : Best(m)) = One
    <2> HIDE DEF Best
    <2> QED BY <1>7, <1>8
  <1>10. Select!Search(r) = [i \in 1 .. Stages |-> r[One[i]]]
    <2>1. Select!Search(r) =
            [i \in 1 .. Stages |-> r[(CHOOSE m \in Select!Searched(k) : Best(m))[i]]]
      BY DEF Select!Search, k
    <2> HIDE DEF Best
    <2> QED BY <1>9, <2>1
  <1>11. [i \in 1 .. Stages |-> r[One[i]]] = [i \in 1 .. Stages |-> r[1]]
    BY DEF One
  <1> QED BY <1>1, <1>2, <1>3, <1>4, <1>10, <1>11 DEF Cheapest, r

-----------------------------------------------------------------------------
(* The steps and properties of the selector *)

\* Nothing is filtered, mapped or recommended at first.
LEMMA SelectInit == Select!Init => SelectInv
  <1> SUFFICES ASSUME Select!Init PROVE SelectInv
    OBVIOUS
  <1>1. SelectTypes
    BY SelectionAssumption DEF Select!Init, SelectTypes
  <1>2. SearchInv
    BY DEF Select!Init, SearchInv
  <1> QED BY <1>1, <1>2 DEF SelectInv

\* A filter result names configurations.
LEMMA Filtered == \A t : Select!Filter(t).eligible \subseteq Configs
  BY DEF Select!Filter, Select!Eligible

\* The search, the recommendation and the draft stay right at every step.
LEMMA SelectStep == SelectInv /\ [Select!Next]_selectionVars => SelectInv'
  <1> SUFFICES ASSUME SelectInv, [Select!Next]_selectionVars PROVE SelectInv'
    OBVIOUS
  <1> USE DEF SelectInv
  <1>1. SelectTypes'
    BY SelectionAssumption
       DEF SelectTypes, Select!Next, selectionVars, Select!Tick, Select!StartSearch, Select!TakeFilter,
           Select!RankAndSearch, Select!SearchRefused, Select!Refuse, Select!Refilter, Select!StartCompare,
           Select!Compare, Select!CompareRefused, Select!Compile, Select!CompileRefused
  <1> SUFFICES SearchInv'
    BY <1>1
  <1>2. models' = models
    BY DEF Select!Next, selectionVars, Select!Tick, Select!StartSearch, Select!TakeFilter,
           Select!RankAndSearch, Select!SearchRefused, Select!Refuse, Select!Refilter, Select!StartCompare,
           Select!Compare, Select!CompareRefused, Select!Compile, Select!CompileRefused
  <1>3. filtered' = filtered => Cheapest(filtered.eligible)' = Cheapest(filtered.eligible)
    BY <1>2 DEF Cheapest, Select!Ranked, Select!Cheaper
  <1>4. ASSUME UNCHANGED <<mapping, recommendation, compiled>>, at' = at \/ at' \in {"search", "summary", "recommended", "refused"},
               at' \in {"search", "refilter"} => filtered'.eligible \subseteq Configs,
               at' = "refilter" => UNCHANGED filtered, at' \in {"summary", "recommended"} => at \in {"compare", "summary", "recommended"}
        PROVE  SearchInv'
    <2>1. (at \in {"search", "refilter"} => filtered.eligible \subseteq Configs)'
      BY <1>4
    <2>2. (at = "refilter" => filtered.eligible # {} /\ mapping = Cheapest(filtered.eligible) /\ IsMapping(mapping))'
      BY <1>3, <1>4 DEF SearchInv, IsMapping
    <2>3. (mapping \in Seq(Configs))'
      BY <1>4 DEF SearchInv
    <2>4. (recommendation # None \/ at \in {"compare", "summary", "recommended"} => IsMapping(recommendation.mapping))'
      BY <1>4 DEF SearchInv, IsMapping
    <2>5. (compiled # None => compiled \in Seq(Configs) /\ Cardinality(Select!Used(compiled)) <= 3)'
      BY <1>4 DEF SearchInv, Select!Used
    <2> QED BY <2>1, <2>2, <2>3, <2>4, <2>5 DEF SearchInv
  <1>5. CASE Select!RankAndSearch
    <2> DEFINE S == filtered.eligible
    <2>1. S \subseteq Configs /\ S # {} /\ models \in [Configs -> Shapes]
      BY <1>5 DEF SearchInv, SelectTypes, Select!RankAndSearch, Select!Rankable
    <2>2. mapping' = Cheapest(S) /\ Select!Ranked(S)[1] \in Configs
      <3> HIDE DEF S
      <3>1. mapping' = Select!Search(Select!Ranked(S))
        BY <1>5 DEF Select!RankAndSearch, S
      <3> QED BY <2>1, <3>1, SearchFinds
    <2>3. Cheapest(filtered.eligible)' = Cheapest(S)
      BY <1>3, <1>5 DEF Select!RankAndSearch
    <2>4. IsMapping(mapping')
      BY <2>2, SelectionAssumption DEF Cheapest, IsMapping
    <2>5. at' = "refilter" /\ UNCHANGED <<filtered, recommendation, compiled>>
      BY <1>5 DEF Select!RankAndSearch
    <2>6. mapping' \in Seq(Configs) /\ IsMapping(mapping)'
      BY <2>4 DEF IsMapping
    <2>7. (recommendation # None => IsMapping(recommendation.mapping))'
      BY <2>5 DEF SearchInv, IsMapping
    <2>8. (compiled # None => compiled \in Seq(Configs) /\ Cardinality(Select!Used(compiled)) <= 3)'
      BY <2>5 DEF SearchInv, Select!Used
    <2> HIDE DEF S
    <2>9. filtered'.eligible = S
      BY <2>5 DEF S
    <2> QED BY <2>1, <2>2, <2>3, <2>5, <2>6, <2>7, <2>8, <2>9 DEF SearchInv
  <1>6. CASE Select!Refilter
    <2>1. at' = "compare" /\ UNCHANGED <<mapping, compiled>> /\ recommendation'.mapping = mapping
      BY <1>6 DEF Select!Refilter
    <2>2. IsMapping(recommendation.mapping)' /\ mapping' \in Seq(Configs)
      BY <1>6, <2>1 DEF SearchInv, IsMapping, Select!Refilter
    <2>3. (compiled # None => compiled \in Seq(Configs) /\ Cardinality(Select!Used(compiled)) <= 3)'
      BY <2>1 DEF SearchInv, Select!Used
    <2> QED BY <2>1, <2>2, <2>3 DEF SearchInv
  <1>7. CASE Select!Compile
    <2>1. /\ at = "recommended" /\ at' = "compiled" /\ UNCHANGED <<mapping, recommendation>>
          /\ compiled' = recommendation.mapping /\ Cardinality(Select!Used(recommendation.mapping)) <= 3
      BY <1>7, SelectCount DEF Select!Compile, Select!Admissible
    <2>2. IsMapping(recommendation.mapping)' /\ mapping' \in Seq(Configs) /\ IsMapping(recommendation.mapping)
      BY <2>1 DEF SearchInv, IsMapping
    <2>3. (compiled # None => compiled \in Seq(Configs) /\ Cardinality(Select!Used(compiled)) <= 3)'
      BY <2>1, <2>2 DEF IsMapping, Select!Used
    <2> QED BY <2>1, <2>2, <2>3 DEF SearchInv
  <1>8. CASE UNCHANGED selectionVars \/ Select!Tick \/ Select!Compare
    BY <1>4, <1>8 DEF SearchInv, selectionVars, Select!Tick, Select!Compare
  <1>9. CASE Select!StartSearch \/ Select!StartCompare
    BY <1>4, <1>9, Filtered DEF SearchInv, Select!StartSearch, Select!StartCompare, Select!TakeFilter
  <1>10. CASE Select!SearchRefused \/ Select!CompareRefused \/ Select!CompileRefused
    BY <1>4, <1>10 DEF SearchInv, Select!SearchRefused, Select!CompareRefused, Select!CompileRefused, Select!Refuse
  <1> QED BY <1>1, <1>5, <1>6, <1>7, <1>8, <1>9, <1>10 DEF Select!Next

\* It says what the search promises.
LEMMA SelectSafe == SelectInv => SearchSafety
  <1> SUFFICES ASSUME SelectInv PROVE SearchSafety
    OBVIOUS
  <1>1. Select!TypeOK
    BY SelectCount DEF SelectInv, SelectTypes, SearchInv, IsMapping, Select!TypeOK
  <1>2. ASSUME at = "refilter"
        PROVE  /\ filtered.eligible \subseteq Configs /\ filtered.eligible # {}
               /\ mapping = Cheapest(filtered.eligible) /\ models \in [Configs -> Shapes]
    BY <1>2 DEF SelectInv, SelectTypes, SearchInv
  <1>3. Select!SearchIsOptimal
    <2> DEFINE ranked == Select!Ranked(filtered.eligible)
               Image(m) == [i \in DOMAIN m |-> ranked[m[i]]]
    <2> SUFFICES ASSUME at = "refilter", NEW m \in Select!Mappings(Len(ranked)), Image(m) # mapping
                 PROVE  \E b \in Select!Mappings(Len(ranked)) : Image(b) = mapping /\ Select!Better(b, m, ranked)
      BY DEF Select!SearchIsOptimal
    <2> HIDE DEF ranked
    <2>1. /\ Len(ranked) \in 1 .. Cardinality(Configs) /\ ranked \in [1 .. Len(ranked) -> Configs]
          /\ mapping = [i \in 1 .. Stages |-> ranked[1]]
      <3>1. /\ Len(ranked) \in 1 .. Cardinality(Configs)
            /\ ranked \in [1 .. Len(ranked) -> filtered.eligible]
        BY <1>2, SearchFinds DEF ranked
      <3> QED BY <1>2, <3>1 DEF Cheapest, ranked
    <2>2. Len(ranked) \in Nat \ {0}
      BY <2>1, SelectionAssumption, FS_CardinalityType
    <2>3. Image(One) = mapping
      BY <2>1 DEF One
    <2>4. One \in Select!Mappings(Len(ranked))
      BY <2>2, OneFacts
    <2>5. m # One
      BY <2>3
    <2>6. Select!Better(One, m, ranked)
      BY <2>1, <2>5, OneIsBetter
    <2> QED BY <2>3, <2>4, <2>6
  <1>4. Select!UnknownPriceLast
    <2> SUFFICES ASSUME at = "refilter", NEW c \in Select!Used(mapping), NEW e \in filtered.eligible,
                        models[e].price # None
                 PROVE  models[c].price # None /\ models[c].price <= models[e].price
      BY DEF Select!UnknownPriceLast
    <2> DEFINE S == filtered.eligible
               r == Select!Ranked(S)
               n == Cardinality(S)
    <2>1. c = r[1] /\ S \subseteq Configs
      BY <1>2 DEF Cheapest, Select!Used
    <2>2. PICK j \in 1 .. n : r[j] = e
      BY <1>2, <2>1, RankedFacts
    <2>3. n \in Nat /\ \A i, k \in 1 .. n : i < k => Select!Cheaper(r[i], r[k])
      <3>1. IsRanking(r, S, n)
        BY <1>2, RankedFacts
      <3>2. n \in Nat
        BY <2>1, SelectionAssumption, FS_Subset, FS_CardinalityType
      <3> QED BY <3>1, <3>2 DEF IsRanking
    <2> HIDE DEF n, r
    <2>4. models[e].price \in Nat /\ e \in Configs
      BY <1>2, <2>1, SelectionAssumption
    <2>5. CASE j = 1
      BY <2>1, <2>2, <2>4, <2>5
    <2>6. CASE j # 1
      <3>1. Select!Cheaper(c, e)
        BY <2>1, <2>2, <2>3, <2>6
      <3>2. models[c].price \in Nat /\ models[c].price <= models[e].price
        <4>1. c \in Configs /\ models[c].price \in Nat \cup {None}
          <5>1. c \in S
            <6>1. IsRanking(r, S, n) /\ 1 \in 1 .. n
              BY <1>2, <2>2, <2>3, RankedFacts DEF r, n
            <6> QED BY <2>1, <6>1 DEF IsRanking
          <5> QED BY <1>2, <2>1, <5>1, SelectionAssumption
        <4> QED BY <2>4, <3>1, <4>1, ConfigNumbers DEF Select!Cheaper
      <3> QED BY <3>2, ConfigNumbers
    <2> QED BY <2>5, <2>6
  <1> QED BY <1>1, <1>3, <1>4 DEF SearchSafety, Select!SearchSafety

\* What compile accepts meets the requirements: every check was supported.
LEMMA CompiledMeets ==
    SelectInv /\ [Select!Next]_selectionVars =>
        (compiled' # compiled => \A i \in DOMAIN compiled' : Select!Meets(compiled'[i], clock))
  <1> SUFFICES ASSUME SelectInv, [Select!Next]_selectionVars, compiled' # compiled, NEW i \in DOMAIN compiled'
               PROVE  Select!Meets(compiled'[i], clock)
    OBVIOUS
  <1>1. Select!Compile
    BY DEF Select!Next, selectionVars, Select!Tick, Select!StartSearch, Select!TakeFilter,
           Select!RankAndSearch, Select!SearchRefused, Select!Refuse, Select!Refilter, Select!StartCompare,
           Select!Compare, Select!CompareRefused, Select!CompileRefused
  <1>2. compiled'[i] \in Select!Eligible(clock)
    BY <1>1 DEF Select!Compile, Select!Admissible, Select!Used
  <1> DEFINE c == compiled'[i]
             s == models[c]
  <1>3. c \in Configs /\ Select!Checks(s, workflow, clock) = {"true"}
    BY <1>2 DEF Select!Eligible
  <1>4. /\ s.access \in BOOLEAN /\ s.parameters \in BOOLEAN /\ s.price \in Nat \cup {None}
        /\ s.observed \in Nat /\ s.expires \in Nat
        /\ workflow.ceiling \in Nat \cup {None} /\ workflow.parameters \in BOOLEAN
        /\ workflow.deployment \in {"any", "local", "hosted"} /\ workflow.unrepresented \in BOOLEAN
    BY <1>3, SelectionAssumption DEF SelectInv, SelectTypes
  <1> HIDE DEF c, s
  <1>5. s.weight = "true" /\ Select!Supported(Select!Current(s, clock) /\ s.access) = "true"
    BY <1>3 DEF Select!Checks
  <1>6. workflow.ceiling # None => Select!Compared(s.price # None, s.price <= workflow.ceiling) = "true"
    BY <1>3 DEF Select!Checks
  <1>7. workflow.parameters => Select!Supported(Select!Current(s, clock) /\ s.parameters) = "true"
    BY <1>3 DEF Select!Checks
  <1>8. workflow.deployment # "any" =>
          Select!Compared(Select!Current(s, clock) /\ s.deployment # None, s.deployment = workflow.deployment) = "true"
    BY <1>3 DEF Select!Checks
  <1>9. ~workflow.unrepresented
    BY <1>3, <1>4 DEF Select!Checks
  <1>10. s.access /\ s.observed <= clock /\ clock < s.expires
    BY <1>4, <1>5 DEF Select!Supported, Select!Current
  <1>11. workflow.ceiling # None => s.price # None /\ s.price <= workflow.ceiling
    BY <1>6 DEF Select!Compared
  <1>12. workflow.parameters => s.parameters
    BY <1>4, <1>7 DEF Select!Supported
  <1>13. workflow.deployment # "any" => s.deployment = workflow.deployment
    BY <1>8 DEF Select!Compared
  <1> QED BY <1>5, <1>9, <1>10, <1>11, <1>12, <1>13 DEF Select!Meets, c, s

\* The composition selects by the steps of Selection only.
LEMMA EvidenceSelects == EvidenceSpec => []SelectInv /\ [][Select!Next]_selectionVars
  <1>1. EvidenceInit => SelectInv
    BY SelectInit DEF EvidenceInit
  <1>2. [EvidenceNext]_evidenceVars => [Select!Next]_selectionVars
    BY DEF EvidenceNext, evidenceVars
  <1> QED BY <1>1, <1>2, SelectStep, PTL DEF EvidenceSpec

\* The selector (_search) maps every stage to the best configuration among all eligible ones,
\* for any catalog, workflow and positive bounds on candidates and mappings: the bounds cost
\* nothing, and an unknown price is never preferred.
THEOREM SafeSelection == EvidenceSpec => []SearchSafety
  BY EvidenceSelects, SelectSafe, PTL

\* SafeDraftCompiler.compile accepts a draft only if each configuration in it meets every
\* requirement of the workflow at that instant, whenever evidence expires or appears.
THEOREM AdmissibleDrafts == EvidenceSpec => DraftIsAdmissible
  <1>1. EvidenceSpec => [][compiled' # compiled => \A i \in DOMAIN compiled' : Select!Meets(compiled'[i], clock)]_selectionVars
    BY EvidenceSelects, CompiledMeets, PTL
  <1> QED BY <1>1 DEF DraftIsAdmissible, Select!DraftIsAdmissible, Select!vars, selectionVars

-----------------------------------------------------------------------------
(* Stage authority *)

\* What a call holds, and the inputs.
Held ==
    [key : Keys \cup {None}, config : Listed \cup {None}, since : Nat, at : Nat,
     result : SUBSET Listed, next : Nat, amount : Nat]
Steps ==
    {"idle", "target", "clock", "lookup", "assess", "keep", "answer", "grant", "credential", "preflight"}
        \cup Authority!Ended
InputTypes ==
    /\ records \in [Keys -> Catalogs] /\ terms \in Terms /\ offer \in Offers /\ ask \in Asks
    /\ instant \in 0 .. MaxTime
    /\ pc \in [Callers -> Steps]
    /\ DOMAIN call = Callers

\* What was so at some instant since s: a configuration was current, it was not, the answer
\* of the selector agrees with one or the other, and a thing had not expired.
WasCurrent(k, c, s) == \E t \in s .. instant : Authority!Current(records[k][c], t)
WasNotCurrent(k, c, s) == \E t \in s .. instant : ~Authority!Current(records[k][c], t)
Shown(m, c, s) ==
    /\ c \in m.result => WasCurrent(m.key, c, s)
    /\ c \notin m.result => WasNotCurrent(m.key, c, s)
Passed(thing, s) == \E t \in s .. instant : t < terms[thing]

\* A call at a step, and what it holds.
Chosen == {"grant", "credential", "preflight", "authorized"}
GoodCall(step, m) ==
    /\ m \in Held
    /\ step # "idle" => m.key \in Keys /\ m.config \in Listed /\ m.since <= instant
    /\ step \in {"target", "clock", "lookup"} => m.result = {} /\ m.next = 1
    /\ step \in {"lookup", "assess", "keep"} => m.since <= m.at /\ m.at <= instant
    /\ step = "assess" =>
         /\ m.next \in Listed /\ \A c \in m.result : c < m.next
         /\ \A c \in Listed : c < m.next => Shown(m, c, m.at)
    /\ step = "keep" => \A c \in Listed : Shown(m, c, m.at)
    /\ step = "answer" => Shown(m, m.config, m.since)
    /\ step \in Chosen => WasCurrent(m.key, m.config, m.since)
    /\ step = "ineligible" => WasNotCurrent(m.key, m.config, m.since)
    /\ step \in {"clock", "lookup", "assess", "keep", "answer"} \cup Chosen => Passed("target", m.since)
    /\ step \in {"credential", "preflight", "authorized"} => Passed("grant", m.since)
    /\ step \in {"preflight", "authorized"} => Passed("credential", m.since)
    /\ step = "authorized" =>
         /\ Authority!Admitted(ask, offer)
         /\ m.amount = Authority!CostBound(offer, ask.count, ask.max)
CallInv == \A p \in Callers : GoodCall(pc[p], call[p])

\* The keys of the cache, and each of its entries.
OrderInv ==
    /\ order \in Seq(Keys) /\ Len(order) <= Capacity
    /\ \A i, j \in 1 .. Len(order) : order[i] = order[j] => i = j
    /\ DOMAIN results = {order[i] : i \in 1 .. Len(order)}
GoodEntry(k, e) ==
    /\ e.deadline \in Nat /\ e.result \subseteq Listed
    /\ \A c \in Listed :
        /\ e.deadline <= records[k][c].expires /\ records[k][c].observed <= instant
        /\ c \in e.result => records[k][c].observed < records[k][c].expires
        /\ c \notin e.result => records[k][c].expires <= instant
EntriesInv == \A k \in DOMAIN results : GoodEntry(k, results[k])

AuthorityInv == InputTypes /\ CallInv /\ OrderInv /\ EntriesInv

-----------------------------------------------------------------------------
(* The order of the cache *)

Distinct(s) == \A i, j \in 1 .. Len(s) : s[i] = s[j] => i = j
Members(s) == {s[i] : i \in 1 .. Len(s)}

\* The instance counts as this module does.
LEMMA AuthorityCounts == \A X : Authority!Cardinality(X) = Cardinality(X)
  BY DEF Authority!Cardinality, Cardinality

\* Its Min is the least of a set of numbers.
LEMMA LeastIs ==
    ASSUME NEW T, T \subseteq Nat, T # {}
    PROVE  Authority!Min(T) \in T /\ \A y \in T : Authority!Min(T) <= y
  <1>1. PICK x \in T : \A y \in T : x <= y
    BY LeastExists
  <1>2. Authority!Min(T) = CHOOSE z \in T : \A y \in T : z =< y
    BY DEF Authority!Min
  <1> QED BY <1>1, <1>2

\* Without its first occurrence, and with it at the end.
LEMMA RemovedFirst ==
    ASSUME NEW s \in Seq(Keys), Distinct(s), NEW k \in Members(s)
    PROVE  LET r == Authority!RemoveFirst(s, k) IN
           /\ r \in Seq(Keys) /\ Len(r) = Len(s) - 1 /\ Distinct(r) /\ Members(r) = Members(s) \ {k}
  <1> DEFINE I == {i \in 1 .. Len(s) : s[i] = k}
             n == Authority!Min(I)
  <1>1. n \in I
    <2>1. I \subseteq Nat /\ I # {}
      BY DEF Members
    <2> HIDE DEF I
    <2> QED BY <2>1, LeastIs
  <1>2. n \in 1 .. Len(s) /\ s[n] = k /\ Len(s) \in Nat
    BY <1>1
  <1>3. Authority!RemoveFirst(s, k) = Authority!RemoveAt(s, n)
    <2>1. \E i \in 1 .. Len(s) : s[i] = k
      BY <1>2
    <2> QED BY <1>1, <2>1 DEF Authority!RemoveFirst, Authority!SelectInSeq
  <1> HIDE DEF n
  <1> DEFINE r == SubSeq(s, 1, n - 1) \o SubSeq(s, n + 1, Len(s))
  <1>4. /\ r \in Seq(Keys) /\ Len(r) = Len(s) - 1
        /\ \A i \in 1 .. Len(r) : r[i] = (IF i < n THEN s[i] ELSE s[i + 1])
    <2> DEFINE u == SubSeq(s, 1, n - 1)
               v == SubSeq(s, n + 1, Len(s))
    <2>1. u \in Seq(Keys) /\ Len(u) = n - 1 /\ \A i \in 1 .. n - 1 : u[i] = s[i]
      BY <1>2
    <2>2. v \in Seq(Keys) /\ Len(v) = Len(s) - n /\ \A i \in 1 .. Len(s) - n : v[i] = s[n + i]
      BY <1>2
    <2> HIDE DEF u, v
    <2>3. Len(u) \in Nat /\ Len(v) \in Nat
      BY <2>1, <2>2
    <2>4. r = u \o v
      BY DEF u, v
    <2> HIDE DEF r
    <2>5. /\ r \in Seq(Keys) /\ Len(r) = Len(u) + Len(v)
          /\ \A i \in 1 .. Len(u) : r[i] = u[i]
          /\ \A i \in 1 .. Len(v) : r[Len(u) + i] = v[i]
      <3>1. /\ r \in Seq(Keys) /\ Len(r) = Len(u) + Len(v)
            /\ \A i \in 1 .. Len(u) + Len(v) : r[i] = IF i <= Len(u) THEN u[i] ELSE v[i - Len(u)]
        BY <2>1, <2>2, <2>4, ConcatProperties
      <3>2. ASSUME NEW i \in 1 .. Len(v) PROVE r[Len(u) + i] = v[i]
        <4>1. Len(u) + i \in 1 .. Len(u) + Len(v) /\ ~(Len(u) + i <= Len(u)) /\ (Len(u) + i) - Len(u) = i
          BY <2>3
        <4> QED BY <3>1, <4>1
      <3> QED BY <2>3, <3>1, <3>2
    <2>6. Len(r) = Len(s) - 1
      BY <1>2, <2>1, <2>2, <2>5
    <2>7. ASSUME NEW i \in 1 .. Len(s) - 1 PROVE r[i] = (IF i < n THEN s[i] ELSE s[i + 1])
      <3>1. CASE i < n
        BY <1>2, <2>1, <2>5, <3>1
      <3>2. CASE ~(i < n)
        <4> DEFINE j == i - n + 1
        <4>1. j \in 1 .. Len(s) - n /\ i = Len(u) + j /\ n + j = i + 1
          BY <1>2, <2>1, <3>2
        <4> HIDE DEF j
        <4>2. r[i] = v[j] /\ v[j] = s[n + j]
          BY <2>2, <2>5, <4>1
        <4> QED BY <3>2, <4>1, <4>2
      <3> QED BY <3>1, <3>2
    <2> QED BY <2>5, <2>6, <2>7
  <1>5. Authority!RemoveFirst(s, k) = r
    BY <1>3 DEF Authority!RemoveAt
  <1> HIDE DEF r
  <1> DEFINE Place(i) == IF i < n THEN i ELSE i + 1
  <1>6. Distinct(r)
    <2> SUFFICES ASSUME NEW i \in 1 .. Len(r), NEW j \in 1 .. Len(r), r[i] = r[j] PROVE i = j
      BY DEF Distinct
    <2>1. /\ Place(i) \in 1 .. Len(s) /\ r[i] = s[Place(i)]
          /\ Place(j) \in 1 .. Len(s) /\ r[j] = s[Place(j)]
      BY <1>2, <1>4
    <2>2. Place(i) = Place(j)
      <3> HIDE DEF Place
      <3> QED BY <2>1 DEF Distinct
    <2> QED BY <1>2, <1>4, <2>2
  <1>7. ASSUME NEW x \in Members(r) PROVE x \in Members(s) \ {k}
    <2>1. PICK i \in 1 .. Len(r) : x = r[i]
      BY DEF Members
    <2> QED BY <1>2, <1>4, <2>1 DEF Members, Distinct
  <1>8. ASSUME NEW x \in Members(s) \ {k} PROVE x \in Members(r)
    <2>1. PICK i \in 1 .. Len(s) : x = s[i]
      BY DEF Members
    <2>2. CASE i < n
      BY <1>2, <1>4, <2>1, <2>2 DEF Members
    <2>3. CASE i > n
      <3>1. i - 1 \in 1 .. Len(r) /\ r[i - 1] = s[i]
        BY <1>2, <1>4, <2>1, <2>3
      <3> QED BY <2>1, <3>1 DEF Members
    <2> QED BY <1>2, <2>1, <2>2, <2>3
  <1> QED BY <1>4, <1>5, <1>6, <1>7, <1>8

\* A key used again is the most recent one; no key is lost or repeated.
LEMMA MovedToEnd ==
    ASSUME OrderInv, NEW k \in Keys
    PROVE  LET s == Authority!MoveToEnd(k) IN
           /\ s \in Seq(Keys) /\ Distinct(s) /\ Members(s) = Members(order) \cup {k}
           /\ k \in Members(order) => Len(s) = Len(order)
  <1> DEFINE r == Authority!RemoveFirst(order, k)
  <1>1. /\ r \in Seq(Keys) /\ Distinct(r) /\ k \notin Members(r) /\ Members(r) = Members(order) \ {k}
        /\ k \in Members(order) => Len(r) = Len(order) - 1
    <2>1. CASE k \in Members(order)
      BY <2>1, RemovedFirst DEF OrderInv, Distinct
    <2>2. CASE k \notin Members(order)
      <3>1. r = order
        BY <2>2 DEF Members, Authority!RemoveFirst
      <3> QED BY <2>2, <3>1 DEF OrderInv, Distinct
    <2> QED BY <2>1, <2>2
  <1> DEFINE s == Append(r, k)
  <1>2. Authority!MoveToEnd(k) = s
    BY DEF Authority!MoveToEnd
  <1> HIDE DEF r
  <1>3. /\ s \in Seq(Keys) /\ Len(s) = Len(r) + 1 /\ Len(r) \in Nat /\ s[Len(r) + 1] = k
        /\ \A i \in 1 .. Len(r) : s[i] = r[i]
    BY <1>1
  <1> HIDE DEF s
  <1>4. Distinct(s)
    BY <1>1, <1>3 DEF Distinct, Members
  <1>5. Members(s) = Members(r) \cup {k}
    BY <1>3 DEF Members
  <1> QED BY <1>1, <1>2, <1>3, <1>4, <1>5 DEF OrderInv

\* The oldest keys are dropped.
LEMMA BoundedOrder ==
    ASSUME NEW s \in Seq(Keys), Distinct(s)
    PROVE  LET b == Authority!Bounded(s) IN
           b \in Seq(Keys) /\ Distinct(b) /\ Members(b) \subseteq Members(s) /\ Len(b) <= Capacity
  <1> DEFINE n == Authority!Min({Len(s), Capacity})
             b == SubSeq(s, Len(s) - n + 1, Len(s))
  <1>1. n \in {Len(s), Capacity} /\ n <= Len(s) /\ n <= Capacity /\ n \in Nat /\ Len(s) \in Nat
    <2>1. {Len(s), Capacity} \subseteq Nat
      BY AuthorityAssumption
    <2> QED BY <2>1, LeastIs
  <1>2. Authority!Bounded(s) = b
    BY DEF Authority!Bounded
  <1> HIDE DEF n
  <1>3. b \in Seq(Keys) /\ Len(b) = n /\ \A i \in 1 .. n : b[i] = s[Len(s) - n + i]
    BY <1>1
  <1> HIDE DEF b
  <1>4. Distinct(b)
    BY <1>1, <1>3 DEF Distinct
  <1>5. ASSUME NEW x \in Members(b) PROVE x \in Members(s)
    <2>1. PICK i \in 1 .. n : x = s[Len(s) - n + i]
      BY <1>3 DEF Members
    <2>2. Len(s) - n + i \in 1 .. Len(s)
      BY <1>1
    <2> QED BY <2>1, <2>2 DEF Members
  <1> QED BY <1>1, <1>2, <1>3, <1>4, <1>5

\* A cost is rounded up.
LEMMA RoundedUp ==
    ASSUME NEW x \in Nat
    PROVE  (x + Scale - 1) \div Scale \in Nat /\ x <= Scale * ((x + Scale - 1) \div Scale)
  BY AuthorityAssumption

\* A charge grows with the tokens.
LEMMA CostGrows ==
    ASSUME NEW p \in Nat, NEW q \in Nat, NEW a \in Nat, NEW b \in Nat, NEW x \in 0 .. a, NEW y \in 0 .. b
    PROVE  p * x + q * y <= p * a + q * b /\ p * a \in Nat /\ q * b \in Nat
  OBVIOUS

-----------------------------------------------------------------------------
(* Calls *)

Inputs == <<records, terms, offer, ask>>

\* What a call holds stays right while time passes.
LEMMA CallPersists ==
    ASSUME InputTypes, UNCHANGED Inputs, instant' \in Nat, instant <= instant', NEW step, NEW m, GoodCall(step, m)
    PROVE  GoodCall(step, m)'
  <1>1. UNCHANGED <<records, terms, offer, ask>> /\ instant \in Nat
    BY DEF Inputs, InputTypes
  <1>2. \A k, c, s : WasCurrent(k, c, s) /\ s \in Nat => WasCurrent(k, c, s)'
    BY <1>1 DEF WasCurrent, Authority!Current
  <1>3. \A k, c, s : WasNotCurrent(k, c, s) /\ s \in Nat => WasNotCurrent(k, c, s)'
    BY <1>1 DEF WasNotCurrent, Authority!Current
  <1>4. \A c, s : Shown(m, c, s) /\ s \in Nat => Shown(m, c, s)'
    BY <1>2, <1>3 DEF Shown
  <1>5. \A thing, s : Passed(thing, s) /\ s \in Nat => Passed(thing, s)'
    BY <1>1 DEF Passed
  <1>6. m \in Held /\ m.since \in Nat /\ m.at \in Nat
    BY DEF GoodCall, Held
  <1>7. m \in Held' /\ (step # "idle" => m.key \in Keys /\ m.config \in Listed /\ m.since <= instant')
    BY <1>1, <1>6 DEF GoodCall, Held
  <1>8. step \in {"lookup", "assess", "keep"} => m.since <= m.at /\ m.at <= instant'
    BY <1>1, <1>6 DEF GoodCall
  <1>9. step = "assess" => /\ m.next \in Listed /\ \A c \in m.result : c < m.next
                           /\ \A c \in Listed : c < m.next => Shown(m, c, m.at)'
    BY <1>4, <1>6 DEF GoodCall
  <1>10. /\ step = "keep" => \A c \in Listed : Shown(m, c, m.at)'
         /\ step = "answer" => Shown(m, m.config, m.since)'
    BY <1>4, <1>6 DEF GoodCall
  <1>11. /\ step \in Chosen => WasCurrent(m.key, m.config, m.since)'
         /\ step = "ineligible" => WasNotCurrent(m.key, m.config, m.since)'
    BY <1>2, <1>3, <1>6 DEF GoodCall
  <1>12. /\ step \in {"clock", "lookup", "assess", "keep", "answer"} \cup Chosen => Passed("target", m.since)'
         /\ step \in {"credential", "preflight", "authorized"} => Passed("grant", m.since)'
         /\ step \in {"preflight", "authorized"} => Passed("credential", m.since)'
    BY <1>5, <1>6 DEF GoodCall
  <1>13. step = "authorized" => (Authority!Admitted(ask, offer) /\ m.amount = Authority!CostBound(offer, ask.count, ask.max))'
    BY <1>1 DEF GoodCall
  <1> QED BY <1>7, <1>8, <1>9, <1>10, <1>11, <1>12, <1>13 DEF GoodCall

\* A step of one call at one instant.
LEMMA CallGoes ==
    ASSUME InputTypes, CallInv, UNCHANGED Inputs, UNCHANGED instant, NEW p \in Callers, NEW step, NEW m,
           Authority!Goto(p, step, m), GoodCall(step, m)
    PROVE  CallInv'
  <1>1. instant' \in Nat /\ instant <= instant'
    BY DEF InputTypes
  <1>2. ASSUME NEW q \in Callers PROVE GoodCall(pc[q], call[q])' 
    <2>1. GoodCall(pc'[q], call'[q])
      BY DEF Authority!Goto, CallInv, InputTypes
    <2>2. \A u, v : GoodCall(u, v) => GoodCall(u, v)'
      BY <1>1, CallPersists
    <2>3. \E u, v : u = pc'[q] /\ v = call'[q] /\ GoodCall(u, v)
      BY <2>1
    <2>4. PICK u, v : u = pc'[q] /\ v = call'[q] /\ GoodCall(u, v)
      BY <2>3
    <2>5. GoodCall(u, v)'
      BY <2>2, <2>4
    <2> QED BY <2>4, <2>5 DEF GoodCall
  <1> QED BY <1>2 DEF CallInv

\* What a step of a call needs.
LEMMA Calling ==
    ASSUME AuthorityInv, NEW p \in Callers, Authority!Leave
    PROVE  /\ UNCHANGED Inputs /\ UNCHANGED instant /\ InputTypes /\ CallInv /\ GoodCall(pc[p], call[p])
           /\ call[p] \in Held /\ instant \in Nat /\ instant \in instant .. instant
  <1>1. GoodCall(pc[p], call[p]) /\ instant \in Nat /\ InputTypes /\ CallInv
    BY DEF AuthorityInv, CallInv, InputTypes
  <1>2. UNCHANGED Inputs /\ UNCHANGED instant
    BY DEF Authority!Leave, Authority!input, Inputs
  <1> QED BY <1>1, <1>2 DEF GoodCall

\* A call begins, holding nothing.
LEMMA BeginCalls ==
    ASSUME AuthorityInv, NEW p \in Callers, NEW k \in Keys, NEW c \in Listed, Authority!Begin(p, k, c)
    PROVE  CallInv'
  <1> DEFINE m == [Authority!Nothing EXCEPT !.key = k, !.config = c, !.since = instant]
  <1>1. Authority!Goto(p, "target", m) /\ Authority!Leave
    BY DEF Authority!Begin
  <1>2. instant \in Nat
    BY <1>1, Calling
  <1>3. Authority!Nothing \in Held
    BY DEF Authority!Nothing, Held
  <1>4. /\ m \in Held /\ m.key = k /\ m.config = c /\ m.since = instant
        /\ m.result = Authority!Nothing.result /\ m.next = Authority!Nothing.next
    BY <1>2, <1>3 DEF Held
  <1>5. Authority!Nothing.result = {} /\ Authority!Nothing.next = 1
    BY DEF Authority!Nothing
  <1>6. GoodCall("target", m)
    <2> HIDE DEF m
    <2> QED BY <1>2, <1>4, <1>5 DEF GoodCall, Chosen
  <1> HIDE DEF m
  <1> QED BY <1>1, <1>6, Calling, CallGoes

\* What a check of an expiry lets pass had not expired.
LEMMA CheckCalls ==
    ASSUME AuthorityInv, NEW p \in Callers, Authority!Target(p) \/ Authority!Grant(p) \/ Authority!Credential(p)
    PROVE  CallInv'
  <1> DEFINE m == call[p]
             Expires(thing, from, to) ==
               /\ pc[p] = from /\ Authority!Leave
               /\ \/ terms[thing] > instant /\ Authority!Goto(p, to, m)
                  \/ Authority!Goto(p, "denied", m)
  <1>1. Expires("target", "target", "clock") \/ Expires("grant", "grant", "credential") \/ Expires("credential", "credential", "preflight")
    BY DEF Authority!Target, Authority!Grant, Authority!Credential, Authority!Unexpired
  <1>2. Authority!Leave
    BY <1>1
  <1>3. GoodCall(pc[p], m) /\ instant \in Nat
    BY <1>2, Calling
  <1>4. pc[p] # "idle" => GoodCall("denied", m)
    BY <1>3 DEF GoodCall, Chosen
  <1>5. m.since \in Nat
    BY <1>3 DEF GoodCall, Held
  <1>6. \A thing : pc[p] # "idle" /\ thing \in {"target", "grant", "credential"} /\ terms[thing] > instant => Passed(thing, m.since)
    <2> SUFFICES ASSUME NEW thing \in {"target", "grant", "credential"}, pc[p] # "idle", terms[thing] > instant
                 PROVE  Passed(thing, m.since)
      OBVIOUS
    <2>1. instant \in m.since .. instant
      BY <1>3, <1>5 DEF GoodCall
    <2>2. terms[thing] \in Nat
      BY <1>2, Calling, AuthorityAssumption DEF InputTypes
    <2>3. instant < terms[thing]
      BY <1>3, <2>2
    <2> QED BY <2>1, <2>3 DEF Passed
  <1> HIDE DEF m
  <1>7. CASE Expires("target", "target", "clock")
    <2>1. terms["target"] > instant => GoodCall("clock", m)
      BY <1>3, <1>6, <1>7 DEF GoodCall, Chosen
    <2> QED BY <1>2, <1>4, <1>7, <2>1, Calling, CallGoes
  <1>8. CASE Expires("grant", "grant", "credential")
    <2>1. terms["grant"] > instant => GoodCall("credential", m)
      BY <1>3, <1>6, <1>8 DEF GoodCall, Chosen
    <2> QED BY <1>2, <1>4, <1>8, <2>1, Calling, CallGoes
  <1>9. CASE Expires("credential", "credential", "preflight")
    <2>1. terms["credential"] > instant => GoodCall("preflight", m)
      BY <1>3, <1>6, <1>9 DEF GoodCall, Chosen
    <2> QED BY <1>2, <1>4, <1>9, <2>1, Calling, CallGoes
  <1> QED BY <1>1, <1>7, <1>8, <1>9

\* The clock is read after the call began.
LEMMA ClockCalls ==
    ASSUME AuthorityInv, NEW p \in Callers, Authority!ReadClock(p)
    PROVE  CallInv'
  <1> DEFINE m == call[p]
             n == [m EXCEPT !.at = instant]
  <1>1. pc[p] = "clock" /\ Authority!Goto(p, "lookup", n) /\ Authority!Leave
    BY DEF Authority!ReadClock
  <1>2. GoodCall("clock", m) /\ m \in Held /\ instant \in Nat
    BY <1>1, Calling
  <1>3. /\ n \in Held /\ n.key = m.key /\ n.config = m.config /\ n.since = m.since /\ n.at = instant
        /\ n.result = m.result /\ n.next = m.next
    BY <1>2 DEF Held
  <1> HIDE DEF m, n
  <1>4. GoodCall("lookup", n)
    BY <1>2, <1>3 DEF GoodCall, Chosen
  <1> QED BY <1>1, <1>4, Calling, CallGoes

\* The result so far, of one configuration more.
LEMMA AssessCalls ==
    ASSUME AuthorityInv, NEW p \in Callers, Authority!Assess(p)
    PROVE  CallInv'
  <1> DEFINE m == call[p]
             now == Authority!Current(records[m.key][m.next], instant)
             kept == IF now THEN {m.next} ELSE {}
             n == [m EXCEPT !.result = m.result \cup kept, !.next = m.next + 1]
             step == IF m.next = Cardinality(Listed) THEN "keep" ELSE "assess"
  <1>1. pc[p] = "assess" /\ Authority!Goto(p, step, n) /\ Authority!Leave
    BY AuthorityCounts DEF Authority!Assess
  <1>2. GoodCall("assess", m) /\ m \in Held /\ instant \in Nat
    BY <1>1, Calling
  <1>3. /\ m.next \in Listed /\ Listed = 1 .. Cardinality(Listed) /\ Cardinality(Listed) \in Nat /\ m.next \in Nat
        /\ \A c \in m.result : c < m.next
    BY <1>2, AuthorityAssumption, FS_CardinalityType DEF GoodCall
  <1>4. /\ n \in Held /\ n.key = m.key /\ n.config = m.config /\ n.since = m.since /\ n.at = m.at
        /\ n.result = m.result \cup kept /\ n.next = m.next + 1
    <2>1. m.result \cup kept \in SUBSET Listed /\ m.next + 1 \in Nat
      BY <1>2, <1>3 DEF Held
    <2> HIDE DEF kept
    <2> QED BY <1>2, <2>1 DEF Held
  <1>5. ASSUME NEW c \in Listed, c < n.next PROVE Shown(n, c, n.at)
    <2>1. CASE c < m.next
      <3>1. Shown(m, c, m.at) /\ (c \in n.result <=> c \in m.result)
        BY <1>2, <1>3, <1>4, <2>1 DEF GoodCall
      <3> QED BY <1>4, <3>1 DEF Shown
    <2>2. CASE c = m.next
      <3>1. instant \in n.at .. instant
        BY <1>2, <1>4 DEF GoodCall, Held
      <3>2. c \in n.result <=> now
        BY <1>3, <1>4, <2>2
      <3> QED BY <1>4, <2>2, <3>1, <3>2 DEF Shown, WasCurrent, WasNotCurrent
    <2> QED BY <1>3, <1>4, <1>5, <2>1, <2>2
  <1>6. ASSUME NEW c \in n.result PROVE c < n.next
    <2>1. c \in m.result \/ c = m.next
      BY <1>4
    <2>2. m.result \subseteq Nat
      BY <1>2, <1>3 DEF Held
    <2> QED BY <1>3, <1>4, <2>1, <2>2
  <1>7. /\ n.key \in Keys /\ n.config \in Listed /\ n.since <= instant /\ n.since <= n.at /\ n.at <= instant
        /\ Passed("target", n.since)
    BY <1>2, <1>4 DEF GoodCall
  <1>8. CASE m.next = Cardinality(Listed)
    <2>1. step = "keep"
      BY <1>8
    <2>2. \A c \in Listed : c < n.next
      BY <1>3, <1>4, <1>8
    <2> HIDE DEF m, n, step
    <2>3. GoodCall("keep", n)
      BY <1>4, <1>5, <1>7, <2>2 DEF GoodCall, Chosen
    <2> QED BY <1>1, <2>1, <2>3, Calling, CallGoes
  <1>9. CASE m.next # Cardinality(Listed)
    <2>1. step = "assess"
      BY <1>9
    <2>2. n.next \in Listed
      BY <1>3, <1>4, <1>9
    <2> HIDE DEF m, n, step
    <2>3. GoodCall("assess", n)
      BY <1>4, <1>5, <1>6, <1>7, <2>2 DEF GoodCall, Chosen
    <2> QED BY <1>1, <2>1, <2>3, Calling, CallGoes
  <1> QED BY <1>8, <1>9

\* The selector's answer is followed.
LEMMA AnswerCalls ==
    ASSUME AuthorityInv, NEW p \in Callers, Authority!Answer(p)
    PROVE  CallInv'
  <1> DEFINE m == call[p]
             step == IF m.config \in m.result THEN "grant" ELSE "ineligible"
  <1>1. pc[p] = "answer" /\ Authority!Goto(p, step, m) /\ Authority!Leave
    BY DEF Authority!Answer
  <1>2. GoodCall("answer", m)
    BY <1>1, Calling
  <1>3. \/ step = "grant" /\ m.config \in m.result
        \/ step = "ineligible" /\ m.config \notin m.result
    BY Zenon
  <1> HIDE DEF m, step
  <1>4. GoodCall(step, m)
    BY <1>2, <1>3 DEF GoodCall, Shown, Chosen
  <1> QED BY <1>1, <1>4, Calling, CallGoes

\* The amount is a number.
LEMMA CostIsNumber ==
    ASSUME NEW o \in Offers, NEW x \in Nat, NEW y \in Nat
    PROVE  Authority!CostBound(o, x, y) \in Nat
  <1>1. o.prices[1] \in Nat /\ o.prices[2] \in Nat
    BY AuthorityAssumption
  <1> DEFINE z == o.prices[1] * x + o.prices[2] * y
  <1>2. z \in Nat
    BY <1>1, CostGrows
  <1>3. Authority!CostBound(o, x, y) = IF o.local THEN 0 ELSE (z + Scale - 1) \div Scale
    BY DEF Authority!CostBound
  <1> HIDE DEF z
  <1> QED BY <1>2, <1>3, RoundedUp

\* Only what preflight admits is authorized, with its cost.
LEMMA PreflightCalls ==
    ASSUME AuthorityInv, NEW p \in Callers, Authority!Preflight(p)
    PROVE  CallInv'
  <1> DEFINE m == call[p]
             cost == Authority!CostBound(offer, ask.count, ask.max)
             n == [m EXCEPT !.amount = cost]
  <1>1. /\ pc[p] = "preflight" /\ Authority!Leave
        /\ \/ Authority!Admitted(ask, offer) /\ Authority!Goto(p, "authorized", n)
           \/ Authority!Goto(p, "denied", m)
    BY DEF Authority!Preflight
  <1>2. GoodCall("preflight", m) /\ m \in Held /\ cost \in Nat
    BY <1>1, Calling, CostIsNumber, AuthorityAssumption DEF InputTypes
  <1> HIDE DEF cost
  <1>3. /\ n \in Held /\ n.key = m.key /\ n.config = m.config /\ n.since = m.since /\ n.at = m.at
        /\ n.result = m.result /\ n.next = m.next /\ n.amount = cost
    BY <1>2 DEF Held
  <1> HIDE DEF m, n
  <1>4. Authority!Admitted(ask, offer) => GoodCall("authorized", n)
    BY <1>2, <1>3 DEF GoodCall, Chosen, cost
  <1>5. GoodCall("denied", m)
    BY <1>2 DEF GoodCall, Chosen
  <1> QED BY <1>1, <1>4, <1>5, Calling, CallGoes

-----------------------------------------------------------------------------
(* The cache *)

\* A usable entry answers what was so at some instant since the call read the clock.
LEMMA EntryAnswers ==
    ASSUME InputTypes, NEW k \in Keys, NEW e, GoodEntry(k, e), NEW c \in Listed,
           NEW s \in Nat, s <= instant, s < e.deadline
    PROVE  /\ c \in e.result => WasCurrent(k, c, s)
           /\ c \notin e.result => WasNotCurrent(k, c, s)
  <1> DEFINE r == records[k][c]
  <1>1. r.observed \in Nat /\ r.expires \in Nat /\ instant \in Nat
    BY AuthorityAssumption DEF InputTypes
  <1>2. /\ e.deadline <= r.expires /\ r.observed <= instant /\ e.deadline \in Nat
        /\ c \in e.result => r.observed < r.expires
        /\ c \notin e.result => r.expires <= instant
    BY DEF GoodEntry
  <1>3. CASE c \in e.result
    <2> DEFINE t == IF r.observed <= s THEN s ELSE r.observed
    <2>1. t \in s .. instant /\ r.observed <= t /\ t < r.expires
      <3> HIDE DEF r
      <3> QED BY <1>1, <1>2, <1>3
    <2> HIDE DEF t
    <2> QED BY <1>3, <2>1 DEF WasCurrent, Authority!Current
  <1>4. CASE c \notin e.result
    <2>1. instant \in s .. instant /\ ~(instant < r.expires)
      <3> HIDE DEF r
      <3> QED BY <1>1, <1>2, <1>4
    <2> QED BY <1>4, <2>1 DEF WasNotCurrent, Authority!Current
  <1> QED BY <1>3, <1>4

\* An entry stays right while time passes.
LEMMA EntryPersists ==
    ASSUME InputTypes, UNCHANGED Inputs, instant' \in Nat, instant <= instant', NEW k \in Keys, NEW e, GoodEntry(k, e)
    PROVE  GoodEntry(k, e)'
  <1>1. UNCHANGED records /\ instant \in Nat
    BY DEF Inputs, InputTypes
  <1>2. \A c \in Listed : records[k][c].observed \in Nat /\ records[k][c].expires \in Nat
    BY AuthorityAssumption DEF InputTypes
  <1> QED BY <1>1, <1>2 DEF GoodEntry

\* An answer from the cache is one of an instant since the clock was read.
LEMMA LookupCalls ==
    ASSUME AuthorityInv, NEW p \in Callers, Authority!Lookup(p)
    PROVE  CallInv'
  <1> DEFINE m == call[p]
             n == [m EXCEPT !.result = results[m.key].result]
  <1>1. /\ pc[p] = "lookup" /\ UNCHANGED Inputs /\ UNCHANGED instant
        /\ \/ Authority!Hit(p) /\ Authority!Goto(p, "answer", n)
           \/ Authority!Goto(p, "assess", m)
    BY DEF Authority!Lookup, Authority!input, Inputs
  <1>2. GoodCall("lookup", m) /\ InputTypes /\ CallInv /\ instant \in Nat
    BY <1>1 DEF AuthorityInv, CallInv, InputTypes
  <1>3. CASE Authority!Hit(p) /\ Authority!Goto(p, "answer", n)
    <2> DEFINE e == results[m.key]
    <2>1. m.key \in DOMAIN results /\ m.at < e.deadline
      BY <1>3 DEF Authority!Hit
    <2>2. GoodEntry(m.key, e)
      BY <2>1 DEF AuthorityInv, EntriesInv
    <2>3. m \in Held /\ e.result \in SUBSET Listed
      BY <1>2, <2>2 DEF GoodCall, GoodEntry
    <2> HIDE DEF e
    <2>4. /\ n \in Held /\ n.key = m.key /\ n.config = m.config /\ n.since = m.since /\ n.result = e.result
      BY <2>3 DEF Held, e
    <2> HIDE DEF m, n
    <2>5. m.key \in Keys /\ m.config \in Listed /\ m.since <= m.at /\ m.at <= instant /\ m.at \in Nat /\ m.since \in Nat
      BY <1>2, <2>3 DEF GoodCall, Held
    <2>6. /\ m.config \in e.result => WasCurrent(m.key, m.config, m.at)
          /\ m.config \notin e.result => WasNotCurrent(m.key, m.config, m.at)
      BY <1>2, <2>1, <2>2, <2>5, EntryAnswers DEF e
    <2>7. m.at .. instant \subseteq m.since .. instant
      BY <1>2, <2>5
    <2>8. Shown(n, n.config, n.since)
      BY <2>4, <2>6, <2>7 DEF Shown, WasCurrent, WasNotCurrent
    <2>9. GoodCall("answer", n)
      BY <1>2, <2>4, <2>5, <2>8 DEF GoodCall, Chosen
    <2> QED BY <1>1, <1>2, <1>3, <2>9, CallGoes DEF n, m
  <1>4. CASE Authority!Goto(p, "assess", m)
    <2> HIDE DEF m
    <2>1. /\ m \in Held /\ m.key \in Keys /\ m.config \in Listed /\ m.since <= instant /\ m.since <= m.at /\ m.at <= instant
          /\ m.result = {} /\ m.next = 1 /\ Passed("target", m.since)
      BY <1>2 DEF GoodCall
    <2>2. 1 \in Listed /\ \A c \in Listed : ~(c < 1)
      <3>1. Cardinality(Listed) \in Nat /\ Listed = 1 .. Cardinality(Listed)
        BY AuthorityAssumption, FS_CardinalityType
      <3> QED BY <2>1, <3>1
    <2>3. GoodCall("assess", m)
      BY <2>1, <2>2 DEF GoodCall, Chosen
    <2> QED BY <1>1, <1>2, <1>4, <2>3, CallGoes
  <1> QED BY <1>1, <1>3, <1>4

\* So is one just assessed.
LEMMA KeepCalls ==
    ASSUME AuthorityInv, NEW p \in Callers, Authority!Keep(p)
    PROVE  CallInv'
  <1> DEFINE m == call[p]
  <1>1. pc[p] = "keep" /\ UNCHANGED Inputs /\ UNCHANGED instant /\ Authority!Goto(p, "answer", m)
    BY DEF Authority!Keep, Authority!input, Inputs
  <1>2. GoodCall("keep", m) /\ InputTypes /\ CallInv /\ instant \in Nat
    BY <1>1 DEF AuthorityInv, CallInv, InputTypes
  <1> HIDE DEF m
  <1>3. /\ m \in Held /\ m.key \in Keys /\ m.config \in Listed /\ m.since <= instant /\ m.since <= m.at /\ m.at <= instant
        /\ Passed("target", m.since) /\ Shown(m, m.config, m.at) /\ m.since \in Nat /\ m.at \in Nat
    BY <1>2 DEF GoodCall, Held
  <1>4. m.at .. instant \subseteq m.since .. instant
    BY <1>2, <1>3
  <1>5. Shown(m, m.config, m.since)
    BY <1>3, <1>4 DEF Shown, WasCurrent, WasNotCurrent
  <1>6. GoodCall("answer", m)
    BY <1>3, <1>5 DEF GoodCall, Chosen
  <1> QED BY <1>1, <1>2, <1>6, CallGoes

\* The entry a call keeps.
LEMMA EntryKept ==
    ASSUME AuthorityInv, NEW p \in Callers, pc[p] = "keep", Authority!Cacheable(call[p].key, call[p].at)
    PROVE  GoodEntry(call[p].key,
                     [deadline |-> Authority!Deadline(call[p].key, call[p].at), result |-> call[p].result])
  <1> DEFINE m == call[p]
             d == Authority!Deadline(m.key, m.at)
             R == records[m.key]
  <1>1. GoodCall("keep", m) /\ InputTypes /\ instant \in Nat
    BY DEF AuthorityInv, CallInv, InputTypes
  <1> HIDE DEF m
  <1>2. /\ m \in Held /\ m.key \in Keys /\ m.at <= instant /\ m.at \in Nat /\ m.result \subseteq Listed
        /\ \A c \in Listed : Shown(m, c, m.at)
    BY <1>1 DEF GoodCall, Held
  <1>3. \A c \in Listed : R[c].observed \in Nat /\ R[c].expires \in Nat
    BY <1>1, <1>2, AuthorityAssumption DEF InputTypes
  <1>4. \A c \in Listed : R[c].observed <= m.at
    BY DEF Authority!Cacheable, Authority!Records, m
  <1>5. d \in Nat /\ \A c \in Listed : d <= R[c].expires
    <2> DEFINE T == {m.at + Ttl} \cup {r.expires : r \in Authority!Records(m.key)}
    <2>1. T \subseteq Nat /\ T # {}
      BY <1>2, <1>3, AuthorityAssumption DEF Authority!Records
    <2>2. d = Authority!Min(T)
      BY DEF Authority!Deadline
    <2>3. \A c \in Listed : R[c].expires \in T
      BY DEF Authority!Records
    <2> HIDE DEF T, d
    <2> QED BY <2>1, <2>2, <2>3, LeastIs
  <1>6. ASSUME NEW c \in Listed
        PROVE  /\ R[c].observed <= instant
               /\ c \in m.result => R[c].observed < R[c].expires
               /\ c \notin m.result => R[c].expires <= instant
    <2>1. R[c].observed \in Nat /\ R[c].expires \in Nat /\ R[c].observed <= m.at
      BY <1>3, <1>4
    <2>2. CASE c \in m.result
      <3>1. PICK t \in m.at .. instant : R[c].observed <= t /\ t < R[c].expires
        BY <1>2, <2>2 DEF Shown, WasCurrent, Authority!Current
      <3> QED BY <1>1, <1>2, <2>1, <2>2, <3>1
    <2>3. CASE c \notin m.result
      <3>1. PICK t \in m.at .. instant : ~(R[c].observed <= t /\ t < R[c].expires)
        BY <1>2, <2>3 DEF Shown, WasNotCurrent, Authority!Current
      <3> QED BY <1>1, <1>2, <2>1, <2>3, <3>1
    <2> QED BY <2>2, <2>3
  <1> HIDE DEF d
  <1>7. GoodEntry(m.key, [deadline |-> d, result |-> m.result])
    BY <1>2, <1>5, <1>6 DEF GoodEntry
  <1> QED BY <1>7 DEF d, m

\* Keeping an entry leaves the others right, and the cache within its capacity.
LEMMA CacheKept ==
    ASSUME AuthorityInv, NEW p \in Callers, Authority!Keep(p)
    PROVE  OrderInv' /\ EntriesInv'
  <1> DEFINE m == call[p]
             s == Authority!MoveToEnd(m.key)
             b == Authority!Bounded(s)
             entry == [deadline |-> Authority!Deadline(m.key, m.at), result |-> m.result]
  <1>1. /\ pc[p] = "keep" /\ UNCHANGED Inputs /\ UNCHANGED instant
        /\ \/ /\ Authority!Cacheable(m.key, m.at) /\ order' = b
              /\ results' = [k \in Authority!Range(b) |-> IF k = m.key THEN entry ELSE results[k]]
           \/ UNCHANGED <<results, order>>
    BY DEF Authority!Keep, Authority!input, Inputs
  <1>2. InputTypes /\ instant' \in Nat /\ instant <= instant' /\ OrderInv /\ EntriesInv /\ m.key \in Keys
    BY <1>1 DEF AuthorityInv, InputTypes, CallInv, GoodCall
  <1>3. \A k, e : k \in Keys /\ GoodEntry(k, e) => GoodEntry(k, e)'
    BY <1>1, <1>2, EntryPersists
  <1>4. DOMAIN results = Members(order) /\ Members(order) \subseteq Keys
    BY <1>2 DEF OrderInv, Members
  <1>5. CASE UNCHANGED <<results, order>>
    <2>1. OrderInv'
      BY <1>2, <1>5 DEF OrderInv
    <2>2. ASSUME NEW k \in DOMAIN results' PROVE GoodEntry(k, results[k])'
      <3>1. GoodEntry(k, results[k]) /\ k \in Keys
        BY <1>2, <1>4, <1>5, <2>2 DEF EntriesInv
      <3>2. PICK e : e = results[k]
        OBVIOUS
      <3>3. GoodEntry(k, e)' /\ results'[k] = e
        BY <1>3, <1>5, <3>1, <3>2
      <3> QED BY <3>3 DEF GoodEntry
    <2> QED BY <2>1, <2>2 DEF EntriesInv
  <1>6. CASE /\ Authority!Cacheable(m.key, m.at) /\ order' = b
             /\ results' = [k \in Authority!Range(b) |-> IF k = m.key THEN entry ELSE results[k]]
    <2>1. GoodEntry(m.key, entry)
      BY <1>1, <1>6, EntryKept
    <2> HIDE DEF entry, m
    <2>2. s \in Seq(Keys) /\ Distinct(s) /\ Members(s) = Members(order) \cup {m.key}
      BY <1>2, MovedToEnd
    <2> HIDE DEF s
    <2>3. b \in Seq(Keys) /\ Distinct(b) /\ Members(b) \subseteq Members(s) /\ Len(b) <= Capacity
      BY <2>2, BoundedOrder
    <2> HIDE DEF b
    <2>4. Authority!Range(b) = Members(b)
      BY <2>3 DEF Authority!Range, Members
    <2>5. DOMAIN results' = Members(b) /\ order' = b
      BY <1>6, <2>4
    <2>6. OrderInv'
      BY <2>3, <2>5 DEF OrderInv, Distinct, Members
    <2>7. ASSUME NEW k \in DOMAIN results' PROVE GoodEntry(k, results[k])'
      <3>1. results'[k] = IF k = m.key THEN entry ELSE results[k]
        BY <1>6, <2>7
      <3>2. k \in Keys /\ (k # m.key => k \in DOMAIN results)
        BY <1>2, <1>4, <2>2, <2>3, <2>5, <2>7
      <3>3. k # m.key => GoodEntry(k, results[k])
        BY <1>2, <3>2 DEF EntriesInv
      <3>4. \E e : results'[k] = e /\ GoodEntry(k, e)
        BY <2>1, <3>1, <3>3
      <3>5. PICK e : results'[k] = e /\ GoodEntry(k, e)
        BY <3>4
      <3>6. GoodEntry(k, e)'
        BY <1>3, <3>2, <3>5
      <3> QED BY <3>5, <3>6 DEF GoodEntry
    <2> QED BY <2>6, <2>7 DEF EntriesInv
  <1> QED BY <1>1, <1>5, <1>6

-----------------------------------------------------------------------------
(* Every step *)

\* What does not touch the cache leaves it right.
LEMMA CachePersists ==
    ASSUME AuthorityInv, UNCHANGED Inputs, UNCHANGED results, instant' \in Nat, instant <= instant'
    PROVE  EntriesInv'
  <1> SUFFICES ASSUME NEW k \in DOMAIN results' PROVE GoodEntry(k, results[k])'
    BY DEF EntriesInv
  <1>1. GoodEntry(k, results[k]) /\ k \in Keys /\ InputTypes
    BY DEF AuthorityInv, EntriesInv, OrderInv
  <1>2. PICK e : e = results[k]
    OBVIOUS
  <1>3. \A x, e1 : x \in Keys /\ GoodEntry(x, e1) => GoodEntry(x, e1)'
    BY <1>1, EntryPersists
  <1>4. GoodEntry(k, e)' /\ results'[k] = e
    BY <1>1, <1>2, <1>3
  <1> QED BY <1>4 DEF GoodEntry

\* Inputs stay, and time does not run backwards.
LEMMA TypesKept == AuthorityInv /\ [Authority!Next]_authorityVars => InputTypes' /\ instant' \in Nat /\ instant <= instant'
  <1> SUFFICES ASSUME AuthorityInv, [Authority!Next]_authorityVars
               PROVE  InputTypes' /\ instant' \in Nat /\ instant <= instant'
    OBVIOUS
  <1>1. UNCHANGED Inputs /\ (instant' = instant \/ (instant < MaxTime /\ instant' = instant + 1))
    BY DEF Authority!Next, authorityVars, Inputs, Authority!Tick, Authority!Begin, Authority!Target, Authority!ReadClock,
           Authority!Lookup, Authority!Assess, Authority!Keep, Authority!Answer, Authority!Grant, Authority!Credential,
           Authority!Preflight, Authority!Unexpired, Authority!Leave, Authority!input
  <1>2. instant \in 0 .. MaxTime /\ MaxTime \in Nat
    BY AuthorityAssumption DEF AuthorityInv, InputTypes
  <1>3. instant' \in 0 .. MaxTime /\ instant' \in Nat /\ instant <= instant'
    BY <1>1, <1>2
  <1>4. ASSUME NEW p \in Callers, NEW step \in Steps, NEW m, Authority!Goto(p, step, m)
        PROVE  pc' \in [Callers -> Steps] /\ DOMAIN call' = Callers
    BY <1>4 DEF AuthorityInv, InputTypes, Authority!Goto
  <1>5. \/ UNCHANGED <<pc, call>>
        \/ \E p \in Callers : \E step \in Steps : \E m : Authority!Goto(p, step, m)
    <2>1. CASE Authority!Tick \/ UNCHANGED authorityVars
      BY <2>1 DEF Authority!Tick, authorityVars
    <2>2. ASSUME NEW p \in Callers, NEW k \in Keys, NEW c \in Listed, Authority!Begin(p, k, c)
          PROVE  \E step \in Steps : \E m : Authority!Goto(p, step, m)
      BY <2>2 DEF Authority!Begin, Steps
    <2>3. ASSUME NEW p \in Callers,
                 Authority!Target(p) \/ Authority!ReadClock(p) \/ Authority!Lookup(p) \/ Authority!Grant(p)
                 \/ Authority!Credential(p)
          PROVE  \E step \in Steps : \E m : Authority!Goto(p, step, m)
      BY <2>3 DEF Authority!Target, Authority!ReadClock, Authority!Lookup, Authority!Grant, Authority!Credential,
           Authority!Unexpired, Steps, Authority!Ended
    <2>4. ASSUME NEW p \in Callers, Authority!Assess(p) PROVE \E step \in Steps : \E m : Authority!Goto(p, step, m)
      BY <2>4 DEF Authority!Assess, Steps
    <2>5. ASSUME NEW p \in Callers, Authority!Keep(p) \/ Authority!Answer(p) \/ Authority!Preflight(p)
          PROVE  \E step \in Steps : \E m : Authority!Goto(p, step, m)
      BY <2>5 DEF Authority!Keep, Authority!Answer, Authority!Preflight, Steps, Authority!Ended
    <2> QED BY <2>1, <2>2, <2>3, <2>4, <2>5 DEF Authority!Next
  <1>6. pc' \in [Callers -> Steps] /\ DOMAIN call' = Callers
    BY <1>4, <1>5 DEF AuthorityInv, InputTypes
  <1> QED BY <1>1, <1>3, <1>6 DEF AuthorityInv, InputTypes, Inputs

\* Every step keeps calls and cache right.
LEMMA AuthorityStep == AuthorityInv /\ [Authority!Next]_authorityVars => AuthorityInv'
  <1> SUFFICES ASSUME AuthorityInv, [Authority!Next]_authorityVars PROVE AuthorityInv'
    OBVIOUS
  <1>1. InputTypes' /\ instant' \in Nat /\ instant <= instant'
    BY TypesKept
  <1>2. ASSUME UNCHANGED <<Inputs, results, order>>, CallInv' PROVE AuthorityInv'
    <2>1. EntriesInv'
      BY <1>1, <1>2, CachePersists
    <2>2. OrderInv'
      BY <1>2 DEF AuthorityInv, OrderInv
    <2> QED BY <1>1, <1>2, <2>1, <2>2 DEF AuthorityInv
  <1>3. CASE Authority!Tick \/ UNCHANGED authorityVars
    <2>1. UNCHANGED <<Inputs, results, order, pc, call>>
      BY <1>3 DEF Authority!Tick, Authority!input, authorityVars, Inputs
    <2>2. ASSUME NEW p \in Callers PROVE GoodCall(pc[p], call[p])'
      <3>1. GoodCall(pc[p], call[p]) /\ InputTypes
        BY DEF AuthorityInv, CallInv
      <3>2. \A u, v : GoodCall(u, v) => GoodCall(u, v)'
        BY <1>1, <2>1, <3>1, CallPersists
      <3>3. \E u, v : u = pc[p] /\ v = call[p] /\ GoodCall(u, v)
        BY <3>1
      <3>4. PICK u, v : u = pc[p] /\ v = call[p] /\ GoodCall(u, v)
        BY <3>3
      <3>5. GoodCall(u, v)' /\ pc'[p] = u /\ call'[p] = v
        BY <2>1, <3>2, <3>4
      <3> QED BY <3>5 DEF GoodCall
    <2>3. CallInv'
      BY <2>2 DEF CallInv
    <2> QED BY <1>2, <2>1, <2>3
  <1>4. ASSUME NEW p \in Callers, Authority!Lookup(p) PROVE AuthorityInv'
    <2>1. CallInv' /\ UNCHANGED Inputs /\ UNCHANGED results
      BY <1>4, LookupCalls DEF Authority!Lookup, Authority!input, Inputs
    <2>2. EntriesInv'
      BY <1>1, <2>1, CachePersists
    <2>3. OrderInv'
      <3>1. CASE UNCHANGED order
        BY <2>1, <3>1 DEF AuthorityInv, OrderInv
      <3>2. CASE Authority!Hit(p) /\ order' = Authority!MoveToEnd(call[p].key)
        <4> DEFINE k == call[p].key
                   s == Authority!MoveToEnd(k)
        <4>1. OrderInv /\ k \in Members(order) /\ k \in Keys
          <5>1. OrderInv /\ k \in DOMAIN results
            BY <3>2 DEF AuthorityInv, Authority!Hit
          <5>2. k \in Members(order)
            BY <5>1 DEF OrderInv, Members
          <5> HIDE DEF k
          <5> QED BY <5>1, <5>2 DEF OrderInv, Members
        <4>2. s \in Seq(Keys) /\ Distinct(s) /\ Members(s) = Members(order) /\ Len(s) = Len(order)
          <5> HIDE DEF k
          <5>1. /\ s \in Seq(Keys) /\ Distinct(s) /\ Members(s) = Members(order) \cup {k}
                /\ k \in Members(order) => Len(s) = Len(order)
            BY <4>1, MovedToEnd, Zenon
          <5> HIDE DEF s
          <5> QED BY <4>1, <5>1
        <4> HIDE DEF s, k
        <4>3. order' = s
          BY <3>2 DEF s, k
        <4>4. Distinct(order') /\ order' \in Seq(Keys) /\ Len(order') <= Capacity
          BY <4>1, <4>2, <4>3 DEF OrderInv
        <4>5. DOMAIN results' = Members(order')
          BY <2>1, <4>1, <4>2, <4>3 DEF OrderInv, Members
        <4> QED BY <4>4, <4>5 DEF OrderInv, Distinct, Members
      <3> QED BY <1>4, <3>1, <3>2 DEF Authority!Lookup
    <2> QED BY <1>1, <2>1, <2>2, <2>3 DEF AuthorityInv
  <1>5. ASSUME NEW p \in Callers, Authority!Keep(p) PROVE AuthorityInv'
    BY <1>1, <1>5, KeepCalls, CacheKept DEF AuthorityInv
  <1>6. ASSUME NEW p \in Callers, NEW k \in Keys, NEW c \in Listed, Authority!Begin(p, k, c) PROVE AuthorityInv'
    <2>1. UNCHANGED <<Inputs, results, order>>
      BY <1>6 DEF Authority!Begin, Authority!Leave, Authority!input, Inputs
    <2> QED BY <1>2, <1>6, <2>1, BeginCalls
  <1>7. ASSUME NEW p \in Callers,
               \/ Authority!Target(p) \/ Authority!Grant(p) \/ Authority!Credential(p) \/ Authority!ReadClock(p)
               \/ Authority!Assess(p) \/ Authority!Answer(p) \/ Authority!Preflight(p)
        PROVE  AuthorityInv'
    <2>1. UNCHANGED <<Inputs, results, order>>
      BY <1>7 DEF Authority!Target, Authority!Grant, Authority!Credential, Authority!ReadClock, Authority!Assess,
           Authority!Answer, Authority!Preflight, Authority!Unexpired, Authority!Leave, Authority!input, Inputs
    <2>2. CallInv'
      BY <1>7, CheckCalls, ClockCalls, AssessCalls, AnswerCalls, PreflightCalls
    <2> QED BY <1>2, <2>1, <2>2
  <1> QED BY <1>3, <1>4, <1>5, <1>6, <1>7 DEF Authority!Next

\* At first nothing is called or cached.
LEMMA AuthorityInit == Authority!Init => AuthorityInv
  <1> SUFFICES ASSUME Authority!Init PROVE AuthorityInv
    OBVIOUS
  <1>1. InputTypes
    BY AuthorityAssumption DEF Authority!Init, InputTypes, Steps
  <1>2. ASSUME NEW p \in Callers PROVE GoodCall(pc[p], call[p])
    <2>1. pc[p] = "idle" /\ call[p] = Authority!Nothing
      BY DEF Authority!Init
    <2>2. Authority!Nothing \in Held
      BY DEF Authority!Nothing, Held
    <2>3. GoodCall("idle", Authority!Nothing)
      BY <2>2 DEF GoodCall, Chosen
    <2> QED BY <2>1, <2>3
  <1>3. order = <<>> /\ results = <<>>
    BY DEF Authority!Init
  <1>4. OrderInv
    BY <1>3, AuthorityAssumption DEF OrderInv
  <1>5. EntriesInv
    BY <1>3 DEF EntriesInv
  <1> QED BY <1>1, <1>2, <1>4, <1>5 DEF AuthorityInv, CallInv

\* The keys of an order without repetition are as many as its places.
LEMMA OrderCounts == OrderInv => DOMAIN results = Authority!Range(order) /\ Cardinality(Authority!Range(order)) = Len(order)
  <1> SUFFICES ASSUME OrderInv
               PROVE  DOMAIN results = Authority!Range(order) /\ Cardinality(Authority!Range(order)) = Len(order)
    OBVIOUS
  <1>1. Authority!Range(order) = {order[i] : i \in 1 .. Len(order)} /\ Len(order) \in Nat
    BY DEF OrderInv, Authority!Range
  <1>2. order \in Bijection(1 .. Len(order), Authority!Range(order))
    BY <1>1 DEF OrderInv, Bijection, Injection, Surjection, IsInjective
  <1>3. Cardinality(1 .. Len(order)) = Len(order) /\ IsFiniteSet(1 .. Len(order))
    BY <1>1, FS_Interval
  <1>4. Cardinality(Authority!Range(order)) = Len(order)
    BY <1>2, <1>3, FS_Bijection DEF ExistsBijection
  <1> QED BY <1>1, <1>4 DEF OrderInv

\* What an admitted call is charged at most, and the room it needs.
LEMMA AdmittedCovers ==
    ASSUME NEW o \in Offers, NEW a \in Asks, Authority!Admitted(a, o), NEW x \in 0 .. a.count, NEW y \in 0 .. a.max
    PROVE  LET cost == Authority!CostBound(o, a.count, a.max) IN
           /\ (IF o.local THEN 0 ELSE o.prices[1] * x + o.prices[2] * y) <= Scale * cost
           /\ x + y <= o.context /\ y <= o.output /\ cost <= a.budget.cost
  <1> DEFINE p == o.prices[1]
             q == o.prices[2]
             cost == Authority!CostBound(o, a.count, a.max)
             z == p * a.count + q * a.max
  <1>1. /\ p \in Nat /\ q \in Nat /\ a.count \in Nat /\ a.max \in Nat /\ o.local \in BOOLEAN
        /\ o.context \in Nat \cup {None} /\ o.prompt \in Nat \cup {None} /\ o.output \in Nat \cup {None}
    BY AuthorityAssumption
  <1>2. cost <= a.budget.cost /\ Authority!Limit(o, a.count) # None /\ a.max <= Authority!Limit(o, a.count)
    BY DEF Authority!Admitted
  <1>3. z \in Nat /\ p * x + q * y <= z
    BY <1>1, CostGrows
  <1>4. (IF o.local THEN 0 ELSE p * x + q * y) <= Scale * cost
    <2>1. cost = IF o.local THEN 0 ELSE (z + Scale - 1) \div Scale
      BY DEF Authority!CostBound
    <2>2. z <= Scale * ((z + Scale - 1) \div Scale)
      <3> HIDE DEF z
      <3> QED BY <1>3, RoundedUp
    <2>3. CASE o.local
      BY <2>1, <2>3, AuthorityAssumption
    <2>4. CASE ~o.local
      <3>1. cost = (z + Scale - 1) \div Scale
        BY <2>1, <2>4
      <3>2. p * x + q * y \in Nat
        BY <1>1
      <3> DEFINE w == p * x + q * y
                 d == Scale * cost
      <3>3. d \in Nat /\ z <= d
        <4>1. cost \in Nat
          BY <1>1, CostIsNumber
        <4>2. z <= d
          BY <2>2, <3>1
        <4> HIDE DEF cost, z
        <4> QED BY <4>1, <4>2, AuthorityAssumption
      <3>4. w <= d
        <4> HIDE DEF w, d, z
        <4> QED BY <1>3, <3>2, <3>3 DEF w
      <3> QED BY <2>4, <3>4
    <2> QED BY <2>3, <2>4
  <1> HIDE DEF cost, z, p, q
  <1>5. x + y <= o.context /\ y <= o.output
    <2>1. o.context \in Nat /\ o.output \in Nat
      BY <1>1, <1>2 DEF Authority!Limit
    <2>2. CASE Authority!Limit(o, a.count) = 0
      <3>1. a.max \in Nat \ {0} /\ a.max <= 0
        BY <1>2, <2>2, AuthorityAssumption
      <3> QED BY <3>1
    <2>3. CASE Authority!Limit(o, a.count) # 0
      <3>1. Authority!Limit(o, a.count) = Authority!Min({o.output, o.context - a.count}) /\ ~(a.count >= o.context)
        BY <1>2, <2>3 DEF Authority!Limit
      <3>2. {o.output, o.context - a.count} \subseteq Nat
        BY <1>1, <2>1, <3>1
      <3>3. a.max <= o.output /\ a.max <= o.context - a.count
        BY <1>1, <1>2, <2>1, <3>1, <3>2, LeastIs
      <3> QED BY <1>1, <2>1, <3>3
    <2> QED BY <2>2, <2>3
  <1> QED BY <1>2, <1>4, <1>5 DEF p, q, cost

\* The invariant says what is promised of decisions and amounts.
LEMMA AuthoritySafe == AuthorityInv => AuthoritySafety
  <1> SUFFICES ASSUME AuthorityInv PROVE AuthoritySafety
    OBVIOUS
  <1>1. Authority!TypeOK
    <2>1. OrderInv /\ EntriesInv /\ InputTypes
      BY DEF AuthorityInv
    <2>2. /\ DOMAIN results = Authority!Range(order) /\ Cardinality(Authority!Range(order)) = Len(order)
          /\ Len(order) <= Capacity
      BY <2>1, OrderCounts DEF OrderInv
    <2>3. \A k \in DOMAIN results : results[k].deadline \in Nat /\ results[k].result \subseteq Listed
      BY <2>1 DEF EntriesInv, GoodEntry
    <2>4. instant \in 0 .. MaxTime /\ pc \in [Callers -> Steps]
      BY <2>1 DEF InputTypes
    <2> QED BY <2>2, <2>3, <2>4, AuthorityCounts DEF Authority!TypeOK, Steps
  <1>2. Authority!CacheIsFresh
    <2> SUFFICES ASSUME NEW k \in DOMAIN results, NEW t \in 0 .. MaxTime, instant <= t, t < results[k].deadline
                 PROVE  results[k].result = Authority!Eligible(k, t)
      BY DEF Authority!CacheIsFresh
    <2> DEFINE e == results[k]
    <2>1. GoodEntry(k, e) /\ k \in Keys
      BY DEF AuthorityInv, EntriesInv, OrderInv
    <2>2. \A c \in Listed : records[k][c].observed \in Nat /\ records[k][c].expires \in Nat
      BY <2>1, AuthorityAssumption DEF AuthorityInv, InputTypes
    <2>3. instant \in Nat /\ t \in Nat /\ e.result \subseteq Listed /\ e.deadline \in Nat
      BY <2>1, AuthorityAssumption DEF AuthorityInv, InputTypes, GoodEntry
    <2> HIDE DEF e
    <2>4. ASSUME NEW c \in Listed PROVE c \in e.result <=> Authority!Current(records[k][c], t)
      BY <2>1, <2>2, <2>3 DEF GoodEntry, Authority!Current, e
    <2> QED BY <2>3, <2>4 DEF Authority!Eligible, e
  <1>3. ASSUME NEW p \in Callers PROVE GoodCall(pc[p], call[p])
    BY DEF AuthorityInv, CallInv
  <1>4. Authority!AuthorizedIsCurrent
    <2> SUFFICES ASSUME NEW p \in Callers, pc[p] = "authorized"
                 PROVE  /\ \E t \in Authority!Since(p) : call[p].config \in Authority!Eligible(call[p].key, t)
                        /\ \A thing \in DOMAIN terms : \E t \in Authority!Since(p) : t < terms[thing]
      BY DEF Authority!AuthorizedIsCurrent
    <2> DEFINE m == call[p]
    <2>1. GoodCall("authorized", m)
      BY <1>3
    <2> HIDE DEF m
    <2>2. /\ WasCurrent(m.key, m.config, m.since) /\ m.config \in Listed
          /\ Passed("target", m.since) /\ Passed("grant", m.since) /\ Passed("credential", m.since)
      BY <2>1 DEF GoodCall, Chosen
    <2>3. DOMAIN terms = {"target", "grant", "credential"}
      BY AuthorityAssumption DEF AuthorityInv, InputTypes
    <2>4. Authority!Since(p) = m.since .. instant
      BY DEF Authority!Since, m
    <2> QED BY <2>2, <2>3, <2>4 DEF WasCurrent, Passed, Authority!Eligible, m
  <1>5. Authority!RefusalIsCurrent
    <2> SUFFICES ASSUME NEW p \in Callers, pc[p] = "ineligible"
                 PROVE  \E t \in Authority!Since(p) : call[p].config \notin Authority!Eligible(call[p].key, t)
      BY DEF Authority!RefusalIsCurrent
    <2>1. WasNotCurrent(call[p].key, call[p].config, call[p].since)
      BY <1>3 DEF GoodCall
    <2> QED BY <2>1 DEF WasNotCurrent, Authority!Since, Authority!Eligible
  <1>6. Authority!ReservedCoversCharge
    <2> SUFFICES ASSUME NEW p \in Callers, pc[p] = "authorized", NEW in \in 0 .. ask.count, NEW out \in 0 .. ask.max
                 PROVE  /\ (IF offer.local THEN 0
                            ELSE offer.prices[1] * in + offer.prices[2] * out) <= Scale * call[p].amount
                        /\ in + out <= offer.context /\ out <= offer.output
                        /\ call[p].amount <= ask.budget.cost
      BY DEF Authority!ReservedCoversCharge
    <2>1. Authority!Admitted(ask, offer) /\ call[p].amount = Authority!CostBound(offer, ask.count, ask.max)
      BY <1>3 DEF GoodCall
    <2>2. offer \in Offers /\ ask \in Asks
      BY DEF AuthorityInv, InputTypes
    <2> QED BY <2>1, <2>2, AdmittedCovers
  <1> QED BY <1>1, <1>2, <1>4, <1>5, <1>6 DEF AuthoritySafety, Authority!DecisionsAreCurrent

\* Authority.stage authorizes and refuses on what was current since the call began, however
\* calls overlap on the cache of selection results, for any catalogs, keys, time to live and
\* capacity; and what preflight reserves covers every charge it admits, at any prices.
THEOREM SafeAuthority == EvidenceSpec => []AuthoritySafety
  <1>1. EvidenceInit => AuthorityInv
    BY AuthorityInit DEF EvidenceInit
  <1>2. [EvidenceNext]_evidenceVars => [Authority!Next]_authorityVars
    BY DEF EvidenceNext, evidenceVars
  <1> QED BY <1>1, <1>2, AuthorityStep, AuthoritySafe, PTL DEF EvidenceSpec
=============================================================================
