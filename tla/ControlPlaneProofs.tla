------------------------ MODULE ControlPlaneProofs ------------------------
(***************************************************************************)
(* Proofs about the tables that studio users work on: policies            *)
(* (PolicyLifecycle) for any number of revisions, contents, studio         *)
(* sessions, chat requests and admissions, and any bounds on the clock and *)
(* on the transitions of a revision; application keys (ApplicationKeys)    *)
(* for any keys, aliases, sessions and requests; plans (PlanSubmissions)   *)
(* for any keys, plans, contents, users and quota; Comparisons for any     *)
(* policies, samples, costs, caps, stages and callers; and derived         *)
(* revisions (PolicyEdits) for any workflow, configurations and requests.  *)
(***************************************************************************)
EXTENDS ControlPlane, FiniteSetTheorems, WellFoundedInduction, TLAPS

\* A revision exists exactly if it has a head, and so does every revision before it.
RevisionInv ==
    \A v \in Versions :
        /\ revision[v] # None <=> head[v] > 0
        /\ revision[v] # None => \A w \in Versions : w <= v => revision[w] # None

\* The alias pins a revision that exists, with its content.
AliasInv == alias # None => Pinned(alias)

\* What a session has read is still true when it commits: revisions and records stay.
CreateRead(x) ==
    /\ x.version <= x.latest + 1
    /\ \A w \in Versions : w <= x.latest => revision[w] # None
DecidedOn(x, status) ==
    /\ revision[x.version] # None /\ x.prior < MaxSequence
    /\ log[x.version][x.prior] # None /\ log[x.version][x.prior].status # status
CommitRead(x) ==
    /\ DecidedOn(x, x.value.status) /\ x.value.status # "draft"
    /\ x.value.status = "sandbox_enabled" =>
         /\ x.value.admission \in provisioned
         /\ x.value.admission.version = x.version
         /\ x.value.admission.content = revision[x.version]
Reads(x) ==
    /\ x.op = "create" => CreateRead(x)
    /\ x.op = "enable" => DecidedOn(x, "sandbox_enabled")
    /\ x.op = "commit" => CommitRead(x)
    /\ x.op = "alias" => Pinned(x.pin)
SessionInv == \A s \in Sessions : Reads(session[s])

\* The record a request has read at the head would enable it only if it did at that moment.
HeadRead(r) ==
    LET pin == request[r].pin
        t == log[pin.version][request[r].seq] IN
    /\ pin = alias /\ request[r].seq <= head[pin.version]
    /\ t.status = "sandbox_enabled" /\ now < t.admission.expires => ~never[r]
RequestInv ==
    \A r \in Requests :
        /\ AliasLive => ~never[r]
        /\ request[r].op = "head" => HeadRead(r)
        /\ request[r].op = "authorized" => request[r].pin = alias /\ ~never[r]

IndInv ==
    /\ TypeOK /\ RevisionInv /\ GaplessHistory /\ EnabledWasAdmitted /\ AliasInv
    /\ SessionInv /\ RequestInv

\* The two writes of the control plane: a revision after the latest one, with its head and
\* its draft record, and a transition after the record it was decided on.
NewRevision(v, c) ==
    /\ c \in Covered /\ revision[v] = None /\ head[v] = 0
    /\ \A w \in Versions : w < v => revision[w] # None
    /\ revision' = [revision EXCEPT ![v] = c]
    /\ head' = [head EXCEPT ![v] = 1]
    /\ log' = [log EXCEPT ![v][1] = Draft]
NewTransition(v, t) ==
    /\ t \in Transition /\ revision[v] # None /\ head[v] \in Sequences
    /\ head[v] < MaxSequence /\ t.status \notin {"draft", log[v][head[v]].status}
    /\ t.status = "sandbox_enabled" => /\ t.admission \in provisioned
                                       /\ t.admission.version = v
                                       /\ t.admission.content = revision[v]
    /\ head' = [head EXCEPT ![v] = head[v] + 1]
    /\ log' = [log EXCEPT ![v][head[v] + 1] = t]
    /\ UNCHANGED revision

\* Either adds one record after the last of its revision.
NewRecord(v, n, t) ==
    /\ n \in Sequences /\ n = head[v] + 1 /\ t \in Transition /\ log[v][n] = None
    /\ head' = [head EXCEPT ![v] = n]
    /\ log' \in [Versions -> [Sequences -> Transition \cup {None}]]
    /\ \A w \in Versions, q \in Sequences :
         log'[w][q] = IF w = v /\ q = n THEN t ELSE log[w][q]
-----------------------------------------------------------------------------
(* The steps *)

\* A nonempty set of naturals has a least element, and one below a bound a greatest.
LEMMA LeastExists ==
    ASSUME NEW T, T \subseteq Nat, T # {}
    PROVE  \E x \in T : \A y \in T : x <= y
  <1>1. PICK x \in T : \A y \in T : ~(<<y, x>> \in OpToRel(<, Nat))
    BY NatLessThanWellFounded, WFMin, Zenon
  <1>2. \A y \in T : ~(y < x)
    BY <1>1 DEF OpToRel
  <1> QED BY <1>2

\* One below a bound has a greatest.
LEMMA GreatestExists ==
    ASSUME NEW n \in Nat, NEW T, T \subseteq 1 .. n, T # {}
    PROVE  \E x \in T : \A y \in T : y <= x
  <1> DEFINE U == {k \in 0 .. n : n - k \in T}
  <1>1. \A y \in T : n - y \in U
    BY \A y \in T : n - y \in 0 .. n /\ n - (n - y) = y
  <1>2. U \subseteq Nat /\ U # {}
    <2>1. U \subseteq Nat
      OBVIOUS
    <2> HIDE DEF U
    <2> QED BY <1>1, <2>1
  <1>3. PICK x \in U : \A y \in U : x <= y
    <2> HIDE DEF U
    <2> QED BY <1>2, LeastExists
  <1>4. n - x \in T /\ x \in 0 .. n
    BY <1>3
  <1>5. ASSUME NEW y \in T PROVE y <= n - x
    BY <1>1, <1>3, <1>4
  <1> QED BY <1>4, <1>5

\* The states of a session, by what it is doing.
LEMMA SessionForms ==
    ASSUME NEW x \in SessionState
    PROVE  /\ x.op = "create" => x.version \in Versions /\ x.content \in Covered
                                 /\ x.latest \in {0} \cup Versions
           /\ x.op = "enable" => x.version \in Versions /\ x.prior \in Sequences
                                 /\ x.admission \in Admissions
           /\ x.op = "commit" => x.version \in Versions /\ x.prior \in Sequences
                                 /\ x.value \in Transition
           /\ x.op = "alias" => x.pin \in Pin
  BY DEF SessionState, Idle

\* The states of a request.
LEMMA RequestForms ==
    ASSUME NEW x \in RequestState
    PROVE  /\ x.op = "head" => x.pin \in Pin /\ x.seq \in Sequences
           /\ x.op = "authorized" => x.pin \in Pin
  BY DEF RequestState

\* Latest is the last revision there is: it and every one before it exist.
LEMMA LatestFacts ==
    ASSUME IndInv
    PROVE  Latest \in {0} \cup Versions /\ \A w \in Versions : w <= Latest => revision[w] # None
  <1> DEFINE T == {v \in Versions : revision[v] # None}
  <1>1. PICK n \in Versions : Versions = 1 .. n /\ n \in Nat
    BY VersionsAssumption
  <1>2. CASE T = {}
    BY <1>1, <1>2 DEF Latest
  <1>3. CASE T # {}
    <2>1. PICK v \in T : \A w \in T : w <= v
      BY <1>1, <1>3, GreatestExists
    <2>2. revision[v] # None /\ \A w \in Versions : w > v => revision[w] = None
      BY <1>1, <2>1
    <2>3. Latest \in Versions /\ revision[Latest] # None
      BY <2>1, <2>2 DEF Latest
    <2> QED BY <2>3 DEF IndInv, RevisionInv
  <1> QED BY <1>2, <1>3

\* Every step that writes a revision or a transition is one of the two writes.
LEMMA Writes == IndInv /\ [Next]_vars =>
    \/ UNCHANGED <<revision, head, log>>
    \/ \E v \in Versions, c \in Covered : NewRevision(v, c)
    \/ \E v \in Versions, t \in Transition : NewTransition(v, t)
  <1> DEFINE Written == \/ UNCHANGED <<revision, head, log>>
                        \/ \E v \in Versions, c \in Covered : NewRevision(v, c)
                        \/ \E v \in Versions, t \in Transition : NewTransition(v, t)
  <1> SUFFICES ASSUME IndInv, [Next]_vars PROVE Written
    OBVIOUS
  <1> USE DEF IndInv, stored, Goto, Answer
  <1>1. CASE Tick
    BY <1>1 DEF Tick, Watch
  <1>2. ASSUME NEW a \in Admissions,
               Provision(a)
        PROVE Written
    BY <1>2 DEF Provision, Watch
  <1>3. ASSUME NEW s \in Sessions,
               ReadLatest(s) \/ ReadDisable(s) \/ ReadEnable(s) \/ Admit(s)
               \/ ReadAliasPolicy(s) \/ Refused(s)
        PROVE Written
    BY <1>3 DEF ReadLatest, Sequential, ReadDisable, MayDisable, ReadEnable, Admit, Covers,
        ReadAliasPolicy, Pinned, Refused
  <1>4. ASSUME NEW s \in Sessions,
               CommitRevision(s)
        PROVE Written
    <2> DEFINE x == session[s]
    <2>1. /\ x.op = "create" /\ x.version \in Versions /\ x.content \in Covered
          /\ x.latest \in {0} \cup Versions /\ CreateRead(x)
      BY <1>4, SessionForms DEF CommitRevision, TypeOK, SessionInv, Reads
    <2>2. x.version \in Nat /\ x.latest \in Nat
      BY <2>1, VersionsAssumption
    <2>3. CASE IsNew(x.version, x.latest) /\ head[x.version] = 0
      <3>1. revision[x.version] = None
        BY <2>1, <2>3 DEF RevisionInv
      <3>2. \A w \in Versions : w < x.version => revision[w] # None
        BY <2>1, <2>2, <2>3, VersionsAssumption DEF IsNew, CreateRead
      <3>3. NewRevision(x.version, x.content)
        BY <1>4, <2>1, <2>2, <2>3, <3>1, <3>2 DEF CommitRevision, NewRevision, AppendRevision, IsNew
      <3> QED BY <2>1, <3>3
    <2>4. CASE ~IsNew(x.version, x.latest) /\ UNCHANGED <<head, log>>
      <3>1. revision[x.version] # None
        BY <2>1, <2>2, <2>4 DEF IsNew, CreateRead
      <3>2. revision' = revision
        BY <1>4, <2>1, <3>1 DEF CommitRevision, AppendRevision, TypeOK
      <3> QED BY <2>4, <3>2
    <2> QED BY <1>4, <2>3, <2>4 DEF CommitRevision
  <1>5. ASSUME NEW s \in Sessions,
               CommitTransition(s)
        PROVE Written
    <2> DEFINE x == session[s]
    <2>1. /\ x.op = "commit" /\ x.version \in Versions /\ x.prior \in Sequences
          /\ x.value \in Transition /\ CommitRead(x)
      BY <1>5, SessionForms DEF CommitTransition, TypeOK, SessionInv, Reads
    <2>2. NewTransition(x.version, x.value)
      BY <1>5, <2>1 DEF CommitTransition, HeadIs, NewTransition, CommitRead, DecidedOn
    <2> QED BY <2>1, <2>2
  <1>6. ASSUME NEW s \in Sessions,
               CommitAlias(s)
        PROVE Written
    BY <1>6 DEF CommitAlias, Watch
  <1>7. ASSUME NEW r \in Requests,
               Arrive(r) \/ ReadHead(r) \/ Authorize(r)
        PROVE Written
    BY <1>7 DEF Arrive, Watch, ReadHead, Authorize
  <1>8. CASE UNCHANGED vars
    BY <1>8 DEF vars
  <1> QED BY <1>1, <1>2, <1>3, <1>4, <1>5, <1>6, <1>7, <1>8 DEF Next

\* The first record of a revision is its draft.
LEMMA RevisionRecord ==
    ASSUME IndInv, NEW v \in Versions, NEW c \in Covered, NewRevision(v, c)
    PROVE  NewRecord(v, 1, Draft)
  <1>1. 1 \in Sequences /\ head[v] = 0 /\ Draft \in Transition
    BY BoundsAssumption DEF Sequences, NewRevision, Draft, Transition, Statuses
  <1>2. log[v][1] = None
    BY <1>1 DEF IndInv, GaplessHistory
  <1>3. log' = [log EXCEPT ![v][1] = Draft] /\ head' = [head EXCEPT ![v] = 1]
    BY DEF NewRevision
  <1> QED BY <1>1, <1>2, <1>3 DEF NewRecord, IndInv, TypeOK

\* A later one is its transition.
LEMMA TransitionRecord ==
    ASSUME IndInv, NEW v \in Versions, NEW t \in Transition, NewTransition(v, t)
    PROVE  NewRecord(v, head[v] + 1, t)
  <1>1. head[v] \in Nat /\ head[v] + 1 \in Sequences
    BY BoundsAssumption DEF Sequences, NewTransition
  <1>2. log[v][head[v] + 1] = None
    BY <1>1 DEF IndInv, GaplessHistory
  <1>3. log' = [log EXCEPT ![v][head[v] + 1] = t] /\ head' = [head EXCEPT ![v] = head[v] + 1]
    BY DEF NewTransition
  <1> QED BY <1>1, <1>2, <1>3 DEF NewRecord, IndInv, TypeOK

\* A record is written where there was none.
LEMMA KeptStep == IndInv /\ [Next]_vars => RecordsKept
  <1> SUFFICES ASSUME IndInv, [Next]_vars PROVE RecordsKept
    OBVIOUS
  <1>1. alias # None => alias' = alias
    BY DEF Next, vars, stored, Tick, Provision, ReadLatest, CommitRevision, ReadDisable, ReadEnable,
       Admit, CommitTransition, ReadAliasPolicy, CommitAlias, Refused, Arrive, ReadHead, Authorize
  <1>2. CASE UNCHANGED <<revision, head, log>>
    BY <1>1, <1>2 DEF RecordsKept
  <1>3. ASSUME NEW v \in Versions, NEW c \in Covered, NewRevision(v, c) PROVE RecordsKept
    <2>1. NewRecord(v, 1, Draft)
      BY <1>3, RevisionRecord
    <2> QED BY <1>1, <1>3, <2>1 DEF RecordsKept, NewRecord, NewRevision, IndInv, TypeOK
  <1>4. ASSUME NEW v \in Versions, NEW t \in Transition, NewTransition(v, t) PROVE RecordsKept
    <2>1. NewRecord(v, head[v] + 1, t)
      BY <1>4, TransitionRecord
    <2> QED BY <1>1, <1>4, <2>1 DEF RecordsKept, NewRecord, NewTransition
  <1> QED BY <1>2, <1>3, <1>4, Writes

\* Revisions stay numbered without a gap, each with its head.
LEMMA RevisionStep == IndInv /\ [Next]_vars => RevisionInv'
  <1> SUFFICES ASSUME IndInv, [Next]_vars PROVE RevisionInv'
    OBVIOUS
  <1> USE DEF IndInv, TypeOK, RevisionInv
  <1>1. CASE UNCHANGED <<revision, head, log>>
    BY <1>1
  <1>2. ASSUME NEW v \in Versions, NEW c \in Covered, NewRevision(v, c) PROVE RevisionInv'
    <2>1. c # None
      BY CoveredAssumption
    <2>2. \A w \in Versions : revision'[w] = IF w = v THEN c ELSE revision[w]
      BY <1>2 DEF NewRevision
    <2>3. \A w \in Versions : head'[w] = IF w = v THEN 1 ELSE head[w]
      BY <1>2 DEF NewRevision
    <2>4. \A w, u \in Versions : w <= u /\ revision'[u] # None => revision'[w] # None
      BY <1>2, <2>1, <2>2, VersionsAssumption DEF NewRevision
    <2> QED BY <2>1, <2>2, <2>3, <2>4
  <1>3. ASSUME NEW v \in Versions, NEW t \in Transition, NewTransition(v, t) PROVE RevisionInv'
    BY <1>3 DEF NewTransition, Sequences
  <1> QED BY <1>1, <1>2, <1>3, Writes

\* A transition follows the record it was decided on.
LEMMA HistoryStep == IndInv /\ [Next]_vars => GaplessHistory'
  <1> SUFFICES ASSUME IndInv, [Next]_vars PROVE GaplessHistory'
    OBVIOUS
  <1> USE DEF IndInv, TypeOK, GaplessHistory
  <1>1. CASE UNCHANGED <<revision, head, log>>
    BY <1>1
  <1>2. ASSUME NEW v \in Versions, NEW n, NEW t, NewRecord(v, n, t),
               IF n = 1 THEN t = Draft
               ELSE t.status \notin {"draft", log[v][head[v]].status}
        PROVE GaplessHistory'
    <2>1. /\ n \in Nat /\ n >= 1 /\ n = head[v] + 1 /\ n - 1 = head[v] /\ t # None
          /\ head[v] \in Nat
      BY <1>2, NoneAssumption DEF NewRecord, Sequences
    <2> SUFFICES ASSUME NEW w \in Versions, NEW q \in Sequences
                 PROVE  /\ log'[w][q] # None <=> q <= head'[w]
                        /\ log'[w][q] # None =>
                             IF q = 1 THEN log'[w][q] = Draft
                             ELSE log'[w][q].status \notin {"draft", log'[w][q - 1].status}
      OBVIOUS
    <2>2. q \in Nat /\ q >= 1 /\ (q # 1 => q - 1 \in Sequences)
      BY BoundsAssumption DEF Sequences
    <2>3. CASE w # v
      BY <1>2, <2>2, <2>3 DEF NewRecord
    <2>4. CASE w = v /\ q = n
      <3>1. log'[w][q] = t /\ head'[w] = n
        BY <1>2, <2>4 DEF NewRecord
      <3>2. q # 1 => log'[w][q - 1] = log[v][head[v]]
        BY <1>2, <2>1, <2>2, <2>4 DEF NewRecord
      <3> QED BY <1>2, <2>1, <2>4, <3>1, <3>2
    <2>5. CASE w = v /\ q # n
      <3>1. log'[w][q] = log[w][q] /\ head'[w] = n
        BY <1>2, <2>5 DEF NewRecord
      <3>2. log[w][q] # None <=> q <= n
        BY <2>1, <2>2, <2>5
      <3>3. log[w][q] # None /\ q # 1 => log'[w][q - 1] = log[w][q - 1]
        BY <1>2, <2>1, <2>2, <2>5, <3>2 DEF NewRecord
      <3> QED BY <2>5, <3>1, <3>2, <3>3
    <2> QED BY <2>3, <2>4, <2>5
  <1>3. ASSUME NEW v \in Versions, NEW c \in Covered, NewRevision(v, c) PROVE GaplessHistory'
    BY <1>2, <1>3, RevisionRecord
  <1>4. ASSUME NEW v \in Versions, NEW t \in Transition, NewTransition(v, t) PROVE GaplessHistory'
    <2>1. head[v] + 1 # 1
      BY <1>4 DEF NewTransition, Sequences
    <2> QED BY <1>2, <1>4, <2>1, TransitionRecord DEF NewTransition
  <1> QED BY <1>1, <1>3, <1>4, Writes

\* Only an admission that covered the revision enables it.
LEMMA AdmittedStep == IndInv /\ [Next]_vars => EnabledWasAdmitted'
  <1> SUFFICES ASSUME IndInv, [Next]_vars PROVE EnabledWasAdmitted'
    OBVIOUS
  <1>1. provisioned \subseteq provisioned'
    BY DEF Next, vars, stored, Tick, Provision, ReadLatest, CommitRevision, ReadDisable, ReadEnable,
       Admit, CommitTransition, ReadAliasPolicy, CommitAlias, Refused, Arrive, ReadHead, Authorize
  <1>2. CASE UNCHANGED <<revision, head, log>>
    BY <1>1, <1>2 DEF IndInv, EnabledWasAdmitted
  <1>3. ASSUME NEW v \in Versions, NEW c \in Covered, NewRevision(v, c) PROVE EnabledWasAdmitted'
    <2>1. NewRecord(v, 1, Draft) /\ Draft.status # "sandbox_enabled"
      BY <1>3, RevisionRecord DEF Draft
    <2>2. \A q \in Sequences : log[v][q] = None
      BY <1>3 DEF IndInv, TypeOK, GaplessHistory, NewRevision, Sequences
    <2>3. \A w \in Versions : w # v => revision'[w] = revision[w]
      BY <1>3 DEF IndInv, TypeOK, NewRevision
    <2> QED BY <1>1, <2>1, <2>2, <2>3 DEF IndInv, EnabledWasAdmitted, NewRecord
  <1>4. ASSUME NEW v \in Versions, NEW t \in Transition, NewTransition(v, t)
        PROVE  EnabledWasAdmitted'
    <2>1. NewRecord(v, head[v] + 1, t)
      BY <1>4, TransitionRecord
    <2> QED BY <1>1, <1>4, <2>1 DEF IndInv, EnabledWasAdmitted, NewRecord, NewTransition
  <1> QED BY <1>2, <1>3, <1>4, Writes

\* The alias pins what its session has read.
LEMMA AliasStep == IndInv /\ [Next]_vars => AliasInv'
  <1> SUFFICES ASSUME IndInv, [Next]_vars PROVE AliasInv'
    OBVIOUS
  <1>1. ASSUME NEW pin \in Pin, Pinned(pin) PROVE Pinned(pin)'
    <2>1. revision[pin.version] # None /\ pin.version \in Versions
      BY <1>1, CoveredAssumption DEF Pinned, Pin
    <2> QED BY <1>1, <2>1, KeptStep DEF Pinned, RecordsKept
  <1>2. CASE UNCHANGED alias
    BY <1>1, <1>2 DEF IndInv, TypeOK, AliasInv, Pinned
  <1>3. ASSUME NEW s \in Sessions, CommitAlias(s) PROVE AliasInv'
    <2>1. alias' = session[s].pin /\ session[s].pin \in Pin /\ Pinned(session[s].pin)
      BY <1>3, SessionForms DEF CommitAlias, IndInv, TypeOK, SessionInv, Reads
    <2> QED BY <1>1, <2>1 DEF AliasInv, Pinned
  <1> QED BY <1>2, <1>3 DEF Next, vars, stored, Tick, Provision, ReadLatest, CommitRevision,
      ReadDisable, ReadEnable, Admit, CommitTransition, ReadAliasPolicy, Refused, Arrive, ReadHead,
      Authorize

\* What a session has read stays true while it waits: records and admissions are only added.
LEMMA ReadsStay ==
    ASSUME IndInv, [Next]_vars, NEW s \in Sessions, session'[s] = session[s]
    PROVE  Reads(session[s])'
  <1> DEFINE x == session[s]
  <1>1. provisioned \subseteq provisioned'
    BY DEF Next, vars, stored, Tick, Provision, ReadLatest, CommitRevision, ReadDisable, ReadEnable,
       Admit, CommitTransition, ReadAliasPolicy, CommitAlias, Refused, Arrive, ReadHead, Authorize
  <1>2. Reads(x) /\ x \in SessionState
    BY DEF IndInv, TypeOK, SessionInv
  <1>3. RecordsKept
    BY KeptStep
  <1>4. CASE x.op = "create"
    BY <1>2, <1>3, <1>4, SessionForms DEF Reads, CreateRead, RecordsKept
  <1>5. CASE x.op = "enable"
    BY <1>2, <1>3, <1>5, SessionForms DEF Reads, DecidedOn, RecordsKept
  <1>6. CASE x.op = "commit"
    BY <1>1, <1>2, <1>3, <1>6, SessionForms DEF Reads, CommitRead, DecidedOn, RecordsKept
  <1>7. CASE x.op = "alias"
    <2>1. x.pin \in Pin /\ revision[x.pin.version] = x.pin.content
      BY <1>2, <1>7, SessionForms DEF Reads, Pinned
    <2>2. revision[x.pin.version] # None /\ x.pin.version \in Versions
      BY <2>1, CoveredAssumption DEF Pin
    <2> QED BY <1>3, <1>7, <2>1, <2>2 DEF Reads, Pinned, RecordsKept
  <1>8. CASE x.op \notin {"create", "enable", "commit", "alias"}
    BY <1>8 DEF Reads
  <1> QED BY <1>4, <1>5, <1>6, <1>7, <1>8

\* A session reads what its commit relies on.
LEMMA SessionStep == IndInv /\ [Next]_vars => SessionInv'
  <1> SUFFICES ASSUME IndInv, [Next]_vars, NEW s \in Sessions PROVE Reads(session[s])'
    BY DEF SessionInv
  <1>1. CASE session'[s] = session[s]
    BY <1>1, ReadsStay
  <1>2. CASE session'[s] = Idle
    BY <1>2 DEF Reads, Idle
  <1>3. CASE ReadLatest(s)
    <2>1. PICK v \in Versions, c \in Covered :
              /\ v <= Latest + 1 /\ UNCHANGED revision
              /\ session'[s] = [op |-> "create", version |-> v, content |-> c, latest |-> Latest]
      BY <1>3 DEF ReadLatest, Sequential, Goto, stored, IndInv, TypeOK
    <2> QED BY <2>1, LatestFacts DEF Reads, CreateRead
  <1>4. CASE ReadDisable(s)
    <2>1. PICK v \in Versions, prior \in Sequences :
              /\ revision[v] # None /\ MayDisable(v, prior) /\ prior < MaxSequence
              /\ session'[s] = [op |-> "commit", version |-> v, prior |-> prior,
                                value |-> [status |-> "disabled", admission |-> None]]
      BY <1>4 DEF ReadDisable, Goto, IndInv, TypeOK
    <2>2. log[v][prior] # None /\ log[v][prior].status # "disabled"
      BY <2>1, BoundsAssumption DEF IndInv, TypeOK, GaplessHistory, MayDisable, Sequences
    <2>3. UNCHANGED stored
      BY <1>4 DEF ReadDisable
    <2> QED BY <2>1, <2>2, <2>3 DEF Reads, CommitRead, DecidedOn, stored
  <1>5. CASE ReadEnable(s)
    <2>1. PICK v \in Versions, prior \in Sequences, a \in Admissions :
              /\ revision[v] # None /\ head[v] = prior /\ prior < MaxSequence
              /\ log[v][prior].status # "sandbox_enabled"
              /\ session'[s] = [op |-> "enable", version |-> v, prior |-> prior, admission |-> a]
      BY <1>5 DEF ReadEnable, Goto, IndInv, TypeOK
    <2>2. log[v][prior] # None
      BY <2>1, BoundsAssumption DEF IndInv, TypeOK, GaplessHistory, Sequences
    <2>3. UNCHANGED stored
      BY <1>5 DEF ReadEnable
    <2> QED BY <2>1, <2>2, <2>3 DEF Reads, DecidedOn, stored
  <1>6. CASE Admit(s)
    <2> DEFINE x == session[s]
    <2>1. x.op = "enable" /\ x.admission \in provisioned /\ Covers(x.admission, x.version)
      BY <1>6 DEF Admit
    <2>2. DecidedOn(x, "sandbox_enabled")
      BY <2>1 DEF IndInv, SessionInv, Reads
    <2>3. session'[s] = [op |-> "commit", version |-> x.version, prior |-> x.prior,
                         value |-> [status |-> "sandbox_enabled", admission |-> x.admission]]
      BY <1>6 DEF Admit, Goto, IndInv, TypeOK
    <2>4. UNCHANGED stored
      BY <1>6 DEF Admit
    <2> HIDE DEF x
    <2> QED BY <2>1, <2>2, <2>3, <2>4 DEF Reads, CommitRead, DecidedOn, Covers, stored
  <1>7. CASE ReadAliasPolicy(s)
    <2>1. PICK pin \in Pin : Pinned(pin) /\ session'[s] = [op |-> "alias", pin |-> pin]
      BY <1>7 DEF ReadAliasPolicy, Goto, IndInv, TypeOK
    <2>2. UNCHANGED stored
      BY <1>7 DEF ReadAliasPolicy
    <2> QED BY <2>1, <2>2 DEF Reads, Pinned, stored
  <1>8. CASE CommitRevision(s) \/ CommitTransition(s) \/ CommitAlias(s) \/ Refused(s)
    BY <1>2, <1>8 DEF CommitRevision, CommitTransition, CommitAlias, Refused, Goto, IndInv, TypeOK
  <1>9. ASSUME NEW t \in Sessions, t # s,
               \/ ReadLatest(t) \/ CommitRevision(t) \/ ReadDisable(t) \/ ReadEnable(t) \/ Admit(t)
               \/ CommitTransition(t) \/ ReadAliasPolicy(t) \/ CommitAlias(t) \/ Refused(t)
        PROVE  Reads(session[s])'
    BY <1>1, <1>9 DEF ReadLatest, CommitRevision, ReadDisable, ReadEnable, Admit, CommitTransition,
       ReadAliasPolicy, CommitAlias, Refused, Goto, IndInv, TypeOK
  <1>10. CASE UNCHANGED session
    BY <1>1, <1>10
  <1> QED BY <1>3, <1>4, <1>5, <1>6, <1>7, <1>8, <1>9, <1>10
      DEF Next, vars, Tick, Provision, Arrive, ReadHead, Authorize

\* Time does not go back.
LEMMA TimeStep ==
    ASSUME IndInv, [Next]_vars
    PROVE  now \in Nat /\ now' \in Nat /\ now <= now' /\ now' \in 0 .. MaxTime
  <1>1. now \in 0 .. MaxTime /\ MaxTime \in Nat
    BY BoundsAssumption DEF IndInv, TypeOK
  <1>2. now' = now \/ (now < MaxTime /\ now' = now + 1)
    BY DEF Next, vars, Tick, Provision, ReadLatest, CommitRevision, ReadDisable, ReadEnable, Admit,
       CommitTransition, ReadAliasPolicy, CommitAlias, Refused, Arrive, ReadHead, Authorize
  <1> QED BY <1>1, <1>2

\* A step that may change what the alias enables is watched by every request.
LEMMA WatchStep ==
    ASSUME IndInv, [Next]_vars, NEW r \in Requests
    PROVE  /\ AliasLive' => ~never'[r]
           /\ request[r] # Idle /\ ~never[r] => ~never'[r]
  <1>1. CASE Watch
    BY <1>1 DEF Watch
  <1>2. CASE UNCHANGED <<now, stored, never>>
    BY <1>2 DEF IndInv, RequestInv, AliasLive, Live, stored
  <1>3. ASSUME NEW q \in Requests, Arrive(q)
        PROVE  /\ AliasLive' => ~never'[r]
               /\ request[r] # Idle /\ ~never[r] => ~never'[r]
    <2>1. AliasLive' <=> AliasLive
      BY <1>3 DEF Arrive, AliasLive, Live, stored
    <2>2. never'[r] = IF r = q THEN ~AliasLive ELSE never[r]
      BY <1>3 DEF Arrive, IndInv, TypeOK
    <2>3. request[q] = Idle
      BY <1>3 DEF Arrive
    <2>4. AliasLive => ~never[r]
      BY DEF IndInv, RequestInv
    <2> QED BY <2>1, <2>2, <2>3, <2>4
  <1> QED BY <1>1, <1>2, <1>3 DEF Next, vars, Tick, Provision, ReadLatest, CommitRevision,
      ReadDisable, ReadEnable, Admit, CommitTransition, ReadAliasPolicy, CommitAlias, Refused,
      ReadHead, Authorize

\* What a request has read was true after it arrived, and stays written.
LEMMA RequestStep == IndInv /\ [Next]_vars => RequestInv'
  <1> DEFINE Good(r) == /\ AliasLive => ~never[r]
                        /\ request[r].op = "head" => HeadRead(r)
                        /\ request[r].op = "authorized" => request[r].pin = alias /\ ~never[r]
  <1> SUFFICES ASSUME IndInv, [Next]_vars, NEW r \in Requests PROVE Good(r)'
    BY DEF RequestInv
  <1>1. /\ AliasLive' => ~never'[r]
        /\ request[r] # Idle /\ ~never[r] => ~never'[r]
    BY WatchStep
  <1>2. Good(r) /\ request[r] \in RequestState
    BY DEF IndInv, TypeOK, RequestInv
  <1>3. CASE request'[r] = request[r]
    <2>1. CASE request[r].op = "head"
      <3> DEFINE pin == request[r].pin
                 q == request[r].seq
      <3>1. /\ pin = alias /\ alias \in Pin /\ q \in Sequences /\ q <= head[pin.version]
            /\ pin.version \in Versions
        BY <1>2, <2>1, RequestForms DEF HeadRead, Pin
      <3>2. log[pin.version][q] # None
        BY <3>1 DEF IndInv, GaplessHistory
      <3>3. alias' = alias /\ log'[pin.version][q] = log[pin.version][q]
        BY <3>1, <3>2, KeptStep, NoneAssumption DEF RecordsKept
      <3>4. q <= head'[pin.version]
        BY <3>1, <3>2, <3>3, HistoryStep DEF GaplessHistory
      <3>5. ASSUME log'[pin.version][q].status = "sandbox_enabled",
                   now' < log'[pin.version][q].admission.expires
            PROVE  ~never'[r]
        <4>1. now < log[pin.version][q].admission.expires
          <5>1. log[pin.version][q] \in Transition /\ log[pin.version][q].status = "sandbox_enabled"
            BY <3>1, <3>2, <3>3, <3>5 DEF IndInv, TypeOK
          <5>2. log[pin.version][q].admission \in Admissions
            BY <3>1, <3>2, <5>1 DEF IndInv, TypeOK, EnabledWasAdmitted
          <5>3. log[pin.version][q].admission.expires \in Nat
            BY <5>2, AdmissionsAssumption
          <5>4. now \in Nat /\ now' \in Nat /\ now <= now'
            BY TimeStep
          <5> QED BY SMTT(60), <3>3, <3>5, <5>3, <5>4
        <4>2. ~never[r]
          BY <1>2, <2>1, <3>3, <3>5, <4>1 DEF HeadRead
        <4> QED BY <1>1, <2>1, <4>2 DEF Idle
      <3> QED BY <1>1, <1>3, <2>1, <3>1, <3>3, <3>4, <3>5 DEF HeadRead
    <2>2. CASE request[r].op = "authorized"
      <3>1. alias \in Pin /\ request[r].pin = alias /\ ~never[r]
        BY <1>2, <2>2, RequestForms
      <3>2. alias' = alias
        BY <3>1, KeptStep, NoneAssumption DEF RecordsKept
      <3> QED BY <1>1, <1>3, <2>2, <3>1, <3>2 DEF Idle
    <2> QED BY <1>1, <1>3, <2>1, <2>2
  <1>4. CASE request'[r] \in {[op |-> "arrived"], [op |-> "denied"]}
    BY <1>1, <1>4
  <1>5. CASE ReadHead(r) /\ alias # None
    <2>1. /\ request'[r] = [op |-> "head", pin |-> alias, seq |-> head[alias.version]]
          /\ UNCHANGED <<now, stored, never>>
      BY <1>5 DEF ReadHead, Answer, IndInv, TypeOK
    <2>2. alias.version \in Versions /\ head[alias.version] > 0
      BY <1>5, CoveredAssumption DEF IndInv, TypeOK, AliasInv, Pinned, RevisionInv, Pin
    <2>3. AliasLive => ~never[r]
      BY <1>2
    <2>4. head[alias.version] <= head[alias.version]
      BY <2>2 DEF IndInv, TypeOK
    <2> QED BY <1>1, <1>5, <2>1, <2>2, <2>3, <2>4 DEF HeadRead, AliasLive, Live, stored
  <1>6. CASE Authorize(r) /\ request'[r].op = "authorized"
    <2> DEFINE pin == request[r].pin
               t == log[pin.version][request[r].seq]
    <2>1. /\ request[r].op = "head" /\ Enabled(t, pin.version)
          /\ request'[r] = [op |-> "authorized", pin |-> pin] /\ UNCHANGED <<stored, never>>
      BY <1>6 DEF Authorize, Answer, IndInv, TypeOK
    <2>2. pin = alias /\ ~never[r]
      BY <1>2, <2>1 DEF HeadRead, Enabled, Covers
    <2> QED BY <1>1, <2>1, <2>2 DEF stored
  <1>7. ASSUME NEW q \in Requests, Arrive(q) \/ ReadHead(q) \/ Authorize(q) PROVE Good(r)'
    <2>1. CASE q # r
      <3>1. request'[r] = request[r]
        BY <1>7, <2>1 DEF Arrive, ReadHead, Authorize, Answer, IndInv, TypeOK
      <3> QED BY <1>3, <3>1
    <2>2. CASE q = r /\ Arrive(r)
      BY <1>4, <2>2 DEF Arrive, Answer, IndInv, TypeOK
    <2>3. CASE q = r /\ ReadHead(r)
      BY <1>4, <1>5, <2>3 DEF ReadHead, Answer, IndInv, TypeOK
    <2>4. CASE q = r /\ Authorize(r)
      BY <1>4, <1>6, <2>4 DEF Authorize, Answer, IndInv, TypeOK
    <2> QED BY <1>7, <2>1, <2>2, <2>3, <2>4
  <1>8. CASE UNCHANGED request
    BY <1>3, <1>8
  <1> QED BY <1>7, <1>8 DEF Next, vars, Tick, Provision, ReadLatest, CommitRevision, ReadDisable,
      ReadEnable, Admit, CommitTransition, ReadAliasPolicy, CommitAlias, Refused

\* The stored records keep their types.
LEMMA StoredTypes ==
    ASSUME IndInv, [Next]_vars
    PROVE  /\ revision' \in [Versions -> Contents \cup {None}]
           /\ head' \in [Versions -> 0 .. MaxSequence]
           /\ log' \in [Versions -> [Sequences -> Transition \cup {None}]]
           /\ provisioned' \subseteq Admissions /\ alias' \in Pin \cup {None}
  <1> DEFINE Records == /\ revision' \in [Versions -> Contents \cup {None}]
                        /\ head' \in [Versions -> 0 .. MaxSequence]
                        /\ log' \in [Versions -> [Sequences -> Transition \cup {None}]]
  <1>1. ASSUME UNCHANGED <<revision, head, log>> PROVE Records
    BY <1>1 DEF IndInv, TypeOK
  <1>2. ASSUME NEW v \in Versions, NEW c \in Covered, NewRevision(v, c) PROVE Records
    <2>1. NewRecord(v, 1, Draft) /\ 1 \in 0 .. MaxSequence
      BY <1>2, RevisionRecord, BoundsAssumption
    <2> QED BY <1>2, <2>1, CoveredAssumption DEF NewRecord, NewRevision, IndInv, TypeOK
  <1>3. ASSUME NEW v \in Versions, NEW t \in Transition, NewTransition(v, t) PROVE Records
    <2>1. NewRecord(v, head[v] + 1, t) /\ head[v] + 1 \in 0 .. MaxSequence
      BY <1>3, TransitionRecord, BoundsAssumption DEF NewRecord, Sequences
    <2> QED BY <1>3, <2>1 DEF NewRecord, NewTransition, IndInv, TypeOK
  <1>4. provisioned' \subseteq Admissions
    BY ZenonT(60) DEF IndInv, TypeOK, Next, vars, stored, Tick, Provision, ReadLatest, CommitRevision,
       ReadDisable, ReadEnable, Admit, CommitTransition, ReadAliasPolicy, CommitAlias, Refused,
       Arrive, ReadHead, Authorize
  <1>5. ASSUME NEW s \in Sessions, CommitAlias(s) PROVE alias' \in Pin \cup {None}
    BY <1>5, SessionForms DEF CommitAlias, IndInv, TypeOK
  <1>6. alias' \in Pin \cup {None}
    BY <1>5 DEF IndInv, TypeOK, Next, vars, stored, Tick, Provision, ReadLatest, CommitRevision,
       ReadDisable, ReadEnable, Admit, CommitTransition, ReadAliasPolicy, Refused,
       Arrive, ReadHead, Authorize
  <1> QED BY <1>1, <1>2, <1>3, <1>4, <1>6, Writes

\* So do the sessions.
LEMMA SessionTypes ==
    ASSUME IndInv, [Next]_vars
    PROVE  session' \in [Sessions -> SessionState]
  <1>1. ASSUME NEW s \in Sessions, NEW x \in SessionState, Goto(s, x)
        PROVE  session' \in [Sessions -> SessionState]
    BY <1>1 DEF Goto, IndInv, TypeOK
  <1>2. ASSUME NEW s \in Sessions, ReadLatest(s) PROVE session' \in [Sessions -> SessionState]
    <2>1. PICK v \in Versions, c \in Covered :
            Goto(s, [op |-> "create", version |-> v, content |-> c, latest |-> Latest])
      BY <1>2 DEF ReadLatest
    <2>2. [op |-> "create", version |-> v, content |-> c, latest |-> Latest] \in SessionState
      BY LatestFacts DEF SessionState
    <2> QED BY <1>1, <2>1, <2>2
  <1>3. ASSUME NEW s \in Sessions, ReadDisable(s) PROVE session' \in [Sessions -> SessionState]
    <2>1. PICK v \in Versions, prior \in Sequences :
            Goto(s, [op |-> "commit", version |-> v, prior |-> prior,
                     value |-> [status |-> "disabled", admission |-> None]])
      BY <1>3 DEF ReadDisable
    <2>2. [op |-> "commit", version |-> v, prior |-> prior,
           value |-> [status |-> "disabled", admission |-> None]] \in SessionState
      BY DEF SessionState, Transition, Statuses
    <2> QED BY <1>1, <2>1, <2>2
  <1>4. ASSUME NEW s \in Sessions, ReadEnable(s) PROVE session' \in [Sessions -> SessionState]
    <2>1. PICK v \in Versions, prior \in Sequences, a \in Admissions :
            Goto(s, [op |-> "enable", version |-> v, prior |-> prior, admission |-> a])
      BY <1>4 DEF ReadEnable
    <2>2. [op |-> "enable", version |-> v, prior |-> prior, admission |-> a] \in SessionState
      BY DEF SessionState
    <2> QED BY <1>1, <2>1, <2>2
  <1>5. ASSUME NEW s \in Sessions, Admit(s) PROVE session' \in [Sessions -> SessionState]
    <2> DEFINE x == session[s]
               y == [op |-> "commit", version |-> x.version, prior |-> x.prior,
                     value |-> [status |-> "sandbox_enabled", admission |-> x.admission]]
    <2>1. x.version \in Versions /\ x.prior \in Sequences /\ x.admission \in Admissions
      BY <1>5, SessionForms DEF Admit, IndInv, TypeOK
    <2>2. y \in SessionState
      BY <2>1 DEF SessionState, Transition, Statuses
    <2>3. session' = [session EXCEPT ![s] = y]
      BY <1>5 DEF Admit, Goto
    <2> HIDE DEF y
    <2> QED BY <2>2, <2>3 DEF IndInv, TypeOK
  <1>6. ASSUME NEW s \in Sessions, ReadAliasPolicy(s) PROVE session' \in [Sessions -> SessionState]
    <2>1. PICK pin \in Pin : Goto(s, [op |-> "alias", pin |-> pin])
      BY <1>6 DEF ReadAliasPolicy
    <2>2. [op |-> "alias", pin |-> pin] \in SessionState
      BY DEF SessionState
    <2> QED BY <1>1, <2>1, <2>2
  <1>7. Idle \in SessionState
    BY DEF SessionState
  <1>8. ASSUME NEW s \in Sessions,
               CommitRevision(s) \/ CommitTransition(s) \/ CommitAlias(s) \/ Refused(s)
        PROVE  session' \in [Sessions -> SessionState]
    BY <1>1, <1>7, <1>8 DEF CommitRevision, CommitTransition, CommitAlias, Refused
  <1>9. CASE UNCHANGED session
    BY <1>9 DEF IndInv, TypeOK
  <1> QED BY <1>2, <1>3, <1>4, <1>5, <1>6, <1>8, <1>9
      DEF Next, vars, Tick, Provision, Arrive, ReadHead, Authorize

\* And the requests.
LEMMA RequestTypes ==
    ASSUME IndInv, [Next]_vars
    PROVE  request' \in [Requests -> RequestState] /\ never' \in [Requests -> BOOLEAN]
  <1>1. never' \in [Requests -> BOOLEAN]
    <2>1. CASE Watch
      BY <2>1 DEF Watch
    <2>2. CASE UNCHANGED never
      BY <2>2 DEF IndInv, TypeOK
    <2>3. ASSUME NEW r \in Requests, Arrive(r) PROVE never' \in [Requests -> BOOLEAN]
      BY <2>3 DEF Arrive, IndInv, TypeOK
    <2> QED BY <2>1, <2>2, <2>3 DEF Next, vars, Tick, Provision, ReadLatest, CommitRevision,
        ReadDisable, ReadEnable, Admit, CommitTransition, ReadAliasPolicy, CommitAlias, Refused,
        ReadHead, Authorize
  <1>2. ASSUME NEW r \in Requests, NEW x \in RequestState, Answer(r, x)
        PROVE  request' \in [Requests -> RequestState]
    BY <1>2 DEF Answer, IndInv, TypeOK
  <1>3. {[op |-> "arrived"], [op |-> "denied"]} \subseteq RequestState
    BY DEF RequestState
  <1>4. ASSUME NEW r \in Requests, ReadHead(r), alias # None
        PROVE  request' \in [Requests -> RequestState]
    <2> DEFINE x == [op |-> "head", pin |-> alias, seq |-> head[alias.version]]
    <2>1. alias \in Pin /\ alias.version \in Versions /\ head[alias.version] > 0
      BY <1>4, CoveredAssumption DEF IndInv, TypeOK, AliasInv, Pinned, RevisionInv, Pin
    <2>2. head[alias.version] \in Sequences
      BY <2>1, BoundsAssumption DEF IndInv, TypeOK, Sequences
    <2>3. x \in RequestState
      BY <2>1, <2>2 DEF RequestState
    <2>4. request' = [request EXCEPT ![r] = x]
      BY <1>4 DEF ReadHead, Answer
    <2> HIDE DEF x
    <2> QED BY <2>3, <2>4 DEF IndInv, TypeOK
  <1>5. ASSUME NEW r \in Requests, Authorize(r) PROVE request' \in [Requests -> RequestState]
    <2> DEFINE x == [op |-> "authorized", pin |-> request[r].pin]
    <2>1. request[r].pin \in Pin
      BY <1>5, RequestForms DEF Authorize, IndInv, TypeOK
    <2>2. x \in RequestState
      BY <2>1 DEF RequestState
    <2>3. request' = [request EXCEPT ![r] = x] \/ Answer(r, [op |-> "denied"])
      BY <1>5 DEF Authorize, Answer
    <2> HIDE DEF x
    <2> QED BY <1>2, <1>3, <2>2, <2>3 DEF IndInv, TypeOK
  <1>6. ASSUME NEW r \in Requests, Arrive(r) \/ (ReadHead(r) /\ alias = None)
        PROVE  request' \in [Requests -> RequestState]
    BY <1>2, <1>3, <1>6 DEF Arrive, ReadHead
  <1>7. ASSUME UNCHANGED request PROVE request' \in [Requests -> RequestState]
    BY <1>7 DEF IndInv, TypeOK
  <1> QED BY <1>1, <1>4, <1>5, <1>6, <1>7 DEF Next, vars, Tick, Provision, ReadLatest,
      CommitRevision, ReadDisable, ReadEnable, Admit, CommitTransition, ReadAliasPolicy,
      CommitAlias, Refused

-----------------------------------------------------------------------------
(* The theorems *)

\* A policy without revisions.
LEMMA IndInit == Init => IndInv
  <1> SUFFICES ASSUME Init PROVE IndInv
    OBVIOUS
  <1> USE DEF Init
  <1>1. Idle \in SessionState /\ Idle \in RequestState /\ Idle.op = "idle"
    BY DEF Idle, SessionState, RequestState
  <1>2. never \in [Requests -> BOOLEAN]
    OBVIOUS
  <1>3. TypeOK
    BY <1>1, <1>2, BoundsAssumption DEF TypeOK
  <1>4. RevisionInv /\ AliasInv /\ EnabledWasAdmitted
    BY DEF RevisionInv, AliasInv, EnabledWasAdmitted
  <1>5. GaplessHistory
    BY BoundsAssumption DEF GaplessHistory, Sequences
  <1>6. SessionInv
    BY <1>1 DEF SessionInv, Reads
  <1>7. RequestInv
    BY <1>1 DEF RequestInv, AliasLive
  <1> QED BY <1>3, <1>4, <1>5, <1>6, <1>7 DEF IndInv

\* Every state of the control plane satisfies the inductive invariant.
THEOREM Inductive == Spec => []IndInv
  <1>1. IndInv /\ [Next]_vars => TypeOK'
    BY TimeStep, StoredTypes, SessionTypes, RequestTypes DEF TypeOK
  <1>2. IndInv /\ [Next]_vars => IndInv'
    BY <1>1, RevisionStep, HistoryStep, AdmittedStep, AliasStep, SessionStep, RequestStep
       DEF IndInv
  <1> QED BY <1>2, IndInit, PTL DEF Spec

\* Whatever sessions commit between another one's read and its write, the revisions are
\* numbered without a gap, the audit trail of each is complete, only a matching admission
\* enables one, and a request is authorized only for the alias's pin and only if that was
\* live after the request arrived.
THEOREM SafePolicies == Spec => []PolicySafety
  <1>1. IndInv => SequentialRevisions
    <2> SUFFICES ASSUME IndInv, NEW v \in Versions, v > 1, revision[v] # None
                 PROVE  revision[v - 1] # None
      BY DEF SequentialRevisions, IndInv, RevisionInv
    <2>1. v - 1 \in Versions /\ v - 1 <= v
      BY VersionsAssumption
    <2> QED BY <2>1 DEF IndInv, RevisionInv
  <1>2. IndInv => AuthorizedWasLive
    BY DEF IndInv, RequestInv, AuthorizedWasLive
  <1>3. IndInv => AuthorizedAsPinned
    <2> SUFFICES ASSUME IndInv, NEW r \in Requests, request[r].op = "authorized"
                 PROVE  request[r].pin = alias /\ Pinned(request[r].pin)
      BY DEF AuthorizedAsPinned
    <2>1. request[r].pin = alias /\ request[r].pin \in Pin
      BY RequestForms DEF IndInv, TypeOK, RequestInv
    <2> QED BY <2>1, NoneAssumption DEF IndInv, AliasInv
  <1>4. IndInv => PolicySafety
    BY <1>1, <1>2, <1>3 DEF IndInv, PolicySafety
  <1> QED BY <1>4, Inductive, PTL

\* Revisions, transition records and the alias pin are written once.
THEOREM ImmutableRecords == Spec => Immutable
  <1>1. IndInv /\ [Next]_vars => [RecordsKept]_vars
    BY KeptStep
  <1> QED BY <1>1, Inductive, PTL DEF Spec, Immutable

-----------------------------------------------------------------------------
(* Application keys *)

\* The chain of a key: nothing, an issued version, or a revocation after it.
ChainInv ==
    /\ record \in [Keys -> UNION {[D -> Key!Record] : D \in {{}, {1}, {1, 2}}}]
    /\ \A k \in Keys :
        /\ 1 \in Key!Written(k) => ~record[k][1].revoked
        /\ 2 \in Key!Written(k) => record[k][2].revoked
        /\ k \in acknowledged => 2 \in Key!Written(k)

\* A key is saved by the session that chose it, with aliases that exist; a revocation goes on
\* from the first version.
IssuerInv ==
    \A s \in Sessions :
        /\ issuer[s].op = "issue" =>
            /\ Key!Written(issuer[s].key) = {} /\ issuer[s].grants \subseteq pinned
            /\ \A t \in Sessions : issuer[t].op = "issue" /\ issuer[t].key = issuer[s].key => s = t
        /\ issuer[s].op = "revoke" => issuer[s].version = 1 /\ 1 \in Key!Written(issuer[s].key)

\* A request that arrived after the answer to a revocation has not got past its key's record.
BearerInv ==
    \A r \in Requests :
        /\ bearer[r].op \in {"context", "checked"} => ~bearer[r].late
        /\ bearer[r].op = "bearer" /\ bearer[r].late => bearer[r].key \in acknowledged

KeyInv ==
    /\ Key!TypeOK /\ ChainInv /\ IssuerInv /\ BearerInv
    /\ Key!AuthorityNeverGrows /\ Key!KeyIsBudgeted

\* The newest version of a chain.
LEMMA ChainFacts ==
    ASSUME ChainInv, NEW k \in Keys
    PROVE  /\ Key!Written(k) \in {{}, {1}, {1, 2}}
           /\ \A v \in Key!Written(k) : record[k][v] \in Key!Record
           /\ Key!Written(k) = {1} =>
                Key!Latest(k) = 1 /\ Key!Newest(k) = record[k][1] /\ ~Key!Newest(k).revoked
           /\ Key!Written(k) = {1, 2} =>
                Key!Latest(k) = 2 /\ Key!Newest(k) = record[k][2] /\ Key!Newest(k).revoked
  <1>1. record[k] \in UNION {[D -> Key!Record] : D \in {{}, {1}, {1, 2}}}
    BY DEF ChainInv
  <1>2. PICK D \in {{}, {1}, {1, 2}} : record[k] \in [D -> Key!Record]
    BY <1>1
  <1>3. /\ Key!Written(k) = {1} => Key!Latest(k) = 1
        /\ Key!Written(k) = {1, 2} => Key!Latest(k) = 2
    BY DEF Key!Latest
  <1>4. Key!Written(k) = D /\ \A v \in D : record[k][v] \in Key!Record
    BY <1>2 DEF Key!Written
  <1> QED BY <1>3, <1>4 DEF ChainInv, Key!Newest

\* What a session holds.
LEMMA IssuerHolds ==
    ASSUME NEW x \in Key!SessionState
    PROVE  /\ x.op \in {"idle", "issue", "revoke"}
           /\ x.op = "issue" =>
                x.key \in Keys /\ x.grants \in SUBSET Aliases /\ x.expires \in 1 .. MaxTime + 1
           /\ x.op = "revoke" => x.key \in Keys /\ x.version \in 1 .. 2
           /\ x.op = "idle" => x = Key!Idle
  <1>1. CASE x = Key!Idle
    BY <1>1 DEF Key!Idle
  <1>2. CASE x \in [op : {"issue"}, key : Keys, grants : SUBSET Aliases, expires : 1 .. MaxTime + 1]
    BY <1>2
  <1>3. CASE x \in [op : {"revoke"}, key : Keys, version : 1 .. 2]
    BY <1>3
  <1> QED BY <1>1, <1>2, <1>3 DEF Key!SessionState

\* What a request holds.
LEMMA BearerHolds ==
    ASSUME NEW x \in Key!RequestState
    PROVE  /\ x.op \in {"idle", "denied", "bearer", "context", "checked"}
           /\ x.op = "bearer" => /\ x.key \in Keys /\ x.genuine \in BOOLEAN /\ x.alias \in Aliases
                                 /\ x.late \in BOOLEAN
           /\ x.op \in {"context", "checked"} =>
                /\ x.key \in Keys /\ x.alias \in Aliases /\ x.late \in BOOLEAN
                /\ x = [op |-> x.op, key |-> x.key, alias |-> x.alias, late |-> x.late]
  <1>1. CASE x \in {Key!Idle, [op |-> "denied"]}
    BY <1>1 DEF Key!Idle
  <1>2. CASE x \in [op : {"bearer"}, key : Keys, genuine : BOOLEAN, alias : Aliases, late : BOOLEAN]
    BY <1>2
  <1>3. CASE x \in [op : {"context", "checked"}, key : Keys, alias : Aliases, late : BOOLEAN]
    BY <1>3
  <1> QED BY <1>1, <1>2, <1>3 DEF Key!RequestState

\* Initially nothing is written.
LEMMA KeyInit == Key!Init => KeyInv
  <1> SUFFICES ASSUME Key!Init PROVE KeyInv
    OBVIOUS
  <1>1. \A k \in Keys : record[k] = [v \in {} |-> 0] /\ Key!Written(k) = {}
    BY DEF Key!Init, Key!Written
  <1>2. \A s \in Sessions : issuer[s] = Key!Idle /\ issuer[s].op = "idle"
    BY DEF Key!Init, Key!Idle
  <1>3. \A r \in Requests : bearer[r] = Key!Idle /\ bearer[r].op = "idle"
    BY DEF Key!Init, Key!Idle
  <1>4. Key!TypeOK
    BY <1>1, <1>2, <1>3, BoundsAssumption
    DEF Key!Init, Key!TypeOK, Key!SessionState, Key!RequestState
  <1>5. ChainInv
    <2>1. [v \in {} |-> 0] \in [{} -> Key!Record]
      OBVIOUS
    <2>2. [v \in {} |-> 0] \in UNION {[D -> Key!Record] : D \in {{}, {1}, {1, 2}}}
      BY <2>1
    <2>3. record \in [Keys -> UNION {[D -> Key!Record] : D \in {{}, {1}, {1, 2}}}]
      BY <2>2 DEF Key!Init
    <2>4. acknowledged = {}
      BY DEF Key!Init
    <2> QED BY <1>1, <2>3, <2>4 DEF ChainInv
  <1>6. IssuerInv /\ BearerInv
    BY <1>2, <1>3 DEF IssuerInv, BearerInv
  <1>7. Key!AuthorityNeverGrows /\ Key!KeyIsBudgeted
    BY <1>1 DEF Key!AuthorityNeverGrows, Key!KeyIsBudgeted
  <1> QED BY <1>4, <1>5, <1>6, <1>7 DEF KeyInv

\* The clock and new aliases.
LEMMA KeyIdleStep ==
    ASSUME KeyInv, Key!Tick \/ (\E a \in Aliases : Key!CreateAlias(a)) \/ UNCHANGED Key!vars
    PROVE  KeyInv'
  <1>1. /\ UNCHANGED <<record, verifier, budget, issuer, bearer, acknowledged>>
        /\ pinned \subseteq pinned'
    BY DEF Key!Tick, Key!CreateAlias, Key!vars, Key!rows
  <1>2. keyTime' \in 0 .. MaxTime /\ pinned' \subseteq Aliases
    BY BoundsAssumption DEF Key!Tick, Key!CreateAlias, Key!vars, Key!rows, KeyInv, Key!TypeOK
  <1>3. Key!TypeOK'
    BY <1>1, <1>2 DEF KeyInv, Key!TypeOK, Key!Written
  <1>4. ChainInv' /\ BearerInv' /\ Key!KeyIsBudgeted'
    BY <1>1 DEF KeyInv, ChainInv, BearerInv, Key!KeyIsBudgeted, Key!Written
  <1>5. IssuerInv'
    BY <1>1 DEF KeyInv, IssuerInv, Key!Written
  <1>6. Key!AuthorityNeverGrows'
    BY <1>1 DEF KeyInv, Key!AuthorityNeverGrows, Key!Written
  <1> QED BY <1>3, <1>4, <1>5, <1>6 DEF KeyInv

\* What a session decides to do, before its write.
LEMMA IssuerStep ==
    ASSUME KeyInv, NEW s \in Sessions, Key!BeginIssue(s) \/ Key!BeginRevoke(s) \/ Key!Abandon(s)
    PROVE  KeyInv'
  <1>1. UNCHANGED <<keyTime, pinned, record, verifier, budget, bearer>>
    BY DEF Key!BeginIssue, Key!BeginRevoke, Key!Abandon, Key!rows
  <1>2. issuer \in [Sessions -> Key!SessionState] /\ acknowledged \subseteq Keys
    BY DEF KeyInv, Key!TypeOK
  <1>3. /\ acknowledged \subseteq acknowledged'
        /\ \A k \in acknowledged' : k \in Keys /\ 2 \in Key!Written(k)
    <2>1. ASSUME NEW k \in Keys, Key!Written(k) # {}, Key!Newest(k).revoked PROVE 2 \in Key!Written(k)
      BY <2>1, ChainFacts DEF KeyInv
    <2>2. \A k \in acknowledged : 2 \in Key!Written(k)
      BY <1>2 DEF KeyInv, ChainInv
    <2> QED BY <1>2, <2>1, <2>2 DEF Key!BeginIssue, Key!BeginRevoke, Key!Abandon
  <1>4. PICK x : /\ x = issuer[s] \/ x \in Key!SessionState
                 /\ issuer' = [issuer EXCEPT ![s] = x]
                 /\ x.op = "issue" => /\ Key!Written(x.key) = {} /\ x.grants \subseteq pinned
                                      /\ \A t \in Sessions :
                                           t # s /\ issuer[t].op = "issue" => issuer[t].key # x.key
                 /\ x.op = "revoke" => x.version = 1 /\ 1 \in Key!Written(x.key)
    <2>1. CASE Key!BeginIssue(s)
      <3>1. PICK k \in Keys, grants \in SUBSET Aliases, e \in 1 .. MaxTime + 1 :
              /\ Key!Written(k) = {} /\ \A t \in Sessions : issuer[t].op = "issue" => issuer[t].key # k
              /\ Key!Grantable(grants)
              /\ Key!Goto(s, [op |-> "issue", key |-> k, grants |-> grants, expires |-> e])
        BY <2>1 DEF Key!BeginIssue
      <3> DEFINE x == [op |-> "issue", key |-> k, grants |-> grants, expires |-> e]
      <3>2. x \in Key!SessionState /\ x.op = "issue" /\ x.key = k /\ x.grants = grants
        BY DEF Key!SessionState
      <3>3. issuer' = [issuer EXCEPT ![s] = x]
        BY <3>1 DEF Key!Goto
      <3> HIDE DEF x
      <3> QED BY <3>1, <3>2, <3>3 DEF Key!Grantable
    <2>2. CASE Key!BeginRevoke(s)
      <3>1. PICK k \in Keys :
              /\ Key!Written(k) # {}
              /\ \/ UNCHANGED issuer
                 \/ /\ ~Key!Newest(k).revoked
                    /\ Key!Goto(s, [op |-> "revoke", key |-> k, version |-> Key!Latest(k)])
        BY <2>2 DEF Key!BeginRevoke
      <3>2. CASE UNCHANGED issuer
        <4>1. issuer' = [issuer EXCEPT ![s] = issuer[s]]
          BY <1>2, <3>2
        <4> QED BY <4>1 DEF KeyInv, IssuerInv
      <3>3. CASE /\ ~Key!Newest(k).revoked
                 /\ Key!Goto(s, [op |-> "revoke", key |-> k, version |-> Key!Latest(k)])
        <4>1. Key!Latest(k) = 1 /\ 1 \in Key!Written(k)
          BY <3>1, <3>3, ChainFacts DEF KeyInv
        <4> DEFINE x == [op |-> "revoke", key |-> k, version |-> 1]
        <4>2. x \in Key!SessionState /\ x.op = "revoke" /\ x.key = k /\ x.version = 1
          BY DEF Key!SessionState
        <4>3. issuer' = [issuer EXCEPT ![s] = x]
          BY <3>3, <4>1 DEF Key!Goto
        <4> HIDE DEF x
        <4> QED BY <4>1, <4>2, <4>3
      <3> QED BY <3>1, <3>2, <3>3
    <2>3. CASE Key!Abandon(s)
      <3>1. Key!Idle \in Key!SessionState /\ Key!Idle.op = "idle"
        BY DEF Key!SessionState, Key!Idle
      <3> QED BY <2>3, <3>1 DEF Key!Abandon, Key!Goto
    <2> QED BY <2>1, <2>2, <2>3
  <1>5. /\ issuer' \in [Sessions -> Key!SessionState] /\ issuer'[s] = x
        /\ \A t \in Sessions : t # s => issuer'[t] = issuer[t]
    BY <1>2, <1>4
  <1>6. IssuerInv'
    BY <1>1, <1>4, <1>5 DEF KeyInv, IssuerInv, Key!Written
  <1>7. Key!TypeOK'
    BY <1>1, <1>3, <1>5 DEF KeyInv, Key!TypeOK, Key!Written
  <1>8. ChainInv'
    BY <1>1, <1>3 DEF KeyInv, ChainInv, Key!Written
  <1>9. BearerInv'
    BY <1>1, <1>3 DEF KeyInv, BearerInv
  <1>10. Key!AuthorityNeverGrows' /\ Key!KeyIsBudgeted'
    BY <1>1 DEF KeyInv, Key!AuthorityNeverGrows, Key!KeyIsBudgeted, Key!Written
  <1> QED BY <1>6, <1>7, <1>8, <1>9, <1>10 DEF KeyInv

\* What the two writes have in common: one chain becomes f, and the session is done.
WritesKey(s, k, f) ==
    /\ k \in Keys /\ f \in UNION {[D -> Key!Record] : D \in {{1}, {1, 2}}}
    /\ record' = [record EXCEPT ![k] = f]
    /\ issuer' = [issuer EXCEPT ![s] = Key!Idle]
    /\ Key!Written(k) \subseteq DOMAIN f /\ (\A v \in Key!Written(k) : f[v] = record[k][v])
    /\ ~f[1].revoked /\ f[1].grants \subseteq pinned
    /\ 2 \in DOMAIN f => f[2].revoked /\ f[2].grants = f[1].grants /\ f[2].expires = f[1].expires
    /\ \A t \in Sessions : t # s /\ issuer[t].op = "issue" => issuer[t].key # k
    /\ UNCHANGED <<keyTime, pinned, bearer>>
    /\ acknowledged \subseteq acknowledged' /\ acknowledged' \subseteq acknowledged \cup {k}
    /\ k \in acknowledged' \ acknowledged => 2 \in DOMAIN f
    /\ verifier \subseteq verifier' /\ budget \subseteq budget' /\ verifier' \subseteq Keys
    /\ budget' \subseteq Keys /\ k \in budget' /\ k \in verifier'

\* A write keeps the invariant.
LEMMA KeyWriteStep ==
    ASSUME KeyInv, NEW s \in Sessions, NEW k, NEW f, WritesKey(s, k, f)
    PROVE  KeyInv'
  <1>1. /\ issuer \in [Sessions -> Key!SessionState] /\ acknowledged \subseteq Keys
        /\ record \in [Keys -> UNION {[D -> Key!Record] : D \in {{}, {1}, {1, 2}}}]
    BY DEF KeyInv, Key!TypeOK, ChainInv
  <1>2. k \in Keys /\ record'[k] = f /\ \A j \in Keys : j # k => record'[j] = record[j]
    BY <1>1 DEF WritesKey
  <1>3. PICK D \in {{1}, {1, 2}} : f \in [D -> Key!Record]
    BY DEF WritesKey
  <1>4. DOMAIN f = D /\ \A v \in D : f[v] \in Key!Record
    BY <1>3
  <1>5. f \in UNION {[E -> Key!Record] : E \in {{}, {1}, {1, 2}}}
    BY <1>3
  <1>6. record' \in [Keys -> UNION {[E -> Key!Record] : E \in {{}, {1}, {1, 2}}}]
    BY <1>1, <1>5 DEF WritesKey
  <1>7. /\ Key!Idle \in Key!SessionState /\ Key!Idle.op = "idle" /\ issuer'[s] = Key!Idle
        /\ issuer' \in [Sessions -> Key!SessionState]
        /\ \A t \in Sessions : t # s => issuer'[t] = issuer[t]
    BY <1>1 DEF Key!SessionState, Key!Idle, WritesKey
  <1>8. Key!TypeOK'
    <2>1. ASSUME NEW j \in Keys
          PROVE  /\ DOMAIN record'[j] \in {{}, {1}, {1, 2}}
                 /\ \A v \in DOMAIN record'[j] : record'[j][v] \in Key!Record
      BY <1>2, <1>4 DEF KeyInv, Key!TypeOK, Key!Written
    <2>2. acknowledged' \subseteq Keys /\ bearer' = bearer /\ keyTime' = keyTime /\ pinned' = pinned
          /\ verifier' \subseteq Keys /\ budget' \subseteq Keys
      BY <1>1 DEF WritesKey
    <2> QED BY <1>7, <2>1, <2>2 DEF KeyInv, Key!TypeOK, Key!Written
  <1>9. ChainInv'
    <2>1. ASSUME NEW j \in Keys
          PROVE /\ 1 \in DOMAIN record'[j] => ~record'[j][1].revoked
                /\ 2 \in DOMAIN record'[j] => record'[j][2].revoked
                /\ j \in acknowledged' => 2 \in DOMAIN record'[j]
      <3>1. CASE j = k
        BY <1>2, <3>1 DEF KeyInv, ChainInv, Key!Written, WritesKey
      <3>2. CASE j # k
        BY <1>2, <3>2 DEF KeyInv, ChainInv, Key!Written, WritesKey
      <3> QED BY <3>1, <3>2
    <2> QED BY <1>6, <2>1 DEF ChainInv, Key!Written
  <1>10. IssuerInv'
    <2>1. ASSUME NEW t \in Sessions, t # s
          PROVE /\ issuer[t].op = "issue" => issuer[t].key \in Keys /\ issuer[t].key # k
                /\ issuer[t].op = "revoke" => issuer[t].key \in Keys
      BY <1>1, <2>1, IssuerHolds DEF WritesKey
    <2>2. pinned' = pinned /\ Key!Written(k) \subseteq DOMAIN f
      BY DEF WritesKey
    <2> QED BY <1>2, <1>7, <2>1, <2>2 DEF KeyInv, IssuerInv, Key!Written
  <1>11. BearerInv'
    BY DEF KeyInv, BearerInv, WritesKey
  <1>12. Key!AuthorityNeverGrows'
    <2>1. ASSUME NEW j \in Keys, NEW v \in DOMAIN record'[j]
          PROVE /\ record'[j][v].grants = record'[j][1].grants
                /\ record'[j][v].expires = record'[j][1].expires
                /\ record'[j][v].grants \subseteq pinned
      <3>1. CASE j = k
        BY <1>2, <1>4, <3>1 DEF WritesKey
      <3>2. CASE j # k
        BY <1>2, <3>2 DEF KeyInv, Key!AuthorityNeverGrows, Key!Written
      <3> QED BY <3>1, <3>2
    <2>2. pinned' = pinned
      BY DEF WritesKey
    <2> QED BY <2>1, <2>2 DEF Key!AuthorityNeverGrows, Key!Written
  <1>13. Key!KeyIsBudgeted'
    BY <1>2 DEF KeyInv, Key!KeyIsBudgeted, Key!Written, WritesKey
  <1> QED BY <1>8, <1>9, <1>10, <1>11, <1>12, <1>13 DEF KeyInv

\* save_application_key writes the first version of a key.
LEMMA SaveWrites ==
    ASSUME KeyInv, NEW s \in Sessions, Key!SaveKey(s)
    PROVE  Key!Written(issuer[s].key) = {} /\ \E f : WritesKey(s, issuer[s].key, f)
  <1> DEFINE x == issuer[s]
             first == [grants |-> x.grants, expires |-> x.expires, revoked |-> FALSE]
             f == [v \in {1} |-> first]
  <1>1. x \in Key!SessionState /\ x.op = "issue"
    BY DEF KeyInv, Key!TypeOK, Key!SaveKey
  <1>2. x.key \in Keys /\ x.grants \in SUBSET Aliases /\ x.expires \in 1 .. MaxTime + 1
    BY <1>1, IssuerHolds
  <1>3. /\ Key!Written(x.key) = {} /\ x.grants \subseteq pinned
        /\ \A t \in Sessions : t # s /\ issuer[t].op = "issue" => issuer[t].key # x.key
    BY <1>1 DEF KeyInv, IssuerInv
  <1>4. first \in Key!Record /\ ~first.revoked /\ first.grants = x.grants
    BY <1>2 DEF Key!Record
  <1>5. /\ record' = [record EXCEPT ![x.key] = f] /\ issuer' = [issuer EXCEPT ![s] = Key!Idle]
        /\ budget' = budget \cup {x.key} /\ verifier' = verifier \cup {x.key}
        /\ UNCHANGED <<keyTime, pinned, bearer, acknowledged>>
    BY DEF Key!SaveKey, Key!Goto
  <1>6. budget \subseteq Keys /\ verifier \subseteq Keys
    BY DEF KeyInv, Key!TypeOK
  <1>7. f \in [{1} -> Key!Record] /\ DOMAIN f = {1} /\ f[1] = first
    BY <1>4
  <1> HIDE DEF first, f
  <1>8. f \in UNION {[D -> Key!Record] : D \in {{1}, {1, 2}}}
    BY <1>7
  <1>9. WritesKey(s, x.key, f)
    BY <1>2, <1>3, <1>4, <1>5, <1>6, <1>7, <1>8 DEF WritesKey
  <1> QED BY <1>3, <1>9

\* revoke_key writes the second version of a key, or finds it.
LEMMA RevokeWrites ==
    ASSUME KeyInv, NEW s \in Sessions, Key!Revoke(s)
    PROVE  \E f : /\ WritesKey(s, issuer[s].key, f)
                  /\ 2 \in Key!Written(issuer[s].key) => f = record[issuer[s].key]
  <1> DEFINE x == issuer[s]
             k == x.key
  <1>1. x \in Key!SessionState /\ x.op = "revoke"
    BY DEF KeyInv, Key!TypeOK, Key!Revoke
  <1>2. x.key \in Keys /\ x.version = 1 /\ 1 \in Key!Written(k)
    BY <1>1, IssuerHolds DEF KeyInv, IssuerInv
  <1>3. Key!Written(k) \in {{1}, {1, 2}} /\ \A v \in Key!Written(k) : record[k][v] \in Key!Record
    <2>1. k \in Keys
      BY <1>2
    <2>2. Key!Written(k) \in {{}, {1}, {1, 2}} /\ \A v \in Key!Written(k) : record[k][v] \in Key!Record
      BY <2>1 DEF KeyInv, Key!TypeOK
    <2> QED BY <1>2, <2>2
  <1>4. /\ Key!NextVersion(s) = 2 /\ acknowledged' = acknowledged \cup {k}
        /\ issuer' = [issuer EXCEPT ![s] = Key!Idle]
        /\ UNCHANGED <<keyTime, pinned, verifier, budget, bearer>>
    BY <1>2 DEF Key!NextVersion, Key!Revoke, Key!Goto
  <1>5. /\ k \in budget /\ k \in verifier /\ budget \subseteq Keys /\ verifier \subseteq Keys
        /\ ~record[k][1].revoked /\ record[k][1].grants \subseteq pinned
        /\ \A t \in Sessions : issuer[t].op = "issue" => issuer[t].key # k
    BY <1>2 DEF KeyInv, Key!TypeOK, Key!KeyIsBudgeted, ChainInv, Key!AuthorityNeverGrows, IssuerInv
  <1>6. CASE 2 \in Key!Written(k)
    <2>1. record' = record /\ Key!Written(k) = {1, 2}
      BY <1>3, <1>4, <1>6 DEF Key!Revoke
    <2>2. record \in [Keys -> UNION {[D -> Key!Record] : D \in {{}, {1}, {1, 2}}}]
      BY DEF KeyInv, ChainInv
    <2>3. record' = [record EXCEPT ![k] = record[k]]
      BY <1>2, <2>1, <2>2
    <2>4. record[k] \in UNION {[D -> Key!Record] : D \in {{1}, {1, 2}}}
      <3>1. PICK D \in {{}, {1}, {1, 2}} : record[k] \in [D -> Key!Record]
        BY <1>2, <2>2
      <3>2. D = {1, 2}
        BY <2>1, <3>1 DEF Key!Written
      <3> QED BY <3>1, <3>2
    <2>5. /\ record[k][2].revoked /\ record[k][2].grants = record[k][1].grants
          /\ record[k][2].expires = record[k][1].expires
      BY <1>2, <1>6 DEF KeyInv, ChainInv, Key!AuthorityNeverGrows
    <2>6. WritesKey(s, k, record[k])
      BY <1>2, <1>4, <1>5, <2>1, <2>3, <2>4, <2>5 DEF WritesKey, Key!Written
    <2> QED BY <2>6
  <1>7. CASE 2 \notin Key!Written(k)
    <2> DEFINE second == Key!Revoked(record[k][1])
               f == [w \in Key!Written(k) \cup {2} |-> IF w = 2 THEN second ELSE record[k][w]]
    <2>1. Key!Written(k) = {1} /\ Key!Written(k) \cup {2} = {1, 2}
      BY <1>3, <1>7
    <2>2. record' = [record EXCEPT ![k] = f]
      BY <1>2, <1>4, <1>7 DEF Key!Revoke
    <2>3. record[k][1] \in Key!Record
      BY <1>3, <2>1
    <2>4. /\ second \in Key!Record /\ second.revoked
          /\ second.grants = record[k][1].grants /\ second.expires = record[k][1].expires
      BY <2>3 DEF Key!Revoked, Key!Record
    <2> HIDE DEF second
    <2>5. f \in [{1, 2} -> Key!Record] /\ DOMAIN f = {1, 2} /\ f[1] = record[k][1] /\ f[2] = second
      BY <2>1, <2>3, <2>4
    <2> HIDE DEF f
    <2>6. f \in UNION {[D -> Key!Record] : D \in {{1}, {1, 2}}}
      BY <2>5
    <2>7. WritesKey(s, k, f)
      BY <1>2, <1>4, <1>5, <2>1, <2>2, <2>4, <2>5, <2>6 DEF WritesKey
    <2> QED BY <1>7, <2>7
  <1> QED BY <1>6, <1>7

\* A chat request moves on only while its key's newest version allows it.
LEMMA BearerStep ==
    ASSUME KeyInv, NEW r \in Requests, Key!Arrive(r) \/ Key!Authenticate(r) \/ Key!Check(r)
    PROVE  KeyInv'
  <1>1. UNCHANGED <<keyTime, pinned, record, verifier, budget, issuer, acknowledged>>
    BY DEF Key!Arrive, Key!Authenticate, Key!Check, Key!rows
  <1>2. bearer \in [Requests -> Key!RequestState] /\ bearer[r] \in Key!RequestState
    BY DEF KeyInv, Key!TypeOK
  <1>3. PICK x \in Key!RequestState :
          /\ bearer' = [bearer EXCEPT ![r] = x]
          /\ x.op \in {"context", "checked"} => ~x.late
          /\ x.op = "bearer" /\ x.late => x.key \in acknowledged
    <2>1. [op |-> "denied"] \in Key!RequestState /\ [op |-> "denied"].op = "denied"
      BY DEF Key!RequestState
    <2>2. CASE Key!Arrive(r)
      <3>1. PICK k \in Keys, a \in Aliases, g \in BOOLEAN :
              Key!Answer(r, [op |-> "bearer", key |-> k, genuine |-> g, alias |-> a,
                         late |-> k \in acknowledged])
        BY <2>2 DEF Key!Arrive
      <3>2. [op |-> "bearer", key |-> k, genuine |-> g, alias |-> a, late |-> k \in acknowledged]
              \in Key!RequestState
        BY DEF Key!RequestState
      <3> QED BY <3>1, <3>2 DEF Key!Answer
    <2>3. CASE Key!Authenticate(r)
      <3> DEFINE q == bearer[r]
                 x == [op |-> "context", key |-> q.key, alias |-> q.alias, late |-> q.late]
      <3>1. q.op = "bearer" /\ q.key \in Keys /\ q.alias \in Aliases /\ q.late \in BOOLEAN
        BY <1>2, <2>3, BearerHolds DEF Key!Authenticate
      <3>2. x \in Key!RequestState
        BY <3>1 DEF Key!RequestState
      <3>3. CASE Key!Authorized(q.key, q.alias) /\ Key!Answer(r, x)
        <4>1. q.key \notin acknowledged
          BY <3>1, <3>3, ChainFacts DEF Key!Authorized, KeyInv, ChainInv
        <4>2. ~q.late
          BY <3>1, <4>1 DEF KeyInv, BearerInv
        <4> QED BY <3>2, <3>3, <4>2 DEF Key!Answer
      <3>4. CASE Key!Answer(r, [op |-> "denied"])
        BY <2>1, <3>4 DEF Key!Answer
      <3> QED BY <2>3, <3>3, <3>4 DEF Key!Authenticate
    <2>4. CASE Key!Check(r)
      <3> DEFINE q == bearer[r]
                 x == [q EXCEPT !.op = "checked"]
      <3>1. /\ q.op \in {"context", "checked"}
            /\ q.key \in Keys /\ q.alias \in Aliases /\ q.late \in BOOLEAN
            /\ q = [op |-> q.op, key |-> q.key, alias |-> q.alias, late |-> q.late]
        BY <1>2, <2>4, BearerHolds DEF Key!Check
      <3>2. x = [op |-> "checked", key |-> q.key, alias |-> q.alias, late |-> q.late]
        BY <3>1
      <3>3. x \in Key!RequestState /\ x.op = "checked" /\ x.late = q.late
        BY <3>1, <3>2 DEF Key!RequestState
      <3>4. ~q.late
        BY <3>1 DEF KeyInv, BearerInv
      <3>5. CASE Key!Answer(r, x)
        <4> HIDE DEF x
        <4> QED BY <3>3, <3>4, <3>5 DEF Key!Answer
      <3>6. CASE Key!Answer(r, [op |-> "denied"])
        BY <2>1, <3>6 DEF Key!Answer
      <3> QED BY <2>4, <3>5, <3>6 DEF Key!Check
    <2> QED BY <2>2, <2>3, <2>4
  <1>4. /\ bearer' \in [Requests -> Key!RequestState] /\ bearer'[r] = x
        /\ \A t \in Requests : t # r => bearer'[t] = bearer[t]
    BY <1>2, <1>3
  <1>5. BearerInv'
    BY <1>1, <1>3, <1>4 DEF KeyInv, BearerInv
  <1>6. Key!TypeOK'
    BY <1>1, <1>4 DEF KeyInv, Key!TypeOK, Key!Written
  <1>7. ChainInv' /\ IssuerInv'
    BY <1>1 DEF KeyInv, ChainInv, IssuerInv, Key!Written
  <1>8. Key!AuthorityNeverGrows' /\ Key!KeyIsBudgeted'
    BY <1>1 DEF KeyInv, Key!AuthorityNeverGrows, Key!KeyIsBudgeted, Key!Written
  <1> QED BY <1>5, <1>6, <1>7, <1>8 DEF KeyInv

\* Every step of a caller, a request or the clock keeps the invariant.
LEMMA KeyStep == KeyInv /\ [Key!Next]_Key!vars => KeyInv'
  <1>1. ASSUME KeyInv, NEW s \in Sessions, Key!SaveKey(s) \/ Key!Revoke(s) PROVE KeyInv'
    <2>1. \E k, f : WritesKey(s, k, f)
      BY <1>1, SaveWrites, RevokeWrites
    <2> QED BY <1>1, <2>1, KeyWriteStep
  <1> QED BY <1>1, KeyIdleStep, IssuerStep, BearerStep DEF Key!Next

\* The keys of the control plane change by the steps of ApplicationKeys only.
LEMMA PlaneKeys == PlaneSpec => Key!Spec
  <1>1. PlaneInit => Key!Init
    BY DEF PlaneInit
  <1>2. [PlaneNext]_planeVars => [Key!Next]_Key!vars
    <2> SUFFICES ASSUME [PlaneNext]_planeVars, ~Key!Next PROVE UNCHANGED Key!vars
      OBVIOUS
    <2>1. UNCHANGED keyVars
      BY DEF PlaneNext, planeVars
    <2> QED BY <2>1 DEF keyVars, Key!vars, Key!rows
  <1> QED BY <1>1, <1>2, PTL DEF PlaneSpec, Key!Spec

\* Every reachable state of the application keys has the invariant.
LEMMA KeysInductive == PlaneSpec => []KeyInv
  BY PlaneKeys, KeyInit, KeyStep, PTL DEF Key!Spec

\* Once anyone was told that a key is revoked, it is, and nothing that arrives later gets
\* past ApplicationKeys.authenticate; no version of a key grants more than its first, which
\* grants only aliases that existed; and a key that can be used has its budget.
THEOREM SafeKeys == PlaneSpec => []KeySafety
  <1>1. KeyInv => KeySafety
    <2> SUFFICES ASSUME KeyInv PROVE Key!RevocationIsFinal
      BY DEF KeyInv, KeySafety, Key!KeySafety
    <2>1. ASSUME NEW k \in acknowledged PROVE Key!Newest(k).revoked
      <3>1. k \in Keys /\ 2 \in Key!Written(k)
        BY DEF KeyInv, Key!TypeOK, ChainInv
      <3> QED BY <3>1, ChainFacts DEF KeyInv
    <2> QED BY <2>1 DEF Key!RevocationIsFinal, KeyInv, BearerInv
  <1> QED BY <1>1, KeysInductive, PTL

\* Chains only grow, and a revoked one does not.
LEMMA ChainStep ==
    ASSUME KeyInv, [Key!Next]_Key!vars, NEW k \in Keys
    PROVE  /\ Key!Written(k) \subseteq DOMAIN record'[k]
           /\ \A v \in Key!Written(k) : record'[k][v] = record[k][v]
           /\ Key!Written(k) # {} /\ Key!Newest(k).revoked => record'[k] = record[k]
  <1>1. CASE record' = record
    BY <1>1 DEF Key!Written
  <1>2. ASSUME NEW s \in Sessions, NEW j, NEW f, WritesKey(s, j, f),
               Key!Written(j) = {} \/ (2 \in Key!Written(j) => f = record[j])
        PROVE  /\ Key!Written(k) \subseteq DOMAIN record'[k]
               /\ \A v \in Key!Written(k) : record'[k][v] = record[k][v]
               /\ Key!Written(k) # {} /\ Key!Newest(k).revoked => record'[k] = record[k]
    <2>1. record'[k] = IF k = j THEN f ELSE record[k]
      BY <1>2 DEF WritesKey, KeyInv, ChainInv
    <2>2. Key!Written(k) # {} /\ Key!Newest(k).revoked => 2 \in Key!Written(k)
      BY ChainFacts DEF KeyInv
    <2>3. CASE k = j
      BY <1>2, <2>1, <2>2, <2>3 DEF WritesKey
    <2>4. CASE k # j
      BY <2>1, <2>4 DEF Key!Written
    <2> QED BY <2>3, <2>4
  <1>3. ASSUME NEW s \in Sessions, Key!SaveKey(s)
        PROVE  /\ Key!Written(k) \subseteq DOMAIN record'[k]
               /\ \A v \in Key!Written(k) : record'[k][v] = record[k][v]
               /\ Key!Written(k) # {} /\ Key!Newest(k).revoked => record'[k] = record[k]
    BY <1>2, <1>3, SaveWrites
  <1>4. ASSUME NEW s \in Sessions, Key!Revoke(s)
        PROVE  /\ Key!Written(k) \subseteq DOMAIN record'[k]
               /\ \A v \in Key!Written(k) : record'[k][v] = record[k][v]
               /\ Key!Written(k) # {} /\ Key!Newest(k).revoked => record'[k] = record[k]
    BY <1>2, <1>4, RevokeWrites
  <1> QED BY <1>1, <1>3, <1>4
    DEF Key!Next, Key!Tick, Key!CreateAlias, Key!BeginIssue, Key!BeginRevoke, Key!Abandon, Key!Arrive,
        Key!Authenticate, Key!Check, Key!vars, Key!rows

\* No step replaces a version of a key, and a revoked key gets no further version, although
\* two revocations may have read the same one (ApplicationKeys.revoke).
THEOREM KeyChains == PlaneSpec => Key!OneRevocation
  <1>1. KeyInv /\ [Key!Next]_Key!vars =>
          [\A k \in Keys : /\ Key!Written(k) \subseteq DOMAIN record'[k]
                           /\ \A v \in Key!Written(k) : record'[k][v] = record[k][v]
                           /\ Key!Written(k) # {} /\ Key!Newest(k).revoked =>
                                record'[k] = record[k]]_Key!vars
    BY ChainStep
  <1> QED BY <1>1, PlaneKeys, KeysInductive, PTL DEF Key!Spec, Key!OneRevocation

-----------------------------------------------------------------------------
(* Plan submissions *)

\* How many versions of a plan are stored.
VersionsOf(r, p) == Cardinality({v \in Submissions!Numbers : <<p, v>> \in DOMAIN r})

\* What a client waits for, and what its request holds.
PlanSteps ==
    {"idle", "lookup", "count", "latest", "insert", "view", "job", "publish", "create"}
HeldCall ==
    [op : {None, "submit", "read", "export", "draft"}, key : PlanKeys \cup {None},
     digest : Submissions!Digest \cup {Submissions!Published}, plan : Plans \cup {None},
     version : 0 .. MaxVersion, latest : 0 .. MaxVersion, floor : 0 .. MaxVersion]

\* The versions of a plan are 1 .. n, each with what its request asked for.
VersionInv ==
    /\ DOMAIN records \subseteq Plans \X Submissions!Numbers
    /\ used \subseteq Plans
    /\ \A p \in Plans :
        /\ VersionsOf(records, p) \in 0 .. MaxVersion
        /\ \A v \in Submissions!Numbers : <<p, v>> \in DOMAIN records <=> v <= VersionsOf(records, p)
        /\ VersionsOf(records, p) > 0 => p \in used
    /\ \A p \in Plans, v \in Submissions!Numbers : <<p, v>> \in DOMAIN records =>
        /\ records[<<p, v>>] \in Submissions!Digest \cup {Submissions!Published}
        /\ records[<<p, v>>] # Submissions!Published => records[<<p, v>>].prior = v - 1

\* Versions and submissions belong together, and a published plan has its own key.
BindingInv ==
    /\ DOMAIN submissions \subseteq PlanKeys \cup Plans
    /\ \A k \in DOMAIN submissions :
        /\ submissions[k] \in [plan : Plans, version : Submissions!Numbers]
        /\ <<submissions[k].plan, submissions[k].version>> \in DOMAIN records
    /\ \A p \in Plans, v \in Submissions!Numbers : <<p, v>> \in DOMAIN records =>
        \E k \in DOMAIN submissions : Submissions!JobsOf(p, v) = {k}
    /\ \A p \in Plans : p \in DOMAIN submissions => VersionsOf(records, p) > 0

\* Jobs are those of submissions, and the drafted policy has its plan.
JobInv ==
    /\ pending \subseteq DOMAIN submissions /\ IsFiniteSet(pending)
    /\ drafted \in used \cup {None} /\ Submissions!PolicyHasPlan

\* What the request of a client has read stays true: versions are only added.
Submitting(m) ==
    /\ m.op = "submit" /\ m.key \in PlanKeys /\ m.digest \in Submissions!Digest /\ m.floor = 0
    /\ m.digest.plan = None <=> m.digest.prior = 0
Inserting(r, u, m) ==
    /\ m.plan \in u /\ m.plan \in Plans /\ m.version \in Submissions!Numbers
    /\ m.version <= VersionsOf(r, m.plan) + 1 /\ m.digest.prior = m.version - 1
Viewing(r, m) ==
    /\ m.op \in {"submit", "read", "export"} /\ m.plan \in Plans /\ m.version \in Submissions!Numbers
    /\ <<m.plan, m.version>> \in DOMAIN r /\ m.floor <= VersionsOf(r, m.plan)
    /\ m.op = "submit" => r[<<m.plan, m.version>>] = m.digest
Publishing(r, u, m) == m.plan \in u /\ m.plan \in Plans /\ VersionsOf(r, m.plan) = 0
CallOK(r, u, s, m) ==
    /\ s \in PlanSteps /\ m \in HeldCall
    /\ s \in {"lookup", "count", "latest", "insert"} => Submitting(m)
    /\ s = "latest" => m.digest.plan # None
    /\ s = "insert" => Inserting(r, u, m)
    /\ s \in {"view", "job"} => Viewing(r, m)
    /\ s = "job" => m.floor <= m.latest
    /\ s = "publish" => Publishing(r, u, m)
    /\ s = "create" => m.plan \in u /\ m.plan \in Plans /\ <<m.plan, 1>> \in DOMAIN r
AnswerOK(r, a) ==
    \/ a = None
    \/ /\ a.plan \in Plans /\ a.version \in Submissions!Numbers /\ <<a.plan, a.version>> \in DOMAIN r
       /\ a.op = "submit" => r[<<a.plan, a.version>>] = a.digest
       /\ a.op = "export" => a.version >= a.floor

\* A plan about to be published is nobody else's.
Apart(s, m, t, n) ==
    /\ s = "publish" /\ t \in {"insert", "publish"} => m.plan # n.plan
    /\ t = "publish" /\ s \in {"insert", "publish"} => m.plan # n.plan

\* Every request and every answer is right about the records.
ClientInv ==
    /\ pc \in [Sessions -> PlanSteps] /\ DOMAIN call = Sessions /\ DOMAIN answer = Sessions
    /\ call = [c \in Sessions |-> call[c]] /\ answer = [c \in Sessions |-> answer[c]]
    /\ \A c \in Sessions :
        /\ CallOK(records, used, pc[c], call[c]) /\ AnswerOK(records, answer[c])
        /\ \A d \in Sessions : c # d => Apart(pc[c], call[c], pc[d], call[d])

\* The quota is exceeded by no more than the other clients.
PastCount == {c \in Sessions : pc[c] \in {"latest", "insert"}}
QuotaInv == Cardinality(pending) + Cardinality(PastCount) < Quota + Cardinality(Sessions)

PlanInv == VersionInv /\ BindingInv /\ JobInv /\ ClientInv /\ QuotaInv

-----------------------------------------------------------------------------
\* Counting in the instance is counting.
LEMMA SameCount == \A X : Submissions!Cardinality(X) = Cardinality(X)
  BY DEF Submissions!Cardinality, Cardinality

\* How many versions a plan has.
LEMMA VersionCount ==
    ASSUME NEW r, NEW p, NEW n \in 0 .. MaxVersion,
           \A v \in Submissions!Numbers : <<p, v>> \in DOMAIN r <=> v <= n
    PROVE  VersionsOf(r, p) = n
  <1>1. {v \in Submissions!Numbers : <<p, v>> \in DOMAIN r} = 1 .. n
    BY SubmissionsAssumption DEF Submissions!Numbers
  <1>2. Cardinality(1 .. n) = n
    BY FS_Interval, SubmissionsAssumption
  <1> QED BY <1>1, <1>2 DEF VersionsOf

\* The newest version is the number of versions.
LEMMA LatestIsCount == \A p : Submissions!Latest(p) = VersionsOf(records, p)
  BY SameCount DEF Submissions!Latest, VersionsOf

\* Records that only grow.
Grown(r, u, q, w) ==
    /\ u \subseteq w
    /\ \A x \in DOMAIN r : x \in DOMAIN q /\ q[x] = r[x]
    /\ \A p \in Plans : VersionsOf(q, p) \in 0 .. MaxVersion /\ VersionsOf(r, p) <= VersionsOf(q, p)
                        /\ VersionsOf(r, p) \in 0 .. MaxVersion

\* New versions and identifiers leave what a request has read true.
LEMMA CallKept ==
    ASSUME NEW r, NEW u, NEW q, NEW w, NEW s, NEW m, Grown(r, u, q, w), CallOK(r, u, s, m),
           s = "publish" => VersionsOf(q, m.plan) = 0
    PROVE  CallOK(q, w, s, m)
  <1>1. m.floor \in 0 .. MaxVersion /\ m.version \in 0 .. MaxVersion
    BY DEF CallOK, HeldCall
  <1>2. s = "insert" => Inserting(q, w, m)
    BY <1>1, SubmissionsAssumption DEF Grown, CallOK, Inserting
  <1>3. s \in {"view", "job"} => Viewing(q, m)
    BY <1>1, SubmissionsAssumption DEF Grown, CallOK, Viewing
  <1>4. s = "publish" => Publishing(q, w, m)
    BY DEF Grown, CallOK, Publishing
  <1>5. s = "create" => m.plan \in w /\ m.plan \in Plans /\ <<m.plan, 1>> \in DOMAIN q
    BY DEF Grown, CallOK
  <1> QED BY <1>2, <1>3, <1>4, <1>5 DEF CallOK

\* An answer stays right.
LEMMA AnswerKept ==
    ASSUME NEW r, NEW u, NEW q, NEW w, NEW a, Grown(r, u, q, w), AnswerOK(r, a)
    PROVE  AnswerOK(q, a)
  BY DEF Grown, AnswerOK

\* A client's request goes on to s, holding m, or ends with answer a.
Moves(c, s, m, a) ==
    /\ pc' = [pc EXCEPT ![c] = s] /\ call' = [call EXCEPT ![c] = m] /\ answer' = [answer EXCEPT ![c] = a]
Serves(c, s, m, a) ==
    /\ Moves(c, s, m, a)
    /\ Grown(records, used, records', used')
    /\ CallOK(records', used', s, m) /\ AnswerOK(records', a)
    /\ \A d \in Sessions : d # c =>
        /\ pc[d] = "publish" => VersionsOf(records', call[d].plan) = 0
        /\ Apart(s, m, pc[d], call[d])

\* Such a step leaves every request with what holds of it.
LEMMA ServeStep ==
    ASSUME ClientInv, NEW c \in Sessions, NEW s, NEW m, NEW a, Serves(c, s, m, a)
    PROVE  ClientInv'
  <1>1. /\ pc'[c] = s /\ call'[c] = m /\ answer'[c] = a
        /\ \A d \in Sessions : d # c => pc'[d] = pc[d] /\ call'[d] = call[d] /\ answer'[d] = answer[d]
    BY DEF Serves, Moves, ClientInv
  <1>2. /\ pc' \in [Sessions -> PlanSteps] /\ DOMAIN call' = Sessions /\ DOMAIN answer' = Sessions
        /\ call' = [d \in Sessions |-> call'[d]] /\ answer' = [d \in Sessions |-> answer'[d]]
    BY DEF Serves, Moves, ClientInv, CallOK
  <1>3. ASSUME NEW d \in Sessions
        PROVE  CallOK(records', used', pc'[d], call'[d]) /\ AnswerOK(records', answer'[d])
    <2>1. CASE d = c
      BY <1>1, <2>1 DEF Serves
    <2>2. CASE d # c
      <3>1. CallOK(records, used, pc[d], call[d]) /\ AnswerOK(records, answer[d])
        BY DEF ClientInv
      <3>2. CallOK(records', used', pc[d], call[d])
        BY <2>2, <3>1, CallKept DEF Serves
      <3>3. AnswerOK(records', answer[d])
        BY <3>1, AnswerKept DEF Serves
      <3> QED BY <1>1, <2>2, <3>2, <3>3
    <2> QED BY <2>1, <2>2
  <1>4. ASSUME NEW d \in Sessions, NEW e \in Sessions, d # e
        PROVE  Apart(pc'[d], call'[d], pc'[e], call'[e])
    <2>1. \A x, y, z, w : Apart(x, y, z, w) => Apart(z, w, x, y)
      BY DEF Apart
    <2>2. CASE d = c
      BY <1>1, <1>4, <2>2 DEF Serves
    <2>3. CASE e = c
      <3>1. Apart(s, m, pc[d], call[d])
        BY <1>4, <2>3 DEF Serves
      <3> QED BY <1>1, <1>4, <2>1, <2>3, <3>1
    <2>4. CASE d # c /\ e # c
      BY <1>1, <1>4, <2>4 DEF ClientInv
    <2> QED BY <2>2, <2>3, <2>4
  <1> QED BY <1>2, <1>3, <1>4 DEF ClientInv

-----------------------------------------------------------------------------
\* A version that is stored under a new key is the plan's next.
LEMMA StoreStep ==
    ASSUME PlanInv, NEW p \in Plans, NEW v \in Submissions!Numbers, NEW k \in PlanKeys \cup Plans,
           NEW d \in Submissions!Digest \cup {Submissions!Published}, Submissions!Store(p, v, k, d),
           v = VersionsOf(records, p) + 1, k \notin DOMAIN submissions, p \in used, used' = used,
           d # Submissions!Published => d.prior = v - 1, k \in Plans => k = p
    PROVE  /\ VersionInv' /\ BindingInv' /\ Grown(records, used, records', used')
           /\ \A q \in Plans : VersionsOf(records', q) =
                IF q = p THEN VersionsOf(records, p) + 1 ELSE VersionsOf(records, q)
           /\ DOMAIN submissions' = DOMAIN submissions \cup {k}
           /\ <<p, v>> \in DOMAIN records' /\ records'[<<p, v>>] = d
  <1>1. /\ DOMAIN records' = DOMAIN records \cup {<<p, v>>}
        /\ \A x \in DOMAIN records' : records'[x] = IF x = <<p, v>> THEN d ELSE records[x]
        /\ DOMAIN submissions' = DOMAIN submissions \cup {k}
        /\ submissions'[k] = [plan |-> p, version |-> v]
        /\ \A j \in DOMAIN submissions : submissions'[j] = submissions[j]
    BY DEF Submissions!Store, Submissions!With
  <1>2. <<p, v>> \notin DOMAIN records /\ v \in 1 .. MaxVersion
    BY SubmissionsAssumption DEF PlanInv, VersionInv, Submissions!Numbers
  <1>3. ASSUME NEW q \in Plans
        PROVE  /\ VersionsOf(records', q) =
                    IF q = p THEN VersionsOf(records, p) + 1 ELSE VersionsOf(records, q)
               /\ VersionsOf(records', q) \in 0 .. MaxVersion
               /\ \A w \in Submissions!Numbers :
                    <<q, w>> \in DOMAIN records' <=> w <= VersionsOf(records', q)
    <2> DEFINE n == IF q = p THEN VersionsOf(records, p) + 1 ELSE VersionsOf(records, q)
    <2>1. VersionsOf(records, q) \in 0 .. MaxVersion /\ VersionsOf(records, p) \in 0 .. MaxVersion
      BY DEF PlanInv, VersionInv
    <2>2. n \in 0 .. MaxVersion
      BY <1>2, <2>1, SubmissionsAssumption
    <2>3. \A w \in Submissions!Numbers : <<q, w>> \in DOMAIN records <=> w <= VersionsOf(records, q)
      BY DEF PlanInv, VersionInv
    <2>4. \A w \in Submissions!Numbers : <<q, w>> \in DOMAIN records' <=> w <= n
      BY <1>1, <1>2, <2>1, <2>3, SubmissionsAssumption DEF Submissions!Numbers
    <2> HIDE DEF n
    <2>5. VersionsOf(records', q) = n
      BY <2>2, <2>4, VersionCount
    <2> QED BY <2>2, <2>4, <2>5 DEF n
  <1>4. Grown(records, used, records', used')
    <2>1. \A x \in DOMAIN records : x \in DOMAIN records' /\ records'[x] = records[x]
      BY <1>1, <1>2
    <2>2. \A q \in Plans : VersionsOf(records, q) \in 0 .. MaxVersion
      BY DEF PlanInv, VersionInv
    <2> QED BY <1>3, <2>1, <2>2, SubmissionsAssumption DEF Grown
  <1>5. VersionInv'
    <2>1. \A q \in Plans : VersionsOf(records', q) > 0 => q \in used'
      BY <1>3 DEF PlanInv, VersionInv
    <2>2. ASSUME NEW q \in Plans, NEW w \in Submissions!Numbers, <<q, w>> \in DOMAIN records'
          PROVE  /\ records'[<<q, w>>] \in Submissions!Digest \cup {Submissions!Published}
                 /\ records'[<<q, w>>] # Submissions!Published => records'[<<q, w>>].prior = w - 1
      <3>1. CASE <<q, w>> = <<p, v>>
        BY <1>1, <2>2, <3>1
      <3>2. CASE <<q, w>> # <<p, v>>
        BY <1>1, <2>2, <3>2 DEF PlanInv, VersionInv
      <3> QED BY <3>1, <3>2
    <2>3. DOMAIN records' \subseteq Plans \X Submissions!Numbers /\ used' \subseteq Plans
      BY <1>1 DEF PlanInv, VersionInv
    <2> QED BY <1>3, <2>1, <2>2, <2>3 DEF VersionInv
  <1>6. BindingInv'
    <2>1. DOMAIN submissions' \subseteq PlanKeys \cup Plans
      BY <1>1 DEF PlanInv, BindingInv
    <2>2. ASSUME NEW j \in DOMAIN submissions'
          PROVE  /\ submissions'[j] \in [plan : Plans, version : Submissions!Numbers]
                 /\ <<submissions'[j].plan, submissions'[j].version>> \in DOMAIN records'
      <3>1. CASE j = k
        BY <1>1, <3>1
      <3>2. CASE j # k
        BY <1>1, <3>2 DEF PlanInv, BindingInv
      <3> QED BY <3>1, <3>2
    <2>3. ASSUME NEW q \in Plans, NEW w \in Submissions!Numbers, <<q, w>> \in DOMAIN records'
          PROVE  \E j \in DOMAIN submissions' : Submissions!JobsOf(q, w)' = {j}
      <3>1. CASE <<q, w>> = <<p, v>>
        <4>1. \A j \in DOMAIN submissions : submissions[j] # [plan |-> p, version |-> v]
          BY <1>2 DEF PlanInv, BindingInv
        <4>2. Submissions!JobsOf(q, w)' = {k}
          BY <1>1, <3>1, <4>1 DEF Submissions!JobsOf
        <4> QED BY <1>1, <4>2
      <3>2. CASE <<q, w>> # <<p, v>>
        <4>1. PICK j \in DOMAIN submissions : Submissions!JobsOf(q, w) = {j}
          BY <1>1, <2>3, <3>2 DEF PlanInv, BindingInv
        <4>2. [plan |-> p, version |-> v] # [plan |-> q, version |-> w]
          BY <3>2
        <4>3. Submissions!JobsOf(q, w)' = {j}
          BY <1>1, <4>1, <4>2 DEF Submissions!JobsOf
        <4> QED BY <1>1, <4>3
      <3> QED BY <3>1, <3>2
    <2>4. ASSUME NEW q \in Plans, q \in DOMAIN submissions' PROVE VersionsOf(records', q) > 0
      <3>1. VersionsOf(records, q) \in 0 .. MaxVersion
        BY DEF PlanInv, VersionInv
      <3>2. CASE q = k
        BY <1>3, <3>1, <3>2, SubmissionsAssumption
      <3>3. CASE q # k
        BY <1>1, <1>3, <2>4, <3>1, <3>3 DEF PlanInv, BindingInv
      <3> QED BY <3>2, <3>3
    <2> QED BY <2>1, <2>2, <2>3, <2>4 DEF BindingInv
  <1> QED BY <1>1, <1>3, <1>4, <1>5, <1>6

\* A request past the count was counted: the jobs of the others are what the count missed.
LEMMA QuotaStep ==
    ASSUME PlanInv, NEW c \in Sessions, NEW s, pc' = [pc EXCEPT ![c] = s], pending' = pending,
           s \in {"latest", "insert"} => pc[c] = "latest" \/ ~Submissions!QuotaReached
    PROVE  QuotaInv'
  <1>1. /\ IsFiniteSet(Sessions) /\ IsFiniteSet(pending)
        /\ Cardinality(pending) \in Nat /\ Cardinality(Sessions) \in Nat
    BY SubmissionsAssumption, FS_CardinalityType DEF PlanInv, JobInv
  <1>2. \A d \in Sessions : pc'[d] = IF d = c THEN s ELSE pc[d]
    BY DEF PlanInv, ClientInv
  <1>3. PastCount' \subseteq Sessions /\ PastCount \subseteq Sessions
    BY DEF PastCount
  <1>4. CASE s \in {"latest", "insert"} /\ ~Submissions!QuotaReached
    <2>1. Cardinality(pending) < Quota
      BY <1>1, <1>4, SameCount, SubmissionsAssumption DEF Submissions!QuotaReached
    <2>2. Cardinality(PastCount') <= Cardinality(Sessions) /\ Cardinality(PastCount') \in Nat
      BY <1>1, <1>3, FS_Subset, FS_CardinalityType
    <2> QED BY <1>1, <2>1, <2>2, SubmissionsAssumption DEF QuotaInv
  <1>5. CASE s \in {"latest", "insert"} => pc[c] = "latest"
    <2>1. PastCount' \subseteq PastCount
      BY <1>2, <1>5 DEF PastCount
    <2>2. IsFiniteSet(PastCount) /\ IsFiniteSet(PastCount')
      BY <1>1, <1>3, FS_Subset
    <2>3. /\ Cardinality(PastCount') <= Cardinality(PastCount)
          /\ Cardinality(PastCount') \in Nat /\ Cardinality(PastCount) \in Nat
      BY <2>1, <2>2, FS_Subset, FS_CardinalityType
    <2> QED BY <1>1, <2>3, SubmissionsAssumption DEF QuotaInv, PlanInv
  <1> QED BY <1>4, <1>5

\* A request goes on without writing a plan.
LEMMA MoveStep ==
    ASSUME PlanInv, NEW c \in Sessions, NEW s, NEW m, NEW a, Moves(c, s, m, a),
           UNCHANGED <<records, submissions, pending>>, used \subseteq used', used' \subseteq Plans,
           drafted' \in used' \cup {None}, drafted' # None => <<drafted', 1>> \in DOMAIN records,
           CallOK(records, used', s, m), AnswerOK(records, a),
           \A d \in Sessions : d # c => Apart(s, m, pc[d], call[d]),
           s \in {"latest", "insert"} => pc[c] = "latest" \/ ~Submissions!QuotaReached
    PROVE  PlanInv'
  <1>1. VersionInv' /\ Grown(records, used, records', used')
    BY SubmissionsAssumption DEF PlanInv, VersionInv, Grown
  <1>2. BindingInv'
    BY DEF PlanInv, BindingInv, Submissions!JobsOf
  <1>3. JobInv'
    BY DEF PlanInv, JobInv, Submissions!PolicyHasPlan
  <1>4. Serves(c, s, m, a)
    <2>1. \A d \in Sessions : pc[d] = "publish" => VersionsOf(records, call[d].plan) = 0
      BY DEF PlanInv, ClientInv, CallOK, Publishing
    <2> QED BY <1>1, <2>1 DEF Serves
  <1>5. ClientInv'
    BY <1>4, ServeStep DEF PlanInv
  <1>6. QuotaInv'
    BY QuotaStep DEF Moves
  <1> QED BY <1>1, <1>2, <1>3, <1>5, <1>6 DEF PlanInv

\* A request ends.
LEMMA AnsweredStep ==
    ASSUME PlanInv, NEW c \in Sessions, NEW a, Submissions!End(c, a), AnswerOK(records, a),
           UNCHANGED <<records, submissions, pending, used, drafted>>
    PROVE  PlanInv'
  <1> DEFINE m == Submissions!Nothing
  <1>1. CallOK(records, used, "idle", m)
    BY SubmissionsAssumption DEF CallOK, HeldCall, PlanSteps, Submissions!Nothing
  <1>2. Moves(c, "idle", m, a)
    BY DEF Submissions!End, Moves
  <1>3. \A d \in Sessions : Apart("idle", m, pc[d], call[d])
    BY DEF Apart
  <1>4. used \subseteq Plans /\ drafted \in used \cup {None}
        /\ (drafted # None => <<drafted, 1>> \in DOMAIN records)
    BY DEF PlanInv, VersionInv, JobInv, Submissions!PolicyHasPlan
  <1> HIDE DEF m
  <1> QED BY <1>1, <1>2, <1>3, <1>4, MoveStep

\* A request goes on without a plan of its own.
LEMMA GoingStep ==
    ASSUME PlanInv, NEW c \in Sessions, NEW s, NEW m, Submissions!Goto(c, s, m),
           CallOK(records, used, s, m), s \notin {"insert", "publish"},
           s = "latest" => ~Submissions!QuotaReached,
           UNCHANGED <<records, submissions, pending, used, drafted>>
    PROVE  PlanInv'
  <1>1. Moves(c, s, m, None)
    BY DEF Submissions!Goto, Moves
  <1>2. \A d \in Sessions : Apart(s, m, pc[d], call[d])
    BY DEF Apart
  <1>3. used \subseteq Plans /\ drafted \in used \cup {None}
        /\ (drafted # None => <<drafted, 1>> \in DOMAIN records)
    BY DEF PlanInv, VersionInv, JobInv, Submissions!PolicyHasPlan
  <1>4. AnswerOK(records, None)
    BY DEF AnswerOK
  <1> QED BY <1>1, <1>2, <1>3, <1>4, MoveStep

\* A refused request changes nothing.
LEMMA RefusedStep ==
    ASSUME PlanInv, NEW c \in Sessions, Submissions!Refused(c),
           UNCHANGED <<records, submissions, pending, used, drafted>>
    PROVE  PlanInv'
  BY AnsweredStep DEF Submissions!Refused, AnswerOK

\* What a request holds when it begins.
LEMMA NothingHeld == Submissions!Nothing \in HeldCall
  BY SubmissionsAssumption DEF HeldCall, Submissions!Nothing

\* Requests begin.
LEMMA BeginStep ==
    ASSUME PlanInv, NEW c \in Sessions,
           \/ \E k \in PlanKeys, d \in Submissions!Digest : Submissions!Submit(c, k, d)
           \/ \E op \in {"read", "export"}, p \in Plans, v \in Submissions!Numbers :
                Submissions!Read(c, op, p, v)
    PROVE  PlanInv'
  <1>1. ASSUME NEW k \in PlanKeys, NEW d \in Submissions!Digest, Submissions!Submit(c, k, d)
        PROVE  PlanInv'
    <2> DEFINE m == [Submissions!Nothing EXCEPT !.op = "submit", !.key = k, !.digest = d]
    <2>1. m.op = "submit" /\ m.key = k /\ m.digest = d /\ m.floor = 0
      BY DEF Submissions!Nothing
    <2>2. m \in HeldCall
      BY NothingHeld DEF HeldCall
    <2>3. Submissions!Goto(c, "lookup", m) /\ UNCHANGED <<records, submissions, pending, used, drafted>>
      BY <1>1 DEF Submissions!Submit, Submissions!tables
    <2>4. d.plan = None <=> d.prior = 0
      BY <1>1 DEF Submissions!Submit
    <2> HIDE DEF m
    <2>5. CallOK(records, used, "lookup", m)
      BY <2>1, <2>2, <2>4 DEF CallOK, PlanSteps, Submitting
    <2> QED BY <2>3, <2>5, GoingStep
  <1>2. ASSUME NEW op \in {"read", "export"}, NEW p \in Plans, NEW v \in Submissions!Numbers,
               Submissions!Read(c, op, p, v)
        PROVE  PlanInv'
    <2> DEFINE n == Submissions!Latest(p)
               m == [Submissions!Nothing EXCEPT !.op = op, !.plan = p, !.version = v, !.floor = n]
    <2>1. n = VersionsOf(records, p) /\ n \in 0 .. MaxVersion
      BY LatestIsCount DEF PlanInv, VersionInv
    <2>2. Submissions!Goto(c, "view", m) /\ UNCHANGED <<records, submissions, pending, used, drafted>>
          /\ <<p, v>> \in DOMAIN records
      BY <1>2 DEF Submissions!Read, Submissions!tables
    <2> HIDE DEF n
    <2>3. m.op = op /\ m.plan = p /\ m.version = v /\ m.floor = n
      BY DEF Submissions!Nothing
    <2>4. v \in 0 .. MaxVersion
      BY SubmissionsAssumption DEF Submissions!Numbers
    <2>5. m \in HeldCall
      BY <2>1, <2>4, NothingHeld DEF HeldCall
    <2>6. Viewing(records, m)
      BY <2>1, <2>2, <2>3, SubmissionsAssumption DEF Viewing
    <2> HIDE DEF m
    <2>7. CallOK(records, used, "view", m)
      BY <2>5, <2>6 DEF CallOK, PlanSteps
    <2> QED BY <2>2, <2>7, GoingStep
  <1> QED BY <1>1, <1>2

\* A known key leads to the version that its own request created.
LEMMA LookupStep ==
    ASSUME PlanInv, NEW c \in Sessions, Submissions!Lookup(c)
    PROVE  PlanInv'
  <1> DEFINE n == call[c]
             x == submissions[n.key]
             m == [n EXCEPT !.plan = x.plan, !.version = x.version]
  <1>1. n \in HeldCall /\ Submitting(n)
    BY DEF Submissions!Lookup, PlanInv, ClientInv, CallOK
  <1>2. UNCHANGED <<records, submissions, pending, used, drafted>>
    BY DEF Submissions!Lookup, Submissions!tables
  <1>3. CASE Submissions!Goto(c, "count", n)
    <2>1. CallOK(records, used, "count", n)
      BY <1>1 DEF CallOK, PlanSteps
    <2> QED BY <1>2, <1>3, <2>1, GoingStep
  <1>4. CASE /\ n.key \in DOMAIN submissions /\ Submissions!SameRequest(n.key, n.digest)
             /\ Submissions!Goto(c, "view", m)
    <2>1. /\ x \in [plan : Plans, version : Submissions!Numbers]
          /\ <<x.plan, x.version>> \in DOMAIN records
      BY <1>4 DEF PlanInv, BindingInv
    <2>2. records[<<x.plan, x.version>>] = n.digest
      BY <1>4 DEF Submissions!SameRequest, Submissions!Bound
    <2>3. x.plan \in Plans /\ x.version \in Submissions!Numbers /\ x.version \in 0 .. MaxVersion
      BY <2>1, SubmissionsAssumption DEF Submissions!Numbers
    <2> HIDE DEF x, n
    <2>4. /\ m \in HeldCall /\ m.plan = x.plan /\ m.version = x.version /\ m.op = n.op
          /\ m.digest = n.digest /\ m.floor = n.floor
      BY <1>1, <2>3 DEF HeldCall
    <2>5. VersionsOf(records, x.plan) \in 0 .. MaxVersion
      BY <2>3 DEF PlanInv, VersionInv
    <2> HIDE DEF m
    <2>6. Viewing(records, m)
      BY <1>1, <2>1, <2>2, <2>3, <2>4, <2>5, SubmissionsAssumption DEF Viewing, Submitting
    <2>7. CallOK(records, used, "view", m)
      BY <2>4, <2>6 DEF CallOK, PlanSteps
    <2> QED BY <1>2, <1>4, <2>7, GoingStep
  <1>5. CASE Submissions!Refused(c)
    BY <1>2, <1>5, RefusedStep
  <1> QED BY <1>3, <1>4, <1>5 DEF Submissions!Lookup, Submissions!Bound

\* A request within the quota reserves a new plan, or goes on to revise one.
LEMMA CountStep ==
    ASSUME PlanInv, NEW c \in Sessions, Submissions!Count(c)
    PROVE  PlanInv'
  <1> DEFINE n == call[c]
  <1>1. n \in HeldCall /\ Submitting(n)
    BY DEF Submissions!Count, PlanInv, ClientInv, CallOK
  <1>2. UNCHANGED <<records, submissions, pending, drafted>>
    BY DEF Submissions!Count, Submissions!tables
  <1>3. CASE Submissions!Refused(c) /\ used' = used
    BY <1>2, <1>3, RefusedStep
  <1>4. CASE /\ ~Submissions!QuotaReached /\ n.digest.plan # None
             /\ Submissions!Goto(c, "latest", n) /\ used' = used
    <2>1. CallOK(records, used, "latest", n)
      BY <1>1, <1>4 DEF CallOK, PlanSteps
    <2> QED BY <1>2, <1>4, <2>1, GoingStep
  <1>5. ASSUME ~Submissions!QuotaReached, n.digest.plan = None, NEW p \in Plans \ used,
               used' = used \cup {p},
               Submissions!Goto(c, "insert", [n EXCEPT !.plan = p, !.version = 1])
        PROVE  PlanInv'
    <2> DEFINE m == [n EXCEPT !.plan = p, !.version = 1]
    <2>1. 1 \in 0 .. MaxVersion /\ 1 \in Submissions!Numbers
      BY SubmissionsAssumption DEF Submissions!Numbers
    <2>2. Moves(c, "insert", m, None)
      BY <1>5 DEF Submissions!Goto, Moves
    <2>3. used \subseteq used' /\ used' \subseteq Plans /\ p \in used'
      BY <1>5 DEF PlanInv, VersionInv
    <2>4. /\ drafted' \in used' \cup {None}
          /\ drafted' # None => <<drafted', 1>> \in DOMAIN records
      BY <1>2, <2>3 DEF PlanInv, JobInv, Submissions!PolicyHasPlan
    <2>5. \A d \in Sessions : pc[d] = "publish" => call[d].plan \in used
      BY DEF PlanInv, ClientInv, CallOK, Publishing
    <2> HIDE DEF n
    <2>6. /\ m \in HeldCall /\ m.plan = p /\ m.version = 1 /\ m.op = n.op /\ m.key = n.key
          /\ m.digest = n.digest /\ m.floor = n.floor
      BY <1>1, <2>1 DEF HeldCall
    <2>7. VersionsOf(records, p) \in 0 .. MaxVersion
      BY DEF PlanInv, VersionInv
    <2> HIDE DEF m
    <2>8. Submitting(m) /\ m.digest.prior = 0
      BY <1>1, <1>5, <2>6 DEF Submitting
    <2>9. Inserting(records, used', m)
      BY <2>1, <2>3, <2>6, <2>7, <2>8, SubmissionsAssumption DEF Inserting
    <2>10. CallOK(records, used', "insert", m)
      BY <2>6, <2>8, <2>9 DEF CallOK, PlanSteps
    <2>11. \A d \in Sessions : Apart("insert", m, pc[d], call[d])
      BY <2>5, <2>6 DEF Apart
    <2>12. AnswerOK(records, None)
      BY DEF AnswerOK
    <2> QED BY <1>2, <1>5, <2>2, <2>3, <2>4, <2>10, <2>11, <2>12, MoveStep
  <1> QED BY <1>3, <1>4, <1>5 DEF Submissions!Count

\* A revision goes on from the version that was the newest.
LEMMA LatestStep ==
    ASSUME PlanInv, NEW c \in Sessions, Submissions!LatestVersion(c)
    PROVE  PlanInv'
  <1> DEFINE n == call[c]
             p == n.digest.plan
             v == Submissions!Latest(p)
             m == [n EXCEPT !.plan = p, !.version = v + 1]
  <1>1. n \in HeldCall /\ Submitting(n) /\ p # None /\ pc[c] = "latest"
    BY DEF Submissions!LatestVersion, PlanInv, ClientInv, CallOK
  <1>2. UNCHANGED <<records, submissions, pending, used, drafted>>
    BY DEF Submissions!LatestVersion, Submissions!tables
  <1>3. CASE Submissions!Refused(c)
    BY <1>2, <1>3, RefusedStep
  <1>4. CASE /\ Submissions!MayRevise(n.digest) /\ v < MaxVersion
             /\ Submissions!Goto(c, "insert", m)
    <2>1. p \in Plans /\ n.digest \in Submissions!Digest
      BY <1>1 DEF Submitting, Submissions!Digest
    <2>2. v = VersionsOf(records, p) /\ v \in 0 .. MaxVersion /\ v > 0 /\ v = n.digest.prior
      BY <1>4, <2>1, LatestIsCount DEF PlanInv, VersionInv, Submissions!MayRevise
    <2>3. p \in used /\ used \subseteq Plans
      BY <2>1, <2>2 DEF PlanInv, VersionInv
    <2>4. \A d \in Sessions : pc[d] = "publish" => VersionsOf(records, call[d].plan) = 0
      BY DEF PlanInv, ClientInv, CallOK, Publishing
    <2>5. Moves(c, "insert", m, None)
      BY <1>4 DEF Submissions!Goto, Moves
    <2>6. /\ drafted \in used \cup {None}
          /\ drafted # None => <<drafted, 1>> \in DOMAIN records
      BY DEF PlanInv, JobInv, Submissions!PolicyHasPlan
    <2>7. n.digest.prior = v
      BY <2>2
    <2> HIDE DEF v
    <2>8. v + 1 \in 0 .. MaxVersion /\ v + 1 \in Submissions!Numbers /\ (v + 1) - 1 = v
      BY <1>4, <2>2, SubmissionsAssumption DEF Submissions!Numbers
    <2> HIDE DEF p
    <2> HIDE DEF n
    <2>9. /\ m \in HeldCall /\ m.plan = p /\ m.version = v + 1 /\ m.op = n.op /\ m.key = n.key
          /\ m.digest = n.digest /\ m.floor = n.floor
      BY <1>1, <2>1, <2>8 DEF HeldCall
    <2> HIDE DEF m
    <2>10. Submitting(m)
      BY <1>1, <2>9 DEF Submitting
    <2>11. Inserting(records, used, m)
      <3>1. m.plan \in used /\ m.plan \in Plans
        BY <2>1, <2>3, <2>9
      <3>2. m.version \in Submissions!Numbers
        BY <2>8, <2>9
      <3>3. VersionsOf(records, m.plan) = v
        BY <2>2, <2>9
      <3>4. m.digest.prior = m.version - 1
        BY <2>7, <2>8, <2>9
      <3>5. m.version <= VersionsOf(records, m.plan) + 1
        BY <2>2, <2>9, <3>3, SubmissionsAssumption
      <3> QED BY <3>1, <3>2, <3>4, <3>5 DEF Inserting
    <2>12. CallOK(records, used, "insert", m)
      BY <2>9, <2>10, <2>11 DEF CallOK, PlanSteps
    <2>13. \A d \in Sessions : Apart("insert", m, pc[d], call[d])
      <3>1. VersionsOf(records, m.plan) # 0
        <4>1. VersionsOf(records, m.plan) = v
          BY <2>2, <2>9
        <4>2. v \in Int /\ v > 0
          BY <2>2, SubmissionsAssumption
        <4> QED BY <4>1, <4>2
      <3> QED BY <2>4, <3>1 DEF Apart
    <2>14. AnswerOK(records, None)
      BY DEF AnswerOK
    <2> QED BY <1>1, <1>2, <2>3, <2>5, <2>6, <2>12, <2>13, <2>14, MoveStep
  <1> QED BY <1>3, <1>4 DEF Submissions!LatestVersion

\* Requests read the version they answer with.
LEMMA ViewStep ==
    ASSUME PlanInv, NEW c \in Sessions, Submissions!View(c) \/ Submissions!Job(c)
    PROVE  PlanInv'
  <1> DEFINE n == call[c]
  <1>1. n \in HeldCall /\ Viewing(records, n) /\ (pc[c] = "job" => n.floor <= n.latest)
    BY DEF Submissions!View, Submissions!Job, PlanInv, ClientInv, CallOK
  <1>2. UNCHANGED <<records, submissions, pending, used, drafted>>
    BY DEF Submissions!View, Submissions!Job, Submissions!tables
  <1>3. CASE Submissions!View(c)
    <2> DEFINE v == Submissions!Latest(n.plan)
               m == [n EXCEPT !.latest = v]
    <2>1. v = VersionsOf(records, n.plan) /\ v \in 0 .. MaxVersion
      BY <1>1, LatestIsCount DEF PlanInv, VersionInv, Viewing
    <2>2. Submissions!Goto(c, "job", m)
      BY <1>3 DEF Submissions!View
    <2> HIDE DEF v, n
    <2>3. /\ m \in HeldCall /\ m.latest = v /\ m.plan = n.plan /\ m.version = n.version
          /\ m.op = n.op /\ m.digest = n.digest /\ m.floor = n.floor
      BY <1>1, <2>1 DEF HeldCall
    <2> HIDE DEF m
    <2>4. Viewing(records, m) /\ m.floor <= m.latest
      BY <1>1, <2>1, <2>3 DEF Viewing
    <2>5. CallOK(records, used, "job", m)
      BY <2>3, <2>4 DEF CallOK, PlanSteps
    <2> QED BY <1>2, <2>2, <2>5, GoingStep
  <1>4. CASE Submissions!Job(c)
    <2> DEFINE a == [op |-> n.op, digest |-> n.digest, plan |-> n.plan, version |-> n.version,
                     floor |-> n.floor]
    <2>1. CASE Submissions!Refused(c)
      BY <1>2, <2>1, RefusedStep
    <2>2. CASE Submissions!End(c, a) /\ (n.op = "export" => ~Submissions!Stale(n))
      <3>1. n.floor <= n.latest
        BY <1>1, <1>4 DEF Submissions!Job
      <3>2. n.op = "export" => n.version >= n.floor
        BY <1>1, <2>2, <3>1, SubmissionsAssumption DEF Submissions!Stale, HeldCall
      <3>3. AnswerOK(records, a)
        BY <1>1, <3>2 DEF AnswerOK, Viewing
      <3> HIDE DEF a
      <3> QED BY <1>2, <2>2, <3>3, AnsweredStep
    <2> QED BY <1>4, <2>1, <2>2 DEF Submissions!Job
  <1> QED BY <1>3, <1>4

\* A draft reserves a plan of its own.
LEMMA DraftStep ==
    ASSUME PlanInv, NEW c \in Sessions, Submissions!Draft(c)
    PROVE  PlanInv'
  <1>1. PICK p \in Plans \ used :
          /\ used' = used \cup {p}
          /\ Submissions!Goto(c, "publish", [Submissions!Nothing EXCEPT !.op = "draft", !.plan = p,
                                                                        !.version = 1])
    BY DEF Submissions!Draft
  <1> DEFINE m == [Submissions!Nothing EXCEPT !.op = "draft", !.plan = p, !.version = 1]
  <1>2. UNCHANGED <<records, submissions, pending, drafted>>
    BY DEF Submissions!Draft, Submissions!tables
  <1>3. 1 \in 0 .. MaxVersion
    BY SubmissionsAssumption
  <1>4. m \in HeldCall /\ m.plan = p
    BY <1>3, NothingHeld DEF HeldCall
  <1>5. Moves(c, "publish", m, None)
    BY <1>1 DEF Submissions!Goto, Moves
  <1>6. used \subseteq used' /\ used' \subseteq Plans /\ p \in used' /\ p \notin used
    BY <1>1 DEF PlanInv, VersionInv
  <1>7. /\ drafted' \in used' \cup {None}
        /\ drafted' # None => <<drafted', 1>> \in DOMAIN records
    BY <1>2, <1>6 DEF PlanInv, JobInv, Submissions!PolicyHasPlan
  <1>8. \A d \in Sessions : pc[d] \in {"insert", "publish"} => call[d].plan \in used
    BY DEF PlanInv, ClientInv, CallOK, Publishing, Inserting
  <1>9. VersionsOf(records, p) = 0
    BY <1>6, SubmissionsAssumption DEF PlanInv, VersionInv
  <1> HIDE DEF m
  <1>10. CallOK(records, used', "publish", m)
    BY <1>4, <1>6, <1>9 DEF CallOK, PlanSteps, Publishing
  <1>11. \A d \in Sessions : Apart("publish", m, pc[d], call[d])
    BY <1>4, <1>6, <1>8 DEF Apart
  <1>12. AnswerOK(records, None)
    BY DEF AnswerOK
  <1> QED BY <1>2, <1>5, <1>6, <1>7, <1>10, <1>11, <1>12, MoveStep

\* The second of two drafts finds a policy.
LEMMA CreateStep ==
    ASSUME PlanInv, NEW c \in Sessions, Submissions!Create(c)
    PROVE  PlanInv'
  <1> DEFINE m == Submissions!Nothing
  <1>1. CallOK(records, used, "idle", m)
    BY SubmissionsAssumption, NothingHeld DEF CallOK, PlanSteps
  <1>2. Moves(c, "idle", m, None) /\ UNCHANGED <<records, submissions, pending, used>>
    BY DEF Submissions!Create, Submissions!Refused, Submissions!End, Moves, Submissions!tables
  <1>3. call[c].plan \in used /\ <<call[c].plan, 1>> \in DOMAIN records
    BY DEF Submissions!Create, PlanInv, ClientInv, CallOK
  <1>4. /\ used \subseteq Plans /\ drafted' \in used \cup {None}
        /\ drafted' # None => <<drafted', 1>> \in DOMAIN records
    BY <1>3 DEF PlanInv, VersionInv, JobInv, Submissions!PolicyHasPlan, Submissions!Create
  <1>5. \A d \in Sessions : Apart("idle", m, pc[d], call[d])
    BY DEF Apart
  <1>6. AnswerOK(records, None)
    BY DEF AnswerOK
  <1> HIDE DEF m
  <1> QED BY <1>1, <1>2, <1>4, <1>5, <1>6, MoveStep

\* The plan, its job and its submission are written together.
LEMMA InsertStep ==
    ASSUME PlanInv, NEW c \in Sessions, Submissions!Insert(c)
    PROVE  PlanInv'
  <1> DEFINE n == call[c]
  <1>1. /\ n \in HeldCall /\ Submitting(n) /\ Inserting(records, used, n) /\ pc[c] = "insert"
    BY DEF Submissions!Insert, PlanInv, ClientInv, CallOK
  <1>2. UNCHANGED <<used, drafted>>
    BY DEF Submissions!Insert
  <1>3. CASE Submissions!Refused(c) /\ UNCHANGED <<records, submissions, pending>>
    BY <1>2, <1>3, RefusedStep
  <1>4. CASE /\ Submissions!Free(n.plan, n.version, n.key)
             /\ Submissions!Store(n.plan, n.version, n.key, n.digest)
             /\ pending' = pending \cup {n.key} /\ Submissions!Goto(c, "view", n)
    <2> DEFINE p == n.plan
               v == n.version
               k == n.key
               d == n.digest
    <2>1. /\ p \in Plans /\ p \in used /\ v \in Submissions!Numbers /\ k \in PlanKeys
          /\ d \in Submissions!Digest /\ d.prior = v - 1 /\ k \notin Plans
      BY <1>1, SubmissionsAssumption DEF Submitting, Inserting
    <2>2. VersionsOf(records, p) \in 0 .. MaxVersion
      BY <2>1 DEF PlanInv, VersionInv
    <2>3. v = VersionsOf(records, p) + 1 /\ k \notin DOMAIN submissions
      <3>1. <<p, v>> \notin DOMAIN records /\ k \notin DOMAIN submissions
        BY <1>4 DEF Submissions!Free
      <3>2. ~(v <= VersionsOf(records, p))
        BY <2>1, <3>1 DEF PlanInv, VersionInv
      <3>3. v <= VersionsOf(records, p) + 1
        BY <1>1 DEF Inserting
      <3>4. v \in Int
        BY <2>1, SubmissionsAssumption DEF Submissions!Numbers
      <3> HIDE DEF v, p
      <3> QED BY <2>2, <3>1, <3>2, <3>3, <3>4, SubmissionsAssumption
    <2>4. Submissions!Store(p, v, k, d)
      BY <1>4
    <2>5. n.op = "submit" /\ n.floor = 0
      BY <1>1 DEF Submitting
    <2> HIDE DEF p, v, k, d
    <2>6. /\ VersionInv' /\ BindingInv' /\ Grown(records, used, records', used')
          /\ \A q \in Plans : VersionsOf(records', q) =
               IF q = p THEN VersionsOf(records, p) + 1 ELSE VersionsOf(records, q)
          /\ DOMAIN submissions' = DOMAIN submissions \cup {k}
          /\ <<p, v>> \in DOMAIN records' /\ records'[<<p, v>>] = d
      BY <1>2, <2>1, <2>3, <2>4, StoreStep
    <2>7. JobInv'
      <3>1. pending' \subseteq DOMAIN submissions'
        BY <1>4, <2>6 DEF PlanInv, JobInv, k
      <3>2. IsFiniteSet(pending')
        BY <1>4, FS_AddElement DEF PlanInv, JobInv
      <3>3. drafted' \in used' \cup {None} /\ Submissions!PolicyHasPlan'
        BY <1>2, <2>6 DEF PlanInv, JobInv, Submissions!PolicyHasPlan, Grown
      <3> QED BY <3>1, <3>2, <3>3 DEF JobInv
    <2>8. Viewing(records', n)
      BY <2>1, <2>2, <2>5, <2>6, SubmissionsAssumption DEF Viewing, p, v, d
    <2>9. CallOK(records', used', "view", n)
      BY <1>1, <2>8 DEF CallOK, PlanSteps
    <2>10. Serves(c, "view", n, None)
      <3>1. Moves(c, "view", n, None)
        BY <1>4 DEF Submissions!Goto, Moves
      <3>2. ASSUME NEW e \in Sessions, e # c, pc[e] = "publish"
            PROVE  VersionsOf(records', call[e].plan) = 0
        <4>1. Publishing(records, used, call[e]) /\ call[e].plan # p
          BY <1>1, <3>2 DEF PlanInv, ClientInv, CallOK, Apart, p
        <4> QED BY <2>6, <4>1 DEF Publishing
      <3>3. AnswerOK(records', None) /\ \A e \in Sessions : Apart("view", n, pc[e], call[e])
        BY DEF AnswerOK, Apart
      <3> QED BY <2>6, <2>9, <3>1, <3>2, <3>3 DEF Serves
    <2>11. ClientInv'
      BY <2>10, ServeStep DEF PlanInv
    <2>12. QuotaInv'
      <3>1. \A e \in Sessions : pc'[e] = IF e = c THEN "view" ELSE pc[e]
        BY <1>4 DEF Submissions!Goto, PlanInv, ClientInv
      <3>2. PastCount' = PastCount \ {c} /\ c \in PastCount /\ PastCount \subseteq Sessions
        BY <1>1, <3>1 DEF PastCount
      <3>3. IsFiniteSet(PastCount)
        BY <3>2, SubmissionsAssumption, FS_Subset
      <3>4. Cardinality(PastCount') = Cardinality(PastCount) - 1 /\ Cardinality(PastCount) \in Nat
        BY <3>2, <3>3, FS_RemoveElement, FS_CardinalityType
      <3>5. /\ Cardinality(pending') <= Cardinality(pending) + 1
            /\ Cardinality(pending) \in Nat /\ Cardinality(pending') \in Nat
        <4>1. IsFiniteSet(pending) /\ IsFiniteSet(pending')
          BY <2>7 DEF PlanInv, JobInv
        <4>2. Cardinality(pending) \in Nat /\ Cardinality(pending') \in Nat
          BY <4>1, FS_CardinalityType
        <4> QED BY <1>4, <4>1, <4>2, FS_AddElement
      <3>6. Cardinality(Sessions) \in Nat
        BY SubmissionsAssumption, FS_CardinalityType
      <3> QED BY <3>4, <3>5, <3>6, SubmissionsAssumption DEF QuotaInv, PlanInv
    <2> QED BY <2>6, <2>7, <2>11, <2>12 DEF PlanInv
  <1> QED BY <1>3, <1>4 DEF Submissions!Insert, Submissions!tables

\* A published plan is written under its own key.
LEMMA PublishStep ==
    ASSUME PlanInv, NEW c \in Sessions, Submissions!Publish(c)
    PROVE  PlanInv'
  <1> DEFINE n == call[c]
             p == n.plan
  <1>1. n \in HeldCall /\ Publishing(records, used, n) /\ pc[c] = "publish"
    BY DEF Submissions!Publish, PlanInv, ClientInv, CallOK
  <1>2. UNCHANGED <<pending, used, drafted>> /\ Submissions!Goto(c, "create", n)
        /\ Submissions!Store(p, 1, p, Submissions!Published)
    BY DEF Submissions!Publish
  <1>3. /\ p \in Plans /\ p \in used /\ 1 \in Submissions!Numbers
        /\ VersionsOf(records, p) = 0 /\ 1 = VersionsOf(records, p) + 1
    BY <1>1, SubmissionsAssumption DEF Publishing, Submissions!Numbers
  <1>4. p \notin DOMAIN submissions
    BY <1>3 DEF PlanInv, BindingInv
  <1> HIDE DEF p
  <1>5. /\ VersionInv' /\ BindingInv' /\ Grown(records, used, records', used')
        /\ \A q \in Plans : VersionsOf(records', q) =
             IF q = p THEN VersionsOf(records, p) + 1 ELSE VersionsOf(records, q)
        /\ DOMAIN submissions' = DOMAIN submissions \cup {p}
        /\ <<p, 1>> \in DOMAIN records' /\ records'[<<p, 1>>] = Submissions!Published
    BY <1>2, <1>3, <1>4, StoreStep
  <1>6. JobInv'
    BY <1>2, <1>5 DEF PlanInv, JobInv, Submissions!PolicyHasPlan, Grown
  <1>7. CallOK(records', used', "create", n)
    BY <1>1, <1>2, <1>3, <1>5 DEF CallOK, PlanSteps, p
  <1>8. Serves(c, "create", n, None)
    <2>1. Moves(c, "create", n, None)
      BY <1>2 DEF Submissions!Goto, Moves
    <2>2. ASSUME NEW e \in Sessions, e # c, pc[e] = "publish"
          PROVE  VersionsOf(records', call[e].plan) = 0
      <3>1. Publishing(records, used, call[e]) /\ call[e].plan # p
        BY <1>1, <2>2 DEF PlanInv, ClientInv, CallOK, Apart, p
      <3> QED BY <1>5, <3>1 DEF Publishing
    <2>3. AnswerOK(records', None) /\ \A e \in Sessions : Apart("create", n, pc[e], call[e])
      BY DEF AnswerOK, Apart
    <2> QED BY <1>5, <1>7, <2>1, <2>2, <2>3 DEF Serves
  <1>9. ClientInv'
    BY <1>8, ServeStep DEF PlanInv
  <1>10. QuotaInv'
    BY <1>2, QuotaStep DEF Submissions!Goto
  <1> QED BY <1>5, <1>6, <1>9, <1>10 DEF PlanInv

\* Jobs end.
LEMMA EndsStep ==
    ASSUME PlanInv, NEW k \in PlanKeys, Submissions!JobEnds(k)
    PROVE  PlanInv'
  <1>1. /\ UNCHANGED <<records, submissions, used, drafted, pc, call, answer>>
        /\ pending' = pending \ {k} /\ k \in pending
    BY DEF Submissions!JobEnds
  <1>2. VersionInv' /\ ClientInv'
    BY <1>1 DEF PlanInv, VersionInv, ClientInv
  <1>3. BindingInv'
    BY <1>1 DEF PlanInv, BindingInv, Submissions!JobsOf
  <1>4. IsFiniteSet(pending) /\ IsFiniteSet(pending')
    BY <1>1, FS_RemoveElement DEF PlanInv, JobInv
  <1>5. JobInv'
    BY <1>1, <1>4 DEF PlanInv, JobInv, Submissions!PolicyHasPlan
  <1>6. QuotaInv'
    <2>1. /\ Cardinality(pending') = Cardinality(pending) - 1 /\ Cardinality(pending) \in Nat
      BY <1>1, <1>4, FS_RemoveElement, FS_CardinalityType
    <2>2. PastCount' = PastCount /\ PastCount \subseteq Sessions
      BY <1>1 DEF PastCount
    <2>3. Cardinality(PastCount) \in Nat /\ Cardinality(Sessions) \in Nat
      BY <2>2, SubmissionsAssumption, FS_Subset, FS_CardinalityType
    <2> QED BY <2>1, <2>2, <2>3, SubmissionsAssumption DEF QuotaInv, PlanInv
  <1> QED BY <1>2, <1>3, <1>5, <1>6 DEF PlanInv

\* Nothing is stored yet.
LEMMA PlanInit == Submissions!Init => PlanInv
  <1> SUFFICES ASSUME Submissions!Init PROVE PlanInv
    OBVIOUS
  <1>1. /\ records = <<>> /\ submissions = <<>> /\ pending = {} /\ used = {} /\ drafted = None
        /\ pc = [c \in Sessions |-> "idle"] /\ call = [c \in Sessions |-> Submissions!Nothing]
        /\ answer = [c \in Sessions |-> None]
    BY DEF Submissions!Init
  <1>2. DOMAIN records = {} /\ DOMAIN submissions = {}
    BY <1>1
  <1>3. ASSUME NEW p \in Plans PROVE VersionsOf(records, p) = 0
    BY <1>2, VersionCount, SubmissionsAssumption DEF Submissions!Numbers
  <1>4. VersionInv
    BY <1>1, <1>2, <1>3, SubmissionsAssumption DEF VersionInv, Submissions!Numbers
  <1>5. BindingInv
    BY <1>2 DEF BindingInv
  <1>6. JobInv
    BY <1>1, FS_EmptySet DEF JobInv, Submissions!PolicyHasPlan
  <1>7. ClientInv
    <2>1. CallOK(records, used, "idle", Submissions!Nothing) /\ AnswerOK(records, None)
      BY NothingHeld DEF CallOK, PlanSteps, AnswerOK
    <2>2. \A c, d \in Sessions : Apart(pc[c], call[c], pc[d], call[d])
      BY <1>1 DEF Apart
    <2> HIDE DEF Submissions!Nothing
    <2> QED BY <1>1, <2>1, <2>2 DEF ClientInv, PlanSteps
  <1>8. QuotaInv
    <2>1. PastCount = {}
      BY <1>1 DEF PastCount
    <2>2. Cardinality(PastCount) = 0 /\ Cardinality(pending) = 0
      BY <1>1, <2>1, FS_EmptySet
    <2>3. Cardinality(Sessions) \in Nat /\ Cardinality(Sessions) # 0
      BY SubmissionsAssumption, FS_CardinalityType, FS_EmptySet
    <2> QED BY <2>2, <2>3, SubmissionsAssumption DEF QuotaInv
  <1> QED BY <1>4, <1>5, <1>6, <1>7, <1>8 DEF PlanInv

\* Every step of a client, or of a job, keeps the invariant.
LEMMA PlanStep == PlanInv /\ [Submissions!Next]_Submissions!vars => PlanInv'
  <1> SUFFICES ASSUME PlanInv, [Submissions!Next]_Submissions!vars PROVE PlanInv'
    OBVIOUS
  <1>1. CASE UNCHANGED Submissions!vars
    <2>1. UNCHANGED <<records, submissions, pending, used, drafted, pc, call, answer>>
      BY <1>1 DEF Submissions!vars, Submissions!tables
    <2> QED BY <2>1
      DEF PlanInv, VersionInv, BindingInv, JobInv, ClientInv, QuotaInv, PastCount, Submissions!JobsOf,
          Submissions!PolicyHasPlan
  <1>2. ASSUME NEW c \in Sessions, Submissions!Crash(c) PROVE PlanInv'
    BY <1>2, RefusedStep DEF Submissions!Crash, Submissions!tables
  <1> QED BY <1>1, <1>2, BeginStep, LookupStep, CountStep, LatestStep, InsertStep, ViewStep, DraftStep,
             PublishStep, CreateStep, EndsStep DEF Submissions!Next

\* The plans of the control plane change by the steps of PlanSubmissions only.
LEMMA PlanePlans == PlaneSpec => Submissions!Spec
  <1>1. PlaneInit => Submissions!Init
    BY DEF PlaneInit
  <1>2. [PlaneNext]_planeVars => [Submissions!Next]_Submissions!vars
    <2> SUFFICES ASSUME [PlaneNext]_planeVars, ~Submissions!Next PROVE UNCHANGED Submissions!vars
      OBVIOUS
    <2>1. UNCHANGED planVars
      BY DEF PlaneNext, planeVars
    <2> QED BY <2>1 DEF planVars, Submissions!vars, Submissions!tables
  <1> QED BY <1>1, <1>2, PTL DEF PlaneSpec, Submissions!Spec

\* The invariant says all that is promised.
LEMMA PlanPromise == PlanInv => Submissions!SubmissionSafety
  <1> SUFFICES ASSUME PlanInv PROVE Submissions!SubmissionSafety
    OBVIOUS
  <1>1. ASSUME NEW x \in DOMAIN records
        PROVE  /\ x[1] \in Plans /\ x[2] \in Submissions!Numbers /\ x = <<x[1], x[2]>>
               /\ <<x[1], x[2]>> \in DOMAIN records
    BY DEF PlanInv, VersionInv
  <1>2. Submissions!OneSubmissionPerVersion
    <2>1. ASSUME NEW x \in DOMAIN records
          PROVE  Submissions!Cardinality(Submissions!JobsOf(x[1], x[2])) = 1
      <3>1. PICK k \in DOMAIN submissions : Submissions!JobsOf(x[1], x[2]) = {k}
        BY <1>1 DEF PlanInv, BindingInv
      <3> QED BY <3>1, SameCount, FS_Singleton
    <2>2. \A k \in DOMAIN submissions : <<submissions[k].plan, submissions[k].version>> \in DOMAIN records
      BY DEF PlanInv, BindingInv
    <2> QED BY <2>1, <2>2 DEF Submissions!OneSubmissionPerVersion, Submissions!Bound
  <1>3. Submissions!RevisionsAreLinear
    <2>1. ASSUME NEW x \in DOMAIN records
          PROVE  /\ x[2] <= VersionsOf(records, x[1])
                 /\ records[x] # Submissions!Published => records[x].prior = x[2] - 1
      BY <1>1 DEF PlanInv, VersionInv
    <2> QED BY <2>1, LatestIsCount DEF Submissions!RevisionsAreLinear
  <1>4. Submissions!AnswerIsForRequest /\ Submissions!OldExportsFail
    BY DEF PlanInv, ClientInv, AnswerOK, Submissions!AnswerIsForRequest, Submissions!OldExportsFail
  <1>5. Submissions!QuotaOverrun
    BY SameCount DEF PlanInv, QuotaInv, PastCount, Submissions!QuotaOverrun
  <1>6. Submissions!TypeOK
    <2>1. \A x \in DOMAIN records : records[x] \in Submissions!Digest \cup {Submissions!Published}
      BY <1>1 DEF PlanInv, VersionInv
    <2>2. \A c \in Sessions : answer[c] = None \/ answer[c].version \in 1 .. MaxVersion
      BY DEF PlanInv, ClientInv, AnswerOK, Submissions!Numbers
    <2>3. DOMAIN records \subseteq Plans \X Submissions!Numbers /\ used \subseteq Plans
      BY DEF PlanInv, VersionInv
    <2>4. /\ DOMAIN submissions \subseteq PlanKeys \cup Plans
          /\ \A k \in DOMAIN submissions : submissions[k] \in [plan : Plans, version : Submissions!Numbers]
      BY DEF PlanInv, BindingInv
    <2>5. pending \subseteq DOMAIN submissions /\ drafted \in used \cup {None}
      BY DEF PlanInv, JobInv
    <2>6. pc \in [Sessions -> PlanSteps]
      BY DEF PlanInv, ClientInv
    <2> QED BY <2>1, <2>2, <2>3, <2>4, <2>5, <2>6 DEF Submissions!TypeOK, PlanSteps
  <1> QED BY <1>2, <1>3, <1>4, <1>5, <1>6 DEF PlanInv, JobInv, Submissions!SubmissionSafety

\* Whatever requests overlap, repeat or are lost: versions of a plan are linear and each has
\* one submission, a request is answered with its own version, an export that began late is
\* refused, the quota is exceeded by overlapping requests only, and a drafted policy has its
\* plan (planning_storage.py: unique keys and re-read rows, without locks).
THEOREM SafeSubmissions == PlaneSpec => []SubmissionSafety
  <1>1. PlanInv => SubmissionSafety
    BY PlanPromise DEF SubmissionSafety
  <1> QED BY <1>1, PlanePlans, PlanInit, PlanStep, PTL DEF Submissions!Spec

-----------------------------------------------------------------------------
(* Comparisons *)

\* A stored or computed cell says of its run only what stays true.
GoodCell(x, r) ==
    /\ x \in Compare!Cell
    /\ x.status = "completed" => /\ r # None /\ r.state = "succeeded" /\ r.output > 0
                                 /\ r.attempts > 0 /\ x.attempts = r.attempts
    /\ x.status = "failed" => r # None /\ r.state = "failed"
    /\ x.checks > 0 => r # None /\ x.checks <= r.output

\* Runs go on: outputs are added, and a run that has ended does not change.
Later(r, q) ==
    r # None => /\ q # None /\ r.output <= q.output
                /\ r.state \in {"succeeded", "failed"} => q = r

\* A cell that follows another one in a later revision.
Follows(x, y) ==
    /\ x.checks <= y.checks
    /\ x.status \in {"completed", "failed"} => y.status = x.status

\* Callers: where they are, and what they hold.
CallSteps ==
    {"idle", "register", "save", "child", "latest", "record", "state", "attempts", "output", "write"}
Reading == {"record", "state", "attempts", "output", "write"}
HeldRead ==
    [base : Nat, saved : [Compare!Cells -> Compare!Cell], result : [Compare!Cells -> Compare!Cell],
     todo : SUBSET Compare!Cells, cell : Compare!Cells \cup {None}, output : Compare!Outputs,
     state : {"", "queued", "running", "awaiting_approval", "succeeded", "failed"},
     attempts : 0 .. MaxAttempts]

\* What a reader has read of the run r of its cell; x is the cell as it was stored.
HandOK(r, x, s, m) ==
    /\ r # None /\ m.output <= r.output /\ x.checks <= m.output
    /\ x.status = "completed" => m.output = r.output
    /\ s \in {"attempts", "output"} =>
        /\ m.state \in {"succeeded", "failed"} => r.state = m.state
        /\ x.status = "completed" => m.state = "succeeded"
        /\ x.status = "failed" => m.state = "failed"
    /\ s = "output" /\ m.state = "succeeded" => m.attempts = r.attempts

\* A caller at step s holding m, when the comparison has n revisions, the newest with cells w,
\* and f are the runs.
CallerOK(n, w, f, s, m) ==
    /\ s \in CallSteps /\ m \in HeldRead /\ m.base <= n
    /\ \A c \in Compare!Cells :
        /\ GoodCell(m.saved[c], f[c]) /\ GoodCell(m.result[c], f[c])
        /\ Follows(m.saved[c], m.result[c])
    /\ s \in {"child", "record", "state", "attempts", "output"} => m.todo # {}
    /\ s = "save" => n = 0
    /\ s = "child" => n > 0
    /\ s \in Reading => m.base > 0 /\ (m.base = n => m.saved = w)
    /\ s \in {"state", "attempts", "output"} =>
        m.cell \in Compare!Cells /\ HandOK(f[m.cell], m.saved[m.cell], s, m)

\* The stored cells are right about the runs, and a run belongs to a stored comparison.
RunsInv ==
    /\ cap \in Caps /\ comparison \in Nat /\ cells \in [Compare!Cells -> Compare!Cell]
    /\ run \in [Compare!Cells -> Compare!Run \cup {None}] /\ gone \in [Compare!Cells -> Compare!Outputs]
    /\ samples \subseteq Samples /\ reads \in 0 .. MaxReads /\ changes \in 0 .. MaxChanges
    /\ \A c \in Compare!Cells : GoodCell(cells[c], run[c])
    /\ \A c \in Compare!Cells : run[c] # None => comparison > 0 /\ Compare!Envelope

\* What callers hold is right, and those that queue children have checked the envelope.
CallersInv ==
    /\ step \in [Sessions -> CallSteps] /\ DOMAIN local = Sessions
    /\ local = [p \in Sessions |-> local[p]]
    /\ \A p \in Sessions : CallerOK(comparison, cells, run, step[p], local[p])
    /\ \A p \in Sessions : step[p] \in {"register", "save", "child"} => Compare!Envelope

\* One caller registers the comparison, and saves it.
SaverInv ==
    /\ registered \in BOOLEAN
    /\ comparison > 0 => registered = TRUE
    /\ \A p \in Sessions : step[p] = "save" =>
        registered = TRUE /\ \A q \in Sessions : step[q] = "save" => q = p

CompareInv == RunsInv /\ CallersInv /\ SaverInv

-----------------------------------------------------------------------------
\* Outputs are numbers, with all that come before.
LEMMA OutputFacts ==
    /\ \A x \in Compare!Outputs : x \in Nat /\ \A y \in Nat : y <= x => y \in Compare!Outputs
    /\ \A c \in Compare!Cells : c[1] \in Compared /\ Stages[c[1]] \in Nat
    /\ \A c \in Compare!Cells, y \in Nat : y <= Stages[c[1]] => y \in Compare!Outputs
  <1>1. \A c \in Compare!Cells : c[1] \in Compared /\ Stages[c[1]] \in Nat
    BY ComparedAssumption DEF Compare!Cells
  <1>2. ASSUME NEW x \in Compare!Outputs
        PROVE  x \in Nat /\ \A y \in Nat : y <= x => y \in Compare!Outputs
    <2>1. CASE x = 0
      BY <2>1 DEF Compare!Outputs
    <2>2. ASSUME NEW p \in Compared, x \in 1 .. Stages[p]
          PROVE  x \in Nat /\ \A y \in Nat : y <= x => y \in Compare!Outputs
      <3>1. Stages[p] \in Nat
        BY ComparedAssumption
      <3>2. \A y \in Nat : y <= x => y = 0 \/ y \in 1 .. Stages[p]
        BY <2>2, <3>1
      <3> QED BY <2>2, <3>1, <3>2 DEF Compare!Outputs
    <2> QED BY <2>1, <2>2 DEF Compare!Outputs
  <1>3. ASSUME NEW c \in Compare!Cells, NEW y \in Nat, y <= Stages[c[1]] PROVE y \in Compare!Outputs
    <2>1. y = 0 \/ y \in 1 .. Stages[c[1]]
      BY <1>1, <1>3
    <2> QED BY <1>1, <2>1 DEF Compare!Outputs
  <1> QED BY <1>1, <1>2, <1>3

\* A run, with its numbers.
LEMMA RunFacts ==
    ASSUME NEW r \in Compare!Run
    PROVE  /\ r # None /\ r.output \in Compare!Outputs /\ r.output \in Nat
           /\ r.attempts \in 0 .. MaxAttempts /\ r.attempts \in Nat
           /\ r.state \in {"queued", "running", "awaiting_approval", "succeeded", "failed"}
  <1>1. r.output \in Compare!Outputs /\ r.attempts \in 0 .. MaxAttempts
        /\ r.state \in {"queued", "running", "awaiting_approval", "succeeded", "failed"}
    BY DEF Compare!Run
  <1> QED BY <1>1, OutputFacts, ComparedAssumption

\* A cell, with its numbers.
LEMMA CellFacts ==
    ASSUME NEW x \in Compare!Cell
    PROVE  /\ x.status \in {"not_run", "completed", "failed", "blocked"}
           /\ x.output \in Nat /\ x.checks \in Nat /\ x.attempts \in Nat
  <1>1. /\ x.status \in {"not_run", "completed", "failed", "blocked"}
        /\ x.output \in Compare!Outputs /\ x.checks \in Compare!Outputs /\ x.attempts \in 0 .. MaxAttempts
    BY DEF Compare!Cell
  <1> QED BY <1>1, OutputFacts, ComparedAssumption

\* What a cell says stays true while the runs go on.
LEMMA CellKept ==
    ASSUME NEW x, NEW r \in Compare!Run \cup {None}, NEW q \in Compare!Run \cup {None},
           GoodCell(x, r), Later(r, q)
    PROVE  GoodCell(x, q)
  <1>1. x \in Compare!Cell /\ x.checks \in Nat
    BY CellFacts DEF GoodCell
  <1>2. x.status = "completed" \/ x.status = "failed" => q = r
    BY DEF GoodCell, Later
  <1>3. x.checks > 0 => q # None /\ x.checks <= q.output
    <2> SUFFICES ASSUME x.checks > 0 PROVE q # None /\ x.checks <= q.output
      OBVIOUS
    <2>1. r # None /\ x.checks <= r.output /\ q # None /\ r.output <= q.output
      BY DEF GoodCell, Later
    <2>2. r.output \in Nat /\ q.output \in Nat
      BY <2>1, RunFacts
    <2> QED BY <1>1, <2>1, <2>2
  <1> QED BY <1>1, <1>2, <1>3 DEF GoodCell

\* So does what a reader has in hand.
LEMMA HandKept ==
    ASSUME NEW x \in Compare!Cell, NEW r \in Compare!Run \cup {None}, NEW q \in Compare!Run \cup {None},
           NEW s, NEW m \in HeldRead, GoodCell(x, r), Later(r, q), HandOK(r, x, s, m)
    PROVE  HandOK(q, x, s, m)
  <1>1. r # None /\ q # None /\ r.output \in Nat /\ q.output \in Nat /\ r.output <= q.output
    BY RunFacts DEF HandOK, Later
  <1>2. m.output \in Nat
    BY OutputFacts DEF HeldRead
  <1>3. m.output <= q.output /\ x.checks <= m.output
    BY <1>1, <1>2 DEF HandOK
  <1>4. x.status = "completed" => q = r
    BY DEF GoodCell, Later
  <1>5. s \in {"attempts", "output"} /\ m.state \in {"succeeded", "failed"} => q = r
    BY <1>1 DEF HandOK, Later
  <1> QED BY <1>1, <1>3, <1>4, <1>5 DEF HandOK

\* So does all that a caller holds, also when a revision is added.
LEMMA CallerKept ==
    ASSUME NEW n \in Nat, NEW w, NEW f \in [Compare!Cells -> Compare!Run \cup {None}],
           NEW k \in Nat, NEW v, NEW g \in [Compare!Cells -> Compare!Run \cup {None}],
           NEW s, NEW m, CallerOK(n, w, f, s, m), \A c \in Compare!Cells : Later(f[c], g[c]),
           (k = n /\ v = w) \/ (k > n /\ s # "save")
    PROVE  CallerOK(k, v, g, s, m)
  <1>1. s \in CallSteps /\ m \in HeldRead /\ m.base <= n /\ m.base \in Nat
    BY DEF CallerOK, HeldRead
  <1>2. ASSUME NEW c \in Compare!Cells
        PROVE  /\ GoodCell(m.saved[c], g[c]) /\ GoodCell(m.result[c], g[c])
               /\ Follows(m.saved[c], m.result[c])
    <2>1. /\ GoodCell(m.saved[c], f[c]) /\ GoodCell(m.result[c], f[c])
          /\ Follows(m.saved[c], m.result[c])
      BY DEF CallerOK
    <2>2. f[c] \in Compare!Run \cup {None} /\ g[c] \in Compare!Run \cup {None} /\ Later(f[c], g[c])
      OBVIOUS
    <2> QED BY <2>1, <2>2, CellKept
  <1>3. s \in Reading => m.base > 0 /\ (m.base = k => m.saved = v)
    BY <1>1 DEF CallerOK
  <1>4. ASSUME s \in {"state", "attempts", "output"}
        PROVE  m.cell \in Compare!Cells /\ HandOK(g[m.cell], m.saved[m.cell], s, m)
    <2>1. m.cell \in Compare!Cells /\ HandOK(f[m.cell], m.saved[m.cell], s, m)
      BY <1>4 DEF CallerOK
    <2>2. /\ f[m.cell] \in Compare!Run \cup {None} /\ g[m.cell] \in Compare!Run \cup {None}
          /\ Later(f[m.cell], g[m.cell]) /\ GoodCell(m.saved[m.cell], f[m.cell])
          /\ m.saved[m.cell] \in Compare!Cell
      BY <2>1 DEF CallerOK, GoodCell
    <2> QED BY <1>1, <2>1, <2>2, HandKept
  <1>5. /\ m.base <= k /\ (s = "save" => k = 0) /\ (s = "child" => k > 0)
        /\ s \in {"child", "record", "state", "attempts", "output"} => m.todo # {}
    BY <1>1 DEF CallerOK
  <1> QED BY <1>1, <1>2, <1>3, <1>4, <1>5 DEF CallerOK

\* Runs that stay as they are go on.
LEMMA LaterSame ==
    ASSUME RunsInv PROVE \A c \in Compare!Cells : Later(run[c], run[c])
  <1>1. ASSUME NEW c \in Compare!Cells, run[c] # None PROVE run[c].output <= run[c].output
    <2>1. run[c] \in Compare!Run
      BY <1>1 DEF RunsInv
    <2> QED BY <2>1, RunFacts
  <1> QED BY <1>1 DEF Later

\* The newest revision, when its cells or the runs change.
Goes ==
    /\ cap' = cap /\ comparison' \in Nat /\ cells' \in [Compare!Cells -> Compare!Cell]
    /\ run' \in [Compare!Cells -> Compare!Run \cup {None}]
    /\ \A c \in Compare!Cells : Later(run[c], run'[c])

\* One caller goes on, and the others stay right.
LEMMA CallStep ==
    ASSUME CompareInv, NEW p \in Sessions, NEW s, NEW m, Compare!Goto(p, s, m), Goes,
           CallerOK(comparison', cells', run', s, m),
           s \in {"register", "save", "child"} => Compare!Envelope,
           \/ comparison' = comparison /\ cells' = cells
           \/ comparison' > comparison /\ \A q \in Sessions : q # p => step[q] # "save"
    PROVE  CallersInv'
  <1>1. /\ step'[p] = s /\ local'[p] = m
        /\ \A q \in Sessions : q # p => step'[q] = step[q] /\ local'[q] = local[q]
    BY DEF Compare!Goto, CompareInv, CallersInv
  <1>2. /\ step' \in [Sessions -> CallSteps] /\ DOMAIN local' = Sessions
        /\ local' = [q \in Sessions |-> local'[q]]
    BY DEF Compare!Goto, CompareInv, CallersInv, CallerOK
  <1>3. ASSUME NEW q \in Sessions PROVE CallerOK(comparison', cells', run', step'[q], local'[q])
    <2>1. CASE q = p
      BY <1>1, <2>1
    <2>2. CASE q # p
      <3>1. CallerOK(comparison, cells, run, step[q], local[q])
        BY DEF CompareInv, CallersInv
      <3>2. comparison \in Nat /\ run \in [Compare!Cells -> Compare!Run \cup {None}]
        BY DEF CompareInv, RunsInv
      <3>3. CallerOK(comparison', cells', run', step[q], local[q])
        BY <2>2, <3>1, <3>2, CallerKept DEF Goes
      <3> QED BY <1>1, <2>2, <3>3
    <2> QED BY <2>1, <2>2
  <1>4. ASSUME NEW q \in Sessions, step'[q] \in {"register", "save", "child"}
        PROVE  Compare!Envelope
    BY <1>1, <1>4 DEF CompareInv, CallersInv
  <1>5. Compare!Envelope => Compare!Envelope'
    BY DEF Compare!Envelope, Goes
  <1> QED BY <1>2, <1>3, <1>4, <1>5 DEF CallersInv

\* Runs and retention go on: callers stay right.
LEMMA WorldStep ==
    ASSUME CompareInv, Goes, UNCHANGED <<comparison, cells, registered, reads, step, local>>,
           \A c \in Compare!Cells : run'[c] # None => run[c] # None,
           gone' \in [Compare!Cells -> Compare!Outputs], samples' \subseteq Samples,
           changes' \in 0 .. MaxChanges
    PROVE  CompareInv'
  <1>1. Compare!Envelope => Compare!Envelope'
    BY DEF Compare!Envelope, Goes
  <1>2. ASSUME NEW c \in Compare!Cells PROVE GoodCell(cells'[c], run'[c])
    <2>1. GoodCell(cells[c], run[c]) /\ run[c] \in Compare!Run \cup {None}
      BY DEF CompareInv, RunsInv
    <2>2. run'[c] \in Compare!Run \cup {None} /\ Later(run[c], run'[c])
      BY DEF Goes
    <2> QED BY <2>1, <2>2, CellKept
  <1>3. RunsInv'
    BY <1>1, <1>2 DEF CompareInv, RunsInv, Goes
  <1>4. ASSUME NEW q \in Sessions PROVE CallerOK(comparison', cells', run', step'[q], local'[q])
    <2>1. CallerOK(comparison, cells, run, step[q], local[q])
      BY DEF CompareInv, CallersInv
    <2>2. comparison \in Nat /\ run \in [Compare!Cells -> Compare!Run \cup {None}]
      BY DEF CompareInv, RunsInv
    <2> QED BY <2>1, <2>2, CallerKept DEF Goes
  <1>5. CallersInv'
    BY <1>1, <1>4 DEF CompareInv, CallersInv
  <1>6. SaverInv'
    BY DEF CompareInv, SaverInv
  <1> QED BY <1>3, <1>5, <1>6 DEF CompareInv

\* A caller that reads, or goes away.
LEMMA QuietStep ==
    ASSUME CompareInv, NEW p \in Sessions, NEW s, NEW m, Compare!Goto(p, s, m),
           UNCHANGED <<cap, registered, comparison, cells, run, gone, samples, changes>>,
           reads' \in 0 .. MaxReads, CallerOK(comparison, cells, run, s, m),
           s \in {"register", "child"} => Compare!Envelope, s # "save"
    PROVE  CompareInv'
  <1>1. Goes
    BY LaterSame DEF CompareInv, RunsInv, Goes
  <1>2. CallersInv'
    BY <1>1, CallStep
  <1>3. RunsInv'
    BY DEF CompareInv, RunsInv, Compare!Envelope
  <1>4. SaverInv'
    BY DEF CompareInv, SaverInv, CallersInv, Compare!Goto
  <1> QED BY <1>2, <1>3, <1>4 DEF CompareInv

\* A caller that has nothing in hand.
LEMMA NothingRead ==
    /\ Compare!Nothing \in HeldRead /\ Compare!Nothing.base = 0 /\ Compare!Nothing.todo = {}
    /\ \A c \in Compare!Cells : \A r :
        /\ GoodCell(Compare!Nothing.saved[c], r) /\ GoodCell(Compare!Nothing.result[c], r)
        /\ Follows(Compare!Nothing.saved[c], Compare!Nothing.result[c])
  <1> DEFINE x == [status |-> "not_run", output |-> 0, checks |-> 0, attempts |-> 0]
  <1>1. x \in Compare!Cell /\ x.checks = 0 /\ x.status = "not_run"
    BY ComparedAssumption DEF Compare!Cell, Compare!Outputs
  <1>2. /\ Compare!Blank \in [Compare!Cells -> Compare!Cell]
        /\ \A c \in Compare!Cells : Compare!Blank[c] = x
    BY <1>1 DEF Compare!Blank
  <1> HIDE DEF x
  <1>3. \A c \in Compare!Cells : \A r : GoodCell(Compare!Blank[c], r)
    BY <1>1, <1>2 DEF GoodCell
  <1>4. \A c \in Compare!Cells : Follows(Compare!Blank[c], Compare!Blank[c])
    BY <1>1, <1>2 DEF Follows
  <1>5. Compare!Nothing \in HeldRead
    BY <1>2, ComparedAssumption DEF Compare!Nothing, HeldRead, Compare!Outputs
  <1> QED BY <1>3, <1>4, <1>5 DEF Compare!Nothing

\* It may be anywhere before it reads or saves.
LEMMA NothingOK ==
    ASSUME CompareInv, NEW n \in Nat, NEW w, NEW f, NEW s \in {"idle", "register", "latest"}
    PROVE  CallerOK(n, w, f, s, Compare!Nothing)
  BY NothingRead DEF CallerOK, CallSteps, Reading

\* Requests and reads begin, and callers go away.
LEMMA BeginCallStep ==
    ASSUME CompareInv, NEW p \in Sessions, Compare!Submit(p) \/ Compare!Get(p) \/ Compare!Abandon(p)
    PROVE  CompareInv'
  <1>1. PICK s \in {"idle", "register", "latest"} :
          Compare!Goto(p, s, Compare!Nothing) /\ (s = "register" => Compare!Envelope)
    BY DEF Compare!Submit, Compare!Get, Compare!Abandon, Compare!End
  <1>2. UNCHANGED <<cap, registered, comparison, cells, run, gone, samples, reads, changes>>
    BY DEF Compare!Submit, Compare!Get, Compare!Abandon, Compare!record, Compare!runVars
  <1>3. comparison \in Nat /\ reads \in 0 .. MaxReads
    BY DEF CompareInv, RunsInv
  <1>4. CallerOK(comparison, cells, run, s, Compare!Nothing)
    BY <1>3, NothingOK
  <1> QED BY <1>1, <1>2, <1>3, <1>4, QuietStep

\* The first request with the key is the one that saves.
LEMMA RegisterStep ==
    ASSUME CompareInv, NEW p \in Sessions, Compare!Register(p)
    PROVE  CompareInv'
  <1>1. UNCHANGED <<cap, comparison, cells, run, gone, samples, reads, changes>> /\ registered' = TRUE
    BY DEF Compare!Register, Compare!runVars
  <1>2. comparison \in Nat /\ reads \in 0 .. MaxReads /\ registered \in BOOLEAN
    BY DEF CompareInv, RunsInv, SaverInv
  <1>3. CASE registered = TRUE
    <2>1. Compare!Goto(p, "latest", Compare!Nothing)
      BY <1>3 DEF Compare!Register
    <2>2. CallerOK(comparison, cells, run, "latest", Compare!Nothing)
      BY <1>2, NothingOK
    <2> QED BY <1>1, <1>2, <1>3, <2>1, <2>2, QuietStep
  <1>4. CASE registered = FALSE
    <2>1. Compare!Goto(p, "save", Compare!Nothing)
      BY <1>4 DEF Compare!Register
    <2>2. comparison = 0 /\ \A q \in Sessions : step[q] # "save"
      BY <1>2, <1>4 DEF CompareInv, SaverInv
    <2>3. CallerOK(comparison, cells, run, "save", Compare!Nothing)
      BY <2>2, NothingRead DEF CallerOK, CallSteps, Reading
    <2>4. Goes
      BY <1>1, LaterSame DEF CompareInv, RunsInv, Goes
    <2>5. Compare!Envelope
      BY DEF CompareInv, CallersInv, Compare!Register
    <2>6. CallersInv'
      BY <1>1, <2>1, <2>3, <2>4, <2>5, CallStep
    <2>7. RunsInv'
      BY <1>1 DEF CompareInv, RunsInv, Compare!Envelope
    <2>8. \A q \in Sessions : step'[q] = "save" => q = p
      BY <2>1, <2>2 DEF Compare!Goto, CompareInv, CallersInv
    <2>9. SaverInv'
      BY <1>1, <2>8 DEF SaverInv
    <2> QED BY <2>6, <2>7, <2>9 DEF CompareInv
  <1> QED BY <1>2, <1>3, <1>4

\* The children's identifiers are stored first.
LEMMA SaveStep ==
    ASSUME CompareInv, NEW p \in Sessions, Compare!Save(p)
    PROVE  CompareInv'
  <1> DEFINE m == [Compare!Nothing EXCEPT !.todo = Compare!Cells]
  <1>1. /\ UNCHANGED <<cap, registered, run, gone, samples, reads, changes>>
        /\ comparison' = 1 /\ cells' = Compare!Blank /\ Compare!Goto(p, "child", m) /\ step[p] = "save"
    BY DEF Compare!Save, Compare!runVars
  <1>2. comparison = 0 /\ registered = TRUE /\ \A q \in Sessions : q # p => step[q] # "save"
    BY <1>1 DEF CompareInv, CallersInv, CallerOK, SaverInv
  <1>3. /\ m \in HeldRead /\ m.base = Compare!Nothing.base /\ m.todo = Compare!Cells
        /\ m.saved = Compare!Nothing.saved /\ m.result = Compare!Nothing.result
    BY NothingRead DEF HeldRead
  <1>4. m.todo # {}
    BY <1>3, ComparedAssumption DEF Compare!Cells
  <1> HIDE DEF m
  <1>5. CallerOK(1, cells', run', "child", m)
    BY <1>3, <1>4, NothingRead DEF CallerOK, CallSteps, Reading
  <1>6. /\ Compare!Blank = Compare!Nothing.saved
        /\ Compare!Blank \in [Compare!Cells -> Compare!Cell]
    BY NothingRead DEF Compare!Nothing, HeldRead
  <1>7. Goes
    BY <1>1, <1>6, LaterSame DEF CompareInv, RunsInv, Goes
  <1>8. Compare!Envelope /\ (Compare!Envelope => Compare!Envelope')
    BY <1>1 DEF CompareInv, CallersInv, Compare!Envelope
  <1>9. CallersInv'
    BY <1>1, <1>2, <1>5, <1>7, <1>8, CallStep
  <1>10. \A c \in Compare!Cells : GoodCell(cells'[c], run'[c])
    BY <1>1, <1>6, NothingRead
  <1>11. RunsInv'
    BY <1>1, <1>6, <1>8, <1>10 DEF CompareInv, RunsInv
  <1>12. \A q \in Sessions : step'[q] # "save"
    BY <1>1, <1>2 DEF Compare!Goto, CompareInv, CallersInv
  <1>13. SaverInv'
    BY <1>1, <1>2, <1>12 DEF SaverInv
  <1> QED BY <1>9, <1>11, <1>13 DEF CompareInv

\* The children of a stored comparison are queued.
LEMMA ChildStep ==
    ASSUME CompareInv, NEW p \in Sessions, Compare!Child(p)
    PROVE  CompareInv'
  <1> DEFINE n == local[p]
             c == Compare!First(n.todo)
             new == [state |-> "queued", output |-> 0, attempts |-> 0]
             m == [n EXCEPT !.todo = @ \ {c}]
  <1>1. /\ UNCHANGED <<cap, registered, comparison, cells, gone, samples, reads, changes>>
        /\ step[p] = "child"
    BY DEF Compare!Child, Compare!record
  <1>2. CallerOK(comparison, cells, run, "child", n) /\ Compare!Envelope
    BY <1>1 DEF CompareInv, CallersInv
  <1>3. n \in HeldRead /\ n.todo # {} /\ n.todo \subseteq Compare!Cells /\ comparison > 0
    BY <1>2 DEF CallerOK, HeldRead
  <1>4. c \in n.todo /\ c \in Compare!Cells
    BY <1>3 DEF Compare!First
  <1>5. new \in Compare!Run
    BY ComparedAssumption DEF Compare!Run, Compare!Outputs
  <1>6. run' = IF run[c] # None THEN run ELSE [run EXCEPT ![c] = new]
    BY DEF Compare!Child
  <1>7. \/ n.todo = {c} /\ Compare!Goto(p, "idle", Compare!Nothing)
        \/ n.todo # {c} /\ Compare!Goto(p, "child", m)
    BY DEF Compare!Child, Compare!End
  <1> HIDE DEF new, c, n
  <1>8. Goes
    <2>1. run' \in [Compare!Cells -> Compare!Run \cup {None}]
      BY <1>4, <1>5, <1>6 DEF CompareInv, RunsInv
    <2>2. \A d \in Compare!Cells : run'[d] = run[d] \/ run[d] = None
      BY <1>4, <1>6 DEF CompareInv, RunsInv
    <2>3. \A d \in Compare!Cells : Later(run[d], run'[d])
      BY <2>2, LaterSame DEF CompareInv, Later
    <2> QED BY <1>1, <2>1, <2>3 DEF CompareInv, RunsInv, Goes
  <1>9. CallerOK(comparison, cells, run', "child", n)
    BY <1>2, <1>8, CallerKept DEF CompareInv, RunsInv, Goes
  <1>10. PICK s, x : /\ Compare!Goto(p, s, x) /\ s \in {"idle", "child"}
                     /\ CallerOK(comparison', cells', run', s, x)
    <2>1. CASE Compare!Goto(p, "idle", Compare!Nothing)
      BY <1>1, <2>1, NothingOK DEF CompareInv, RunsInv
    <2>2. CASE n.todo # {c} /\ Compare!Goto(p, "child", m)
      <3>1. /\ m \in HeldRead /\ m.todo = n.todo \ {c} /\ m.base = n.base /\ m.saved = n.saved
            /\ m.result = n.result
        BY <1>3 DEF HeldRead
      <3>2. m.todo # {}
        BY <1>3, <2>2, <3>1
      <3> HIDE DEF m
      <3>3. CallerOK(comparison, cells, run', "child", m)
        BY <1>9, <3>1, <3>2 DEF CallerOK, Reading
      <3> QED BY <1>1, <2>2, <3>3
    <2> QED BY <1>7, <2>1, <2>2
  <1>11. CallersInv'
    BY <1>1, <1>2, <1>8, <1>10, CallStep
  <1>12. RunsInv'
    <2>1. ASSUME NEW d \in Compare!Cells PROVE GoodCell(cells'[d], run'[d])
      <3>1. GoodCell(cells[d], run[d]) /\ run[d] \in Compare!Run \cup {None}
        BY DEF CompareInv, RunsInv
      <3>2. run'[d] \in Compare!Run \cup {None} /\ Later(run[d], run'[d])
        BY <1>8 DEF Goes
      <3> QED BY <1>1, <3>1, <3>2, CellKept
    <2>2. Compare!Envelope'
      BY <1>1, <1>2 DEF Compare!Envelope
    <2> QED BY <1>1, <1>3, <1>8, <2>1, <2>2 DEF CompareInv, RunsInv, Goes
  <1>13. SaverInv'
    <2>1. \A q \in Sessions : step'[q] = "save" => step[q] = "save"
      BY <1>10 DEF Compare!Goto, CompareInv, CallersInv
    <2> QED BY <1>1, <2>1 DEF CompareInv, SaverInv
  <1> QED BY <1>11, <1>12, <1>13 DEF CompareInv

\* A reader starts from the newest revision.
LEMMA LatestReadStep ==
    ASSUME CompareInv, NEW p \in Sessions, Compare!Latest(p)
    PROVE  CompareInv'
  <1>1. UNCHANGED <<cap, registered, comparison, cells, run, gone, samples, changes>>
    BY DEF Compare!Latest, Compare!record, Compare!runVars
  <1>2. reads' \in 0 .. MaxReads /\ comparison \in Nat
    BY ComparedAssumption DEF Compare!Latest, CompareInv, RunsInv
  <1>3. CASE comparison = 0
    <2>1. Compare!Goto(p, "idle", Compare!Nothing)
      BY <1>3 DEF Compare!Latest, Compare!End
    <2>2. CallerOK(comparison, cells, run, "idle", Compare!Nothing)
      BY <1>2, NothingOK
    <2> QED BY <1>1, <1>2, <2>1, <2>2, QuietStep
  <1>4. CASE comparison # 0
    <2> DEFINE m == [Compare!Nothing EXCEPT !.base = comparison, !.saved = cells, !.result = cells,
                                            !.todo = Compare!Cells]
    <2>1. Compare!Goto(p, "record", m)
      BY <1>4 DEF Compare!Latest
    <2>2. cells \in [Compare!Cells -> Compare!Cell]
      BY DEF CompareInv, RunsInv
    <2>3. /\ m \in HeldRead /\ m.base = comparison /\ m.saved = cells /\ m.result = cells
          /\ m.todo = Compare!Cells
      BY <1>2, <2>2, NothingRead DEF HeldRead
    <2> HIDE DEF m
    <2>4. ASSUME NEW c \in Compare!Cells PROVE GoodCell(cells[c], run[c]) /\ Follows(cells[c], cells[c])
      <3>1. GoodCell(cells[c], run[c]) /\ cells[c].checks \in Nat
        BY <2>2, CellFacts DEF CompareInv, RunsInv
      <3> QED BY <3>1 DEF Follows
    <2>5. m.todo # {}
      BY <2>3, ComparedAssumption DEF Compare!Cells
    <2>6. CallerOK(comparison, cells, run, "record", m)
      BY <1>2, <1>4, <2>3, <2>4, <2>5 DEF CallerOK, CallSteps, Reading
    <2> QED BY <1>1, <1>2, <2>1, <2>6, QuietStep
  <1> QED BY <1>3, <1>4

\* A reader puts down a cell that follows the stored one.
LEMMA PutStep ==
    ASSUME CompareInv, NEW p \in Sessions, NEW c \in Compare!Cells, NEW x,
           step[p] \in {"record", "output"}, Compare!Put(p, c, x),
           GoodCell(x, run[c]), Follows(local[p].saved[c], x),
           UNCHANGED <<cap, registered, comparison, cells, run, gone, samples, reads, changes>>
    PROVE  CompareInv'
  <1> DEFINE n == local[p]
             m == [n EXCEPT !.result[c] = x, !.todo = @ \ {c}, !.cell = None, !.output = 0,
                            !.state = "", !.attempts = 0]
             s == IF n.todo = {c} THEN "write" ELSE "record"
  <1>1. CallerOK(comparison, cells, run, step[p], n) /\ comparison \in Nat /\ reads \in 0 .. MaxReads
    BY DEF CompareInv, CallersInv, RunsInv
  <1>2. /\ n \in HeldRead /\ n.todo # {} /\ n.todo \subseteq Compare!Cells
        /\ n.result \in [Compare!Cells -> Compare!Cell] /\ x \in Compare!Cell
    BY <1>1 DEF CallerOK, HeldRead, GoodCell
  <1>3. Compare!Goto(p, s, m)
    BY DEF Compare!Put
  <1> HIDE DEF n
  <1>4. [n.result EXCEPT ![c] = x] \in [Compare!Cells -> Compare!Cell]
    BY <1>2
  <1>5. /\ m \in HeldRead /\ m.base = n.base /\ m.saved = n.saved
        /\ m.result = [n.result EXCEPT ![c] = x] /\ m.todo = n.todo \ {c}
    <2> DEFINE y == [n.result EXCEPT ![c] = x]
               k == [n EXCEPT !.result = y, !.todo = @ \ {c}, !.cell = None, !.output = 0,
                              !.state = "", !.attempts = 0]
    <2>1. m = k
      BY <1>2 DEF HeldRead
    <2>2. y \in [Compare!Cells -> Compare!Cell] /\ 0 \in Compare!Outputs /\ 0 \in 0 .. MaxAttempts
      BY <1>4, ComparedAssumption DEF Compare!Outputs
    <2> HIDE DEF y
    <2>3. k \in HeldRead /\ k.base = n.base /\ k.saved = n.saved /\ k.result = y /\ k.todo = n.todo \ {c}
      BY <1>2, <2>2 DEF HeldRead
    <2> HIDE DEF m, k
    <2> QED BY <2>1, <2>3 DEF y
  <1>6. \A d \in Compare!Cells : m.result[d] = IF d = c THEN x ELSE n.result[d]
    BY <1>2, <1>5
  <1>7. s = "record" => m.todo # {}
    BY <1>2, <1>5
  <1>8. s \in {"record", "write"}
    OBVIOUS
  <1> HIDE DEF m, s
  <1>9. CallerOK(comparison, cells, run, s, m)
    <2>1. ASSUME NEW d \in Compare!Cells
          PROVE  /\ GoodCell(m.saved[d], run[d]) /\ GoodCell(m.result[d], run[d])
                 /\ Follows(m.saved[d], m.result[d])
      BY <1>1, <1>5, <1>6 DEF CallerOK, n
    <2>2. n.base <= comparison /\ n.base > 0 /\ (n.base = comparison => n.saved = cells)
      BY <1>1 DEF CallerOK, Reading
    <2> QED BY <1>5, <1>7, <1>8, <2>1, <2>2 DEF CallerOK, CallSteps, Reading
  <1> QED BY <1>1, <1>3, <1>8, <1>9, QuietStep

\* Reading the record of a run, then its state, then its attempts.
LEMMA ReadStep ==
    ASSUME CompareInv, NEW p \in Sessions,
           Compare!ReadRecord(p) \/ Compare!ReadState(p) \/ Compare!ReadAttempts(p)
    PROVE  CompareInv'
  <1> DEFINE n == local[p]
  <1>1. CallerOK(comparison, cells, run, step[p], n) /\ comparison \in Nat /\ reads \in 0 .. MaxReads
    BY DEF CompareInv, CallersInv, RunsInv
  <1>2. UNCHANGED <<cap, registered, comparison, cells, run, gone, samples, reads, changes>>
    BY DEF Compare!ReadRecord, Compare!ReadState, Compare!ReadAttempts, Compare!record, Compare!runVars
  <1>3. n \in HeldRead /\ n.todo # {} /\ n.todo \subseteq Compare!Cells
    BY <1>1 DEF CallerOK, HeldRead, Compare!ReadRecord, Compare!ReadState, Compare!ReadAttempts
  <1>4. /\ n.base <= comparison /\ n.base > 0 /\ (n.base = comparison => n.saved = cells)
        /\ \A d \in Compare!Cells : /\ GoodCell(n.saved[d], run[d]) /\ GoodCell(n.result[d], run[d])
                                    /\ Follows(n.saved[d], n.result[d])
    BY <1>1 DEF CallerOK, Reading, Compare!ReadRecord, Compare!ReadState, Compare!ReadAttempts
  <1>5. CASE Compare!ReadRecord(p)
    <2> DEFINE c == Compare!First(n.todo)
    <2>1. c \in n.todo /\ c \in Compare!Cells
      BY <1>3 DEF Compare!First
    <2>2. CASE run[c] = None /\ Compare!Put(p, c, [n.saved[c] EXCEPT !.status = "blocked"])
      <3> DEFINE y == n.saved[c]
                 x == [y EXCEPT !.status = "blocked"]
      <3>1. GoodCell(y, None) /\ y \in Compare!Cell /\ y.checks \in Nat
        BY <1>4, <2>1, <2>2, CellFacts DEF GoodCell
      <3> HIDE DEF y
      <3>2. x \in Compare!Cell /\ x.status = "blocked" /\ x.checks = y.checks
        BY <3>1 DEF Compare!Cell
      <3> HIDE DEF x
      <3>3. GoodCell(x, None) /\ Follows(y, x)
        BY <3>1, <3>2 DEF GoodCell, Follows
      <3>4. step[p] = "record"
        BY <1>5 DEF Compare!ReadRecord
      <3> QED BY <1>2, <2>1, <2>2, <3>3, <3>4, PutStep DEF x, y
    <2>3. CASE run[c] # None /\ Compare!Goto(p, "state", [n EXCEPT !.cell = c, !.output = run[c].output])
      <3> DEFINE r == run[c]
                 m == [n EXCEPT !.cell = c, !.output = r.output]
      <3>1. r \in Compare!Run /\ r # None
        BY <2>1, <2>3 DEF CompareInv, RunsInv
      <3>2. r.output \in Compare!Outputs /\ r.output \in Nat
        BY <3>1, RunFacts
      <3>3. GoodCell(n.saved[c], r) /\ n.saved[c].checks \in Nat
        BY <1>4, <2>1, CellFacts DEF GoodCell
      <3> HIDE DEF r, n
      <3>4. /\ m \in HeldRead /\ m.base = n.base /\ m.saved = n.saved /\ m.result = n.result
            /\ m.todo = n.todo /\ m.cell = c /\ m.output = r.output
        BY <1>3, <2>1, <3>2 DEF HeldRead
      <3> HIDE DEF m, c
      <3>5. HandOK(r, n.saved[c], "state", m)
        BY <3>1, <3>2, <3>3, <3>4 DEF HandOK, GoodCell
      <3>6. CallerOK(comparison, cells, run, "state", m)
        BY <1>3, <1>4, <2>1, <3>4, <3>5 DEF CallerOK, CallSteps, Reading, r
      <3>7. Compare!Goto(p, "state", m)
        BY <2>3 DEF m, r
      <3> QED BY <1>1, <1>2, <3>6, <3>7, QuietStep
    <2> QED BY <1>5, <2>2, <2>3 DEF Compare!ReadRecord
  <1>6. ASSUME Compare!ReadState(p) \/ Compare!ReadAttempts(p)
        PROVE  CompareInv'
    <2> DEFINE c == n.cell
               r == run[c]
    <2>1. c \in Compare!Cells /\ HandOK(r, n.saved[c], step[p], n)
      BY <1>1, <1>6 DEF CallerOK, Compare!ReadState, Compare!ReadAttempts
    <2>2. r \in Compare!Run
      BY <2>1 DEF CompareInv, RunsInv, HandOK
    <2>3. /\ r.state \in {"queued", "running", "awaiting_approval", "succeeded", "failed"}
          /\ r.attempts \in 0 .. MaxAttempts
      BY <2>2, RunFacts
    <2>4. GoodCell(n.saved[c], r)
      BY <1>4, <2>1
    <2>5. CASE Compare!ReadState(p)
      <3> DEFINE m == [n EXCEPT !.state = r.state]
      <3>1. Compare!Goto(p, "attempts", m) /\ step[p] = "state"
        BY <2>5 DEF Compare!ReadState
      <3> HIDE DEF r, c, n
      <3>2. /\ m \in HeldRead /\ m.base = n.base /\ m.saved = n.saved /\ m.result = n.result
            /\ m.todo = n.todo /\ m.cell = n.cell /\ m.output = n.output /\ m.state = r.state
        BY <1>3, <2>3 DEF HeldRead
      <3> HIDE DEF m
      <3>3. HandOK(r, n.saved[c], "attempts", m)
        BY <2>1, <2>4, <3>1, <3>2 DEF HandOK, GoodCell
      <3>4. CallerOK(comparison, cells, run, "attempts", m)
        BY <1>3, <1>4, <2>1, <3>2, <3>3 DEF CallerOK, CallSteps, Reading, r, c
      <3> QED BY <1>1, <1>2, <3>1, <3>4, QuietStep
    <2>6. CASE Compare!ReadAttempts(p)
      <3> DEFINE m == [n EXCEPT !.attempts = r.attempts]
      <3>1. Compare!Goto(p, "output", m) /\ step[p] = "attempts"
        BY <2>6 DEF Compare!ReadAttempts
      <3> HIDE DEF r, c, n
      <3>2. /\ m \in HeldRead /\ m.base = n.base /\ m.saved = n.saved /\ m.result = n.result
            /\ m.todo = n.todo /\ m.cell = n.cell /\ m.output = n.output /\ m.state = n.state
            /\ m.attempts = r.attempts
        BY <1>3, <2>3 DEF HeldRead
      <3> HIDE DEF m
      <3>3. HandOK(r, n.saved[c], "output", m)
        BY <2>1, <3>1, <3>2 DEF HandOK
      <3>4. CallerOK(comparison, cells, run, "output", m)
        BY <1>3, <1>4, <2>1, <3>2, <3>3 DEF CallerOK, CallSteps, Reading, r, c
      <3> QED BY <1>1, <1>2, <3>1, <3>4, QuietStep
    <2> QED BY <1>6, <2>5, <2>6
  <1> QED BY <1>5, <1>6

\* The computed cell says of the run what is true, and takes nothing back.
LEMMA OutputStep ==
    ASSUME CompareInv, NEW p \in Sessions, Compare!ReadOutput(p)
    PROVE  CompareInv'
  <1> DEFINE n == local[p]
             c == n.cell
             r == run[c]
             y == n.saved[c]
             x == [status |-> Compare!StatusOf(n), output |-> n.output, checks |-> Compare!Checks(n),
                   attempts |-> n.attempts]
  <1>1. CallerOK(comparison, cells, run, "output", n) /\ step[p] = "output"
    BY DEF CompareInv, CallersInv, Compare!ReadOutput
  <1>2. n \in HeldRead /\ c \in Compare!Cells /\ HandOK(r, y, "output", n) /\ GoodCell(y, r)
    BY <1>1 DEF CallerOK
  <1>3. r \in Compare!Run /\ r # None
    BY <1>2 DEF CompareInv, RunsInv, HandOK
  <1>4. r.output \in Nat /\ r.attempts \in Nat
    BY <1>3, RunFacts
  <1>5. /\ n.output \in Compare!Outputs /\ n.attempts \in 0 .. MaxAttempts
        /\ n.output \in Nat
    BY <1>2, OutputFacts DEF HeldRead
  <1>6. y \in Compare!Cell /\ y.checks \in Nat /\ y.checks \in Compare!Outputs
    BY <1>2, CellFacts DEF GoodCell, Compare!Cell
  <1>7. Compare!Checks(n) \in {n.output, y.checks}
    BY DEF Compare!Checks
  <1>8. /\ Compare!StatusOf(n) \in {"not_run", "completed", "failed", "blocked"}
        /\ Compare!StatusOf(n) = "completed" <=>
             n.state = "succeeded" /\ n.output > 0 /\ n.attempts > 0
        /\ Compare!StatusOf(n) = "failed" <=> n.state = "failed"
    BY DEF Compare!StatusOf
  <1>9. /\ Compare!Put(p, c, x)
        /\ UNCHANGED <<cap, registered, comparison, cells, run, gone, samples, reads, changes>>
    BY DEF Compare!ReadOutput, Compare!record, Compare!runVars
  <1>10. /\ x.status = Compare!StatusOf(n) /\ x.checks = Compare!Checks(n) /\ x.attempts = n.attempts
         /\ x \in Compare!Cell
    BY <1>5, <1>6, <1>7, <1>8 DEF Compare!Cell
  <1> HIDE DEF x, y, r, c, n
  <1>11. GoodCell(x, r)
    <2>1. x.status = "completed" => /\ r.state = "succeeded" /\ r.output > 0
                                    /\ r.attempts > 0 /\ x.attempts = r.attempts
      BY <1>2, <1>4, <1>5, <1>8, <1>10 DEF HandOK
    <2>2. x.status = "failed" => r.state = "failed"
      BY <1>2, <1>8, <1>10 DEF HandOK
    <2>3. x.checks <= r.output
      BY <1>2, <1>4, <1>5, <1>6, <1>7, <1>10 DEF HandOK
    <2> QED BY <1>3, <1>10, <2>1, <2>2, <2>3 DEF GoodCell
  <1>12. Follows(y, x)
    <2>1. y.checks <= x.checks
      BY <1>2, <1>5, <1>6, <1>7, <1>10 DEF HandOK
    <2>2. y.status = "completed" => x.status = "completed"
      BY <1>2, <1>4, <1>8, <1>10 DEF HandOK, GoodCell
    <2>3. y.status = "failed" => x.status = "failed"
      BY <1>2, <1>8, <1>10 DEF HandOK
    <2> QED BY <2>1, <2>2, <2>3 DEF Follows
  <1> QED BY <1>1, <1>2, <1>9, <1>11, <1>12, PutStep DEF r, y, c, n

\* A revision is written on the one it was computed from.
LEMMA WriteStep ==
    ASSUME CompareInv, NEW p \in Sessions, Compare!Write(p)
    PROVE  /\ CompareInv'
           /\ \A c \in Compare!Cells : Follows(cells[c], cells'[c])
  <1> DEFINE n == local[p]
  <1>1. CallerOK(comparison, cells, run, "write", n) /\ step[p] = "write"
    BY DEF CompareInv, CallersInv, Compare!Write
  <1>2. UNCHANGED <<cap, registered, run, gone, samples, reads, changes>>
        /\ Compare!Goto(p, "idle", Compare!Nothing)
    BY DEF Compare!Write, Compare!End, Compare!runVars
  <1>3. comparison \in Nat /\ reads \in 0 .. MaxReads
    BY DEF CompareInv, RunsInv
  <1>4. CASE UNCHANGED <<comparison, cells>>
    <2>1. CallerOK(comparison, cells, run, "idle", Compare!Nothing)
      BY <1>3, NothingOK
    <2>2. CompareInv'
      BY <1>2, <1>3, <1>4, <2>1, QuietStep
    <2>3. ASSUME NEW c \in Compare!Cells PROVE Follows(cells[c], cells[c])
      <3>1. cells[c].checks \in Nat
        BY CellFacts DEF CompareInv, RunsInv
      <3> QED BY <3>1 DEF Follows
    <2> QED BY <1>4, <2>2, <2>3
  <1>5. CASE comparison = n.base /\ comparison' = comparison + 1 /\ cells' = n.result
    <2>1. /\ n.saved = cells /\ comparison > 0 /\ n \in HeldRead
          /\ \A c \in Compare!Cells : GoodCell(n.result[c], run[c]) /\ Follows(n.saved[c], n.result[c])
      BY <1>1, <1>5 DEF CallerOK, Reading
    <2>2. n.result \in [Compare!Cells -> Compare!Cell]
      BY <2>1 DEF HeldRead
    <2> HIDE DEF n
    <2>3. Goes
      BY <1>2, <1>3, <1>5, <2>2, LaterSame DEF CompareInv, RunsInv, Goes
    <2>4. \A q \in Sessions : step[q] # "save"
      BY <1>3, <2>1 DEF CompareInv, CallersInv, CallerOK
    <2>5. CallerOK(comparison', cells', run', "idle", Compare!Nothing)
      BY <2>3, NothingOK DEF Goes
    <2>6. comparison' > comparison /\ comparison' \in Nat /\ comparison' > 0
      BY <1>3, <1>5
    <2>7. CallersInv'
      BY <1>2, <2>3, <2>4, <2>5, <2>6, CallStep
    <2>8. RunsInv'
      BY <1>2, <1>5, <2>1, <2>2, <2>6 DEF CompareInv, RunsInv, Compare!Envelope
    <2>9. SaverInv'
      <3>1. \A q \in Sessions : step'[q] # "save"
        BY <1>2, <2>4 DEF Compare!Goto, CompareInv, CallersInv
      <3> QED BY <1>2, <2>1, <3>1 DEF CompareInv, SaverInv
    <2> QED BY <1>5, <2>1, <2>7, <2>8, <2>9 DEF CompareInv
  <1> QED BY <1>4, <1>5 DEF Compare!Write

\* Runs go on, and outputs and samples expire.
LEMMA WorkStep ==
    ASSUME CompareInv,
           \/ \E c \in Compare!Cells : Compare!Work(c) \/ Compare!OutputExpires(c)
           \/ \E s \in Samples : Compare!SampleExpires(s)
    PROVE  CompareInv'
  <1>1. /\ UNCHANGED <<cap, registered, comparison, cells, step, local, reads>>
        /\ changes' \in 0 .. MaxChanges
    <2>1. Compare!Change
      BY DEF Compare!Work, Compare!OutputExpires, Compare!SampleExpires
    <2>2. changes \in 0 .. MaxChanges
      BY DEF CompareInv, RunsInv
    <2> QED BY <2>1, <2>2, ComparedAssumption DEF Compare!Change, Compare!record
  <1>2. /\ run \in [Compare!Cells -> Compare!Run \cup {None}] /\ gone \in [Compare!Cells -> Compare!Outputs]
        /\ samples \subseteq Samples /\ comparison \in Nat /\ cells \in [Compare!Cells -> Compare!Cell]
    BY DEF CompareInv, RunsInv
  <1>3. CASE \E s \in Samples : Compare!SampleExpires(s)
    <2>1. run' = run /\ gone' = gone /\ samples' \subseteq Samples
      BY <1>2, <1>3 DEF Compare!SampleExpires
    <2>2. Goes
      BY <1>1, <1>2, <2>1, LaterSame DEF Goes, CompareInv
    <2> QED BY <1>1, <1>2, <2>1, <2>2, WorldStep
  <1>4. ASSUME NEW c \in Compare!Cells, Compare!OutputExpires(c) PROVE CompareInv'
    <2>1. run' = run /\ samples' = samples /\ gone' = [gone EXCEPT ![c] = @ + 1]
          /\ run[c] # None /\ gone[c] < run[c].output
      BY <1>4 DEF Compare!OutputExpires
    <2>2. run[c] \in Compare!Run /\ gone[c] \in Compare!Outputs
      BY <1>2, <2>1
    <2>3. gone[c] + 1 \in Nat /\ gone[c] + 1 <= run[c].output /\ run[c].output \in Compare!Outputs
      BY <2>1, <2>2, RunFacts, OutputFacts
    <2>4. gone[c] + 1 \in Compare!Outputs
      BY <2>3, OutputFacts
    <2>5. gone' \in [Compare!Cells -> Compare!Outputs]
      BY <1>2, <2>1, <2>4
    <2>6. Goes
      BY <1>1, <1>2, <2>1, LaterSame DEF Goes, CompareInv
    <2> QED BY <1>1, <1>2, <2>1, <2>5, <2>6, WorldStep
  <1>5. ASSUME NEW c \in Compare!Cells, Compare!Work(c) PROVE CompareInv'
    <2> DEFINE r == run[c]
    <2>1. r \in Compare!Run /\ r # None
      BY <1>2, <1>5 DEF Compare!Work
    <2>2. /\ r.output \in Nat /\ r.attempts \in Nat /\ r.attempts \in 0 .. MaxAttempts
          /\ r.output \in Compare!Outputs
      BY <2>1, RunFacts
    <2>3. PICK q \in Compare!Run : Compare!Step(c, q) /\ Later(r, q)
      <3>1. ASSUME NEW s \in {"running", "failed", "succeeded", "awaiting_approval"},
                   r.state \in {"queued", "running"},
                   Compare!Step(c, [r EXCEPT !.state = s])
            PROVE  \E q \in Compare!Run : Compare!Step(c, q) /\ Later(r, q)
        <4> DEFINE q == [r EXCEPT !.state = s]
        <4> HIDE DEF r
        <4>1. q \in Compare!Run /\ q.output = r.output
          BY <2>1 DEF Compare!Run
        <4> HIDE DEF q
        <4>2. Later(r, q)
          BY <2>2, <3>1, <4>1, RunFacts DEF Later
        <4> QED BY <3>1, <4>1, <4>2 DEF q
      <3>2. ASSUME r.state = "running", r.attempts < MaxAttempts,
                   Compare!Step(c, [r EXCEPT !.attempts = @ + 1])
            PROVE  \E q \in Compare!Run : Compare!Step(c, q) /\ Later(r, q)
        <4> DEFINE q == [r EXCEPT !.attempts = @ + 1]
        <4> HIDE DEF r
        <4>1. r.attempts + 1 \in 0 .. MaxAttempts
          BY <2>2, <3>2, ComparedAssumption
        <4>2. q \in Compare!Run /\ q.output = r.output
          BY <2>1, <4>1 DEF Compare!Run
        <4> HIDE DEF q
        <4>3. Later(r, q)
          BY <2>2, <3>2, <4>2, RunFacts DEF Later
        <4> QED BY <3>2, <4>2, <4>3 DEF q
      <3>3. ASSUME r.state = "running", r.output < Stages[c[1]],
                   Compare!Step(c, [r EXCEPT !.output = @ + 1])
            PROVE  \E q \in Compare!Run : Compare!Step(c, q) /\ Later(r, q)
        <4> DEFINE q == [r EXCEPT !.output = @ + 1]
        <4> HIDE DEF r
        <4>1. r.output + 1 \in Compare!Outputs
          <5>1. r.output + 1 \in Nat /\ r.output + 1 <= Stages[c[1]]
            BY <2>2, <3>3, OutputFacts
          <5> QED BY <5>1, OutputFacts
        <4>2. q \in Compare!Run /\ q.output = r.output + 1
          BY <2>1, <4>1 DEF Compare!Run
        <4> HIDE DEF q
        <4>3. Later(r, q)
          BY <2>2, <3>3, <4>2, RunFacts DEF Later
        <4> QED BY <3>3, <4>2, <4>3 DEF q
      <3> QED BY <1>5, <3>1, <3>2, <3>3 DEF Compare!Work
    <2>4. run' = [run EXCEPT ![c] = q] /\ gone' = gone /\ samples' = samples
      BY <2>3 DEF Compare!Step
    <2>5. /\ run' \in [Compare!Cells -> Compare!Run \cup {None}]
          /\ \A d \in Compare!Cells : run'[d] = IF d = c THEN q ELSE run[d]
      BY <1>2, <2>4
    <2>6. \A d \in Compare!Cells : Later(run[d], run'[d])
      BY <2>3, <2>5, LaterSame DEF CompareInv
    <2>7. Goes
      BY <1>1, <1>2, <2>5, <2>6 DEF Goes, CompareInv
    <2>8. \A d \in Compare!Cells : run'[d] # None => run[d] # None
      BY <2>1, <2>5
    <2> QED BY <1>1, <1>2, <2>4, <2>7, <2>8, WorldStep
  <1> QED BY <1>3, <1>4, <1>5

\* Every step of a caller, a run or retention keeps the invariant.
LEMMA CompareStep ==
    ASSUME CompareInv, [Compare!Next]_Compare!vars
    PROVE  CompareInv'
  <1>1. CASE UNCHANGED Compare!vars
    <2>1. /\ UNCHANGED <<cap, registered, comparison, cells, run, gone, samples, step, local, reads, changes>>
      BY <1>1 DEF Compare!vars, Compare!record, Compare!runVars
    <2>2. Goes
      BY <2>1, LaterSame DEF Goes, CompareInv, RunsInv
    <2> QED BY <2>1, <2>2, WorldStep DEF CompareInv, RunsInv
  <1>2. ASSUME NEW p \in Sessions, Compare!Call(p) PROVE CompareInv'
    BY <1>2, BeginCallStep, RegisterStep, SaveStep, ChildStep, LatestReadStep, ReadStep, OutputStep,
       WriteStep DEF Compare!Call
  <1> QED BY <1>1, <1>2, WorkStep DEF Compare!Next

\* There is no comparison yet.
LEMMA CompareInit == Compare!Init => CompareInv
  <1> SUFFICES ASSUME Compare!Init PROVE CompareInv
    OBVIOUS
  <1>1. /\ cap \in Caps /\ registered = FALSE /\ comparison = 0 /\ cells = Compare!Blank
        /\ run = [c \in Compare!Cells |-> None] /\ gone = [c \in Compare!Cells |-> 0]
        /\ samples = Samples /\ step = [p \in Sessions |-> "idle"]
        /\ local = [p \in Sessions |-> Compare!Nothing] /\ reads = 0 /\ changes = 0
    BY DEF Compare!Init
  <1>2. /\ Compare!Blank = Compare!Nothing.saved
        /\ Compare!Blank \in [Compare!Cells -> Compare!Cell]
    BY NothingRead DEF Compare!Nothing, HeldRead
  <1>3. RunsInv
    <2>1. 0 \in Compare!Outputs
      BY DEF Compare!Outputs
    <2>2. \A c \in Compare!Cells : GoodCell(cells[c], run[c])
      BY <1>1, <1>2, NothingRead
    <2> QED BY <1>1, <1>2, <2>1, <2>2, ComparedAssumption DEF RunsInv
  <1>4. CallersInv
    <2>1. CallerOK(0, cells, run, "idle", Compare!Nothing)
      BY NothingRead DEF CallerOK, CallSteps, Reading
    <2> HIDE DEF Compare!Nothing
    <2> QED BY <1>1, <2>1 DEF CallersInv, CallSteps
  <1>5. SaverInv
    <2>1. ~(comparison > 0)
      BY <1>1
    <2>3. registered \in BOOLEAN
      BY <1>1
    <2>2. \A p \in Sessions : step[p] # "save"
      BY <1>1
    <2> QED BY <2>1, <2>2, <2>3 DEF SaverInv
  <1> QED BY <1>3, <1>4, <1>5 DEF CompareInv

\* The cells of a revision follow those of the one before.
LEMMA CellsFollow ==
    ASSUME CompareInv, [Compare!Next]_Compare!vars, comparison > 0
    PROVE  \A c \in Compare!Cells : Follows(cells[c], cells'[c])
  <1>1. CASE cells' = cells
    <2> SUFFICES ASSUME NEW c \in Compare!Cells PROVE Follows(cells[c], cells[c])
      BY <1>1
    <2>1. cells[c].checks \in Nat
      BY CellFacts DEF CompareInv, RunsInv
    <2> QED BY <2>1 DEF Follows
  <1>2. ASSUME NEW p \in Sessions, Compare!Write(p)
        PROVE  \A c \in Compare!Cells : Follows(cells[c], cells'[c])
    BY <1>2, WriteStep
  <1>3. ASSUME NEW p \in Sessions, Compare!Save(p) PROVE FALSE
    BY <1>3 DEF Compare!Save, CompareInv, CallersInv, CallerOK, RunsInv
  <1> QED BY <1>1, <1>2, <1>3
    DEF Compare!Next, Compare!Call, Compare!Submit, Compare!Register, Compare!Child, Compare!Abandon,
        Compare!Get, Compare!Latest, Compare!ReadRecord, Compare!ReadState, Compare!ReadAttempts,
        Compare!ReadOutput, Compare!Work, Compare!OutputExpires, Compare!SampleExpires, Compare!Change,
        Compare!record, Compare!vars

-----------------------------------------------------------------------------
\* Counting in the instance is counting.
LEMMA SameCompared == \A X : Compare!Cardinality(X) = Cardinality(X)
  BY DEF Compare!Cardinality, Cardinality

\* The units of a finite set are finitely many.
LEMMA FiniteUnits ==
    ASSUME NEW S, IsFiniteSet(S), NEW f, \A i \in S : f[i] \in Nat
    PROVE  /\ IsFiniteSet(UNION {{i} \X (1 .. f[i]) : i \in S})
           /\ \A u : u \in UNION {{i} \X (1 .. f[i]) : i \in S} <=>
                \E i \in S : \E n \in 1 .. f[i] : u = <<i, n>>
  <1> DEFINE I == {{i} \X (1 .. f[i]) : i \in S}
             g == [i \in S |-> {i} \X (1 .. f[i])]
  <1>1. IsFiniteSet(I)
    <2>1. g \in Surjection(S, I)
      BY DEF Surjection
    <2> QED BY <2>1, FS_Surjection
  <1>2. ASSUME NEW i \in S PROVE IsFiniteSet({i} \X (1 .. f[i]))
    <2>1. IsFiniteSet({i}) /\ IsFiniteSet(1 .. f[i])
      <3>1. 1 \in Int /\ f[i] \in Int
        OBVIOUS
      <3> QED BY <3>1, FS_Singleton, FS_Interval
    <2> QED BY <2>1, FS_Product
  <1>3. IsFiniteSet(UNION I)
    BY <1>1, <1>2, FS_UNION
  <1>4. \A u : u \in UNION I <=> \E i \in S : \E n \in 1 .. f[i] : u = <<i, n>>
    OBVIOUS
  <1> QED BY <1>3, <1>4

\* The envelope of a request covers any set of children.
LEMMA EnvelopeCovers ==
    ASSUME CompareInv PROVE Compare!WithinEnvelope
  <1> DEFINE f == [c \in Compare!Cells |-> Cost[c[1]]]
             C == {c \in Compare!Cells : run[c] # None}
             U == UNION {{c} \X (1 .. f[c]) : c \in C}
             P == UNION {{p} \X (1 .. Cost[p]) : p \in Compared}
             h == [u \in U |-> <<<<u[1][1], u[2]>>, u[1][2]>>]
  <1>1. /\ IsFiniteSet(P)
        /\ \A u : u \in P <=> \E p \in Compared : \E n \in 1 .. Cost[p] : u = <<p, n>>
    BY ComparedAssumption, FiniteUnits
  <1>2. IsFiniteSet(C) /\ \A c \in C : c \in Compare!Cells /\ f[c] = Cost[c[1]] /\ f[c] \in Nat
    <2>1. IsFiniteSet(Compare!Cells)
      BY ComparedAssumption, FS_Product DEF Compare!Cells
    <2>2. IsFiniteSet(C)
      BY <2>1, FS_Subset
    <2> QED BY <2>2, ComparedAssumption DEF Compare!Cells
  <1>3. IsFiniteSet(U) /\ \A u : u \in U <=> \E c \in C : \E n \in 1 .. f[c] : u = <<c, n>>
    <2>1. IsFiniteSet(C) /\ \A c \in C : f[c] \in Nat
      BY <1>2
    <2> HIDE DEF C, f
    <2> QED BY <2>1, FiniteUnits
  <1>4. cap \in Nat /\ (Cardinality(U) <= cap => Compare!WithinEnvelope)
    BY SameCompared, ComparedAssumption DEF Compare!WithinEnvelope, Compare!Total, CompareInv, RunsInv
  <1>5. CASE C = {}
    <2>1. U = {}
      BY <1>3, <1>5
    <2>2. Cardinality(U) = 0
      BY <2>1, FS_EmptySet
    <2> HIDE DEF U
    <2> QED BY <1>4, <2>2
  <1>6. CASE C # {}
    <2>1. Cardinality(P) * Cardinality(Samples) <= cap
      BY <1>6, SameCompared DEF CompareInv, RunsInv, Compare!Envelope, Compare!Total
    <2>2. IsFiniteSet(P \X Samples) /\ Cardinality(P \X Samples) = Cardinality(P) * Cardinality(Samples)
      BY <1>1, ComparedAssumption, FS_Product
    <2>3. ASSUME NEW u \in U
          PROVE  /\ u = <<<<u[1][1], u[1][2]>>, u[2]>> /\ h[u] \in P \X Samples
                 /\ h[u] = <<<<u[1][1], u[2]>>, u[1][2]>>
      <3>1. PICK c \in C : \E n \in 1 .. f[c] : u = <<c, n>>
        BY <1>3
      <3>2. PICK n \in 1 .. f[c] : u = <<c, n>>
        BY <3>1
      <3>3. c = <<c[1], c[2]>> /\ c[1] \in Compared /\ c[2] \in Samples /\ f[c] = Cost[c[1]]
        BY <1>2 DEF Compare!Cells
      <3>4. <<c[1], n>> \in P
        BY <1>1, <3>2, <3>3
      <3> QED BY <3>2, <3>3, <3>4
    <2>4. h \in Injection(U, P \X Samples)
      <3>1. h \in [U -> P \X Samples]
        BY <2>3
      <3>2. ASSUME NEW u \in U, NEW v \in U, h[u] = h[v] PROVE u = v
        BY <2>3, <3>2
      <3> HIDE DEF h, U, P
      <3> QED BY <3>1, <3>2 DEF Injection, IsInjective
    <2>5. Cardinality(U) <= Cardinality(P \X Samples)
      BY <2>2, <2>4, FS_Injection
    <2>6. /\ Cardinality(U) \in Nat /\ Cardinality(P \X Samples) \in Nat
      BY <1>3, <2>2, FS_CardinalityType
    <2> HIDE DEF U, P
    <2>7. Cardinality(U) <= cap
      BY <1>4, <2>1, <2>2, <2>5, <2>6
    <2> QED BY <1>4, <2>7
  <1> QED BY <1>5, <1>6

\* The comparisons of the control plane change by the steps of Comparisons only.
LEMMA PlaneComparisons == PlaneSpec => Compare!Spec
  <1>1. PlaneInit => Compare!Init
    BY DEF PlaneInit
  <1>2. [PlaneNext]_planeVars => [Compare!Next]_Compare!vars
    <2> SUFFICES ASSUME [PlaneNext]_planeVars, ~Compare!Next PROVE UNCHANGED Compare!vars
      OBVIOUS
    <2>1. UNCHANGED comparisonVars
      BY DEF PlaneNext, planeVars
    <2> QED BY <2>1 DEF comparisonVars, Compare!vars, Compare!record, Compare!runVars
  <1> QED BY <1>1, <1>2, PTL DEF PlaneSpec, Compare!Spec

\* Every reachable state of the comparisons has the invariant.
LEMMA ComparisonsInductive == PlaneSpec => []CompareInv
  <1>1. CompareInv /\ [Compare!Next]_Compare!vars => CompareInv'
    BY CompareStep
  <1> QED BY <1>1, PlaneComparisons, CompareInit, PTL DEF Compare!Spec

\* Whoever submits and reads, whatever expires and wherever a process dies: a child run is
\* queued only after its identifier was stored, all together may spend at most the cap of the
\* request (Comparisons.submit), and a completed cell accounts for every attempt
\* (Comparisons.get).
THEOREM SafeComparisons == PlaneSpec => []ComparisonSafety
  <1>1. ASSUME CompareInv PROVE Compare!ComparisonSafety
    <2>1. Compare!ChildrenAreTracked
      BY <1>1 DEF CompareInv, RunsInv, Compare!ChildrenAreTracked
    <2>2. Compare!WithinEnvelope
      BY <1>1, EnvelopeCovers
    <2>3. Compare!CompletedAccountsForAll
      BY <1>1 DEF CompareInv, RunsInv, GoodCell, Compare!CompletedAccountsForAll
    <2>4. Compare!TypeOK
      <3>1. \A c \in Compare!Cells : run[c] = None \/ run[c] \in Compare!Run
        BY <1>1 DEF CompareInv, RunsInv
      <3>2. ASSUME NEW p \in Sessions
            PROVE  /\ step[p] \in CallSteps /\ local[p].base \in 0 .. comparison
                   /\ local[p].result \in [Compare!Cells -> Compare!Cell]
                   /\ local[p].todo \subseteq Compare!Cells
        <4>1. local[p] \in HeldRead /\ local[p].base <= comparison /\ comparison \in Nat /\ step[p] \in CallSteps
          BY <1>1 DEF CompareInv, CallersInv, CallerOK, RunsInv
        <4>2. /\ local[p].base \in Nat /\ local[p].todo \subseteq Compare!Cells
              /\ local[p].result \in [Compare!Cells -> Compare!Cell]
          BY <4>1 DEF HeldRead
        <4>3. local[p].base \in 0 .. comparison
          BY <4>1, <4>2
        <4> QED BY <4>1, <4>2, <4>3
      <3>3. registered \in BOOLEAN
        BY <1>1 DEF CompareInv, SaverInv
      <3>4. /\ cap \in Caps /\ comparison \in Nat /\ cells \in [Compare!Cells -> Compare!Cell]
            /\ gone \in [Compare!Cells -> Compare!Outputs] /\ samples \subseteq Samples
            /\ reads \in 0 .. MaxReads /\ changes \in 0 .. MaxChanges
        BY <1>1 DEF CompareInv, RunsInv
      <3> QED BY <3>1, <3>2, <3>3, <3>4 DEF Compare!TypeOK, CallSteps
    <2> QED BY <2>1, <2>2, <2>3, <2>4 DEF Compare!ComparisonSafety
  <1>2. CompareInv => ComparisonSafety
    BY <1>1 DEF ComparisonSafety
  <1> QED BY <1>2, ComparisonsInductive, PTL

\* Overlapping readers never take back a final cell, nor replace checks by those of an earlier
\* output (Comparisons.get appends to the revision it has read).
THEOREM CellsStay == PlaneSpec => Compare!FinalCellsStay /\ Compare!ChecksNeverLost
  <1>1. ASSUME CompareInv, [Compare!Next]_Compare!vars, NEW c \in Compare!Cells
        PROVE  /\ cells[c].status \in {"completed", "failed"} => cells'[c].status = cells[c].status
               /\ cells'[c].checks >= cells[c].checks
    <2>1. CompareInv'
      BY <1>1, CompareStep
    <2>2. cells[c].checks \in Nat /\ cells'[c].checks \in Nat
      BY <1>1, <2>1, CellFacts DEF CompareInv, RunsInv
    <2>3. CASE comparison > 0
      BY <1>1, <2>2, <2>3, CellsFollow DEF Follows
    <2>4. CASE ~(comparison > 0)
      <3>1. run[c] = None
        BY <1>1, <2>4 DEF CompareInv, RunsInv
      <3>2. GoodCell(cells[c], None)
        BY <1>1, <3>1 DEF CompareInv, RunsInv
      <3>3. cells[c].status \notin {"completed", "failed"} /\ cells[c].checks = 0
        BY <2>2, <3>2 DEF GoodCell
      <3> QED BY <2>2, <3>3
    <2> QED BY <2>3, <2>4
  <1>2. CompareInv /\ [Compare!Next]_Compare!vars =>
          [\A c \in Compare!Cells : cells[c].status \in {"completed", "failed"} =>
                                      cells'[c].status = cells[c].status]_Compare!vars
    BY <1>1
  <1>3. CompareInv /\ [Compare!Next]_Compare!vars =>
          [\A c \in Compare!Cells : cells'[c].checks >= cells[c].checks]_Compare!vars
    BY <1>1
  <1> QED BY <1>2, <1>3, PlaneComparisons, ComparisonsInductive, PTL
    DEF Compare!Spec, Compare!FinalCellsStay, Compare!ChecksNeverLost

-----------------------------------------------------------------------------
(* Derived revisions *)

EditedPolicy ==
    [id : {"policy", "variant"}, version : Nat, stages : [Nodes -> Edits!Stage],
     prompts : Seq(Edits!Prompt), decided : BOOLEAN]

\* The newest revision is a valid policy, and every derived one did what was asked for.
EditInv == newest \in EditedPolicy /\ Edits!EditSafety

\* What a request may ask for.
LEMMA ChangeFacts ==
    ASSUME NEW q \in Changes
    PROVE  /\ q.excluded \subseteq Configs /\ q.cheaper \subseteq Nodes /\ q.kept \in Nodes \cup {None}
           /\ q.schemas \subseteq Nodes /\ DOMAIN q.pins \subseteq Nodes
           /\ \A n \in DOMAIN q.pins : q.pins[n] \in Configs
  <1>1. /\ q.excluded \subseteq Configs /\ q.cheaper \subseteq Nodes /\ q.kept \in Nodes \cup {None}
        /\ q.schemas \subseteq Nodes /\ q.pins \in UNION {[d -> Configs] : d \in SUBSET Nodes}
    BY EditsAssumption
  <1>2. PICK d \in SUBSET Nodes : q.pins \in [d -> Configs]
    BY <1>1
  <1> QED BY <1>1, <1>2

\* The cheapest of some configurations is one of them.
LEMMA CheapestIsOne ==
    ASSUME NEW set, set \subseteq Configs, set # {}
    PROVE  Edits!Cheapest(set) \in set
  <1>1. \E c \in set : \A d \in set : c <= d
    BY EditsAssumption, LeastExists
  <1> QED BY <1>1 DEF Edits!Cheapest

\* The pins are eligible, and there is an alternative wherever one is needed.
Admissible(q) == Edits!PinsAdmitted(q) /\ \A n \in Nodes : ~Edits!Exhausted(q, n)

\* A request that is not refused and whose templates fit passes the checks of every stage.
LEMMA NotRefused ==
    ASSUME NEW q, ~Edits!Refused(q), q.misfits = {}
    PROVE  Admissible(q) /\ ~Edits!KeepConflict(q)
  <1>1. Edits!PinsAdmitted(q) /\ ~Edits!KeepConflict(q) /\ ~Edits!Denied(q)
    BY DEF Edits!Refused
  <1>2. \A n \in Nodes : ~Edits!Exhausted(q, n)
    BY <1>1 DEF Edits!Denied
  <1> QED BY <1>1, <1>2 DEF Admissible

\* A stage that has passed the checks keeps its model, or gets one of the ranked ones.
LEMMA NewConfig ==
    ASSUME newest \in EditedPolicy, Edits!TypeOK, NEW q \in Changes, Admissible(q), NEW n \in Nodes
    PROVE  /\ Edits!Config(q, n) \in Configs
           /\ Edits!Config(q, n) \notin q.excluded
           /\ \/ Edits!Config(q, n) \in eligible /\ (n \in q.cheaper \cup DOMAIN q.pins \/
                                                      newest.stages[n].config \in q.excluded)
              \/ /\ Edits!Config(q, n) = newest.stages[n].config
                 /\ n \notin DOMAIN q.pins /\ n \notin q.cheaper
  <1>1. eligible \subseteq Configs /\ Edits!Ranked(q) = eligible \ q.excluded
    BY DEF Edits!TypeOK, Edits!Ranked
  <1>2. newest.stages[n].config \in Configs
    BY DEF EditedPolicy, Edits!Stage
  <1>3. CASE Edits!Replaced(q, n)
    <2>1. Edits!Ranked(q) # {}
      BY <1>3 DEF Admissible, Edits!Exhausted
    <2>2. Edits!Cheapest(Edits!Ranked(q)) \in Edits!Ranked(q)
      BY <1>1, <2>1, CheapestIsOne
    <2>3. Edits!Config(q, n) = Edits!Cheapest(Edits!Ranked(q))
      BY <1>3 DEF Edits!Config
    <2> QED BY <1>1, <1>3, <2>2, <2>3 DEF Edits!Replaced, Edits!Pinned
  <1>4. CASE ~Edits!Replaced(q, n)
    <2>1. Edits!Config(q, n) = Edits!Pinned(q, n)
      BY <1>4 DEF Edits!Config
    <2>2. n \in DOMAIN q.pins => q.pins[n] \in Edits!Ranked(q)
      BY DEF Admissible, Edits!PinsAdmitted
    <2> QED BY <1>1, <1>2, <1>4, <2>1, <2>2 DEF Edits!Replaced, Edits!Pinned
  <1> QED BY <1>3, <1>4

\* An edited stage is a stage without fallbacks, whose attempts cover its repairs.
LEMMA EditedStage ==
    ASSUME newest \in EditedPolicy, Edits!TypeOK, NEW q \in Changes, Admissible(q), NEW n \in Nodes
    PROVE  /\ Edits!Edited(q, n) \in Edits!Stage
           /\ Edits!Edited(q, n).config = Edits!Config(q, n)
           /\ Edits!Edited(q, n).fallbacks = << >>
           /\ Edits!Edited(q, n).attempts = 1 + Edits!Edited(q, n).repairs
           /\ Edits!Edited(q, n).prompt = [id |-> newest.stages[n].prompt.id,
                                           version |-> newest.stages[n].prompt.version + 1]
           /\ q.schemas = {} => Edits!Edited(q, n).output = newest.stages[n].output
  <1> DEFINE s == newest.stages[n]
             o == IF n \in q.schemas THEN "json" ELSE s.output
             p == Edits!Revised(s.prompt)
             c == Edits!Config(q, n)
  <1>1. s \in Edits!Stage
    BY DEF EditedPolicy
  <1>2. s.prompt \in Edits!Prompt /\ s.repairs \in 0 .. 2 /\ s.output \in {"text", "json"}
    BY <1>1 DEF Edits!Stage
  <1>3. p = [id |-> s.prompt.id, version |-> s.prompt.version + 1] /\ p \in Edits!Prompt
    BY <1>2 DEF Edits!Prompt, Edits!Revised
  <1>4. c \in Configs /\ o \in {"text", "json"} /\ 1 + s.repairs \in 1 .. 3
    BY <1>2, NewConfig
  <1>5. Edits!Edited(q, n) =
            [s EXCEPT !.config = c, !.fallbacks = << >>, !.attempts = 1 + s.repairs,
                      !.prompt = p,
                      !.output = IF n \in q.schemas THEN "json" ELSE @]
    BY DEF Edits!Edited
  <1> DEFINE e == Edits!Edited(q, n)
  <1> HIDE DEF s, c, e, p
  <1>6. /\ e.config = c /\ e.fallbacks = << >> /\ e.attempts = 1 + s.repairs /\ e.repairs = s.repairs
        /\ e.prompt = p /\ e.output = o
    <2>1. e.config = c /\ e.fallbacks = << >> /\ e.attempts = 1 + s.repairs /\ e.repairs = s.repairs
      BY <1>1, <1>5 DEF Edits!Stage, e
    <2>2. e.prompt = p
      BY <1>1, <1>5 DEF Edits!Stage, e
    <2>3. e.output = o
      BY <1>1, <1>5 DEF Edits!Stage, e
    <2> QED BY <2>1, <2>2, <2>3
  <1>7. e \in Edits!Stage
    <2>1. << >> \in Seq(Configs)
      OBVIOUS
    <2> HIDE DEF o
    <2>2. e = [s EXCEPT !.config = e.config, !.fallbacks = e.fallbacks, !.attempts = e.attempts,
                        !.prompt = e.prompt, !.output = e.output]
      BY <1>1, <1>5 DEF Edits!Stage, e
    <2>3. e.config \in Configs /\ e.fallbacks \in Seq(Configs) /\ e.attempts \in 1 .. 3
          /\ e.prompt \in Edits!Prompt /\ e.output \in {"text", "json"}
      BY <1>3, <1>4, <1>6, <2>1
    <2> QED BY <1>1, <2>2, <2>3 DEF Edits!Stage
  <1> QED BY <1>3, <1>6, <1>7 DEF s, c, e, p

\* The counts of the instance are counts.
LEMMA SameRevisionCount == \A X : Edits!Cardinality(X) = Cardinality(X)
  BY DEF Edits!Cardinality, Cardinality

\* A stage without fallbacks has distinct pins.
LEMMA NoFallbacks ==
    ASSUME NEW s, s.fallbacks = << >>, s.repairs \in Nat, s.attempts = 1 + s.repairs
    PROVE  Edits!Attempts(s) /\ Edits!Distinct(s) /\ Edits!RangeOf(s.fallbacks) = {}
  <1>1. Edits!RangeOf(s.fallbacks) = {} /\ Len(s.fallbacks) = 0
    BY DEF Edits!RangeOf
  <1>2. Cardinality({}) = 0
    BY FS_EmptySet
  <1>3. Edits!Attempts(s)
    BY <1>1 DEF Edits!Attempts
  <1>4. Edits!Distinct(s)
    BY <1>1, <1>2, SameRevisionCount DEF Edits!Distinct
  <1> QED BY <1>1, <1>3, <1>4

\* There are n numbers up to n.
LEMMA CountTo == \A n \in Nat : IsFiniteSet(1 .. n) /\ Cardinality(1 .. n) = n
  BY FS_Interval

\* A list of distinct values has as many values as places.
LEMMA DistinctList ==
    ASSUME NEW n \in Nat, NEW f, DOMAIN f = 1 .. n, f = [i \in 1 .. n |-> f[i]],
           \A i, j \in 1 .. n : f[i] = f[j] => i = j
    PROVE  Cardinality(Edits!RangeOf(f)) = n /\ Len(f) = n
  <1> DEFINE T == Edits!RangeOf(f)
  <1>1. T = {f[i] : i \in 1 .. n}
    BY DEF Edits!RangeOf
  <1>2. f \in Bijection(1 .. n, T)
    BY <1>1 DEF Bijection, Injection, Surjection, IsInjective
  <1>3. IsFiniteSet(1 .. n) /\ Cardinality(1 .. n) = n
    BY CountTo, Zenon
  <1>4. Cardinality(T) = n
    <2> HIDE DEF T
    <2>1. ExistsBijection(1 .. n, T)
      BY <1>2 DEF ExistsBijection
    <2> QED BY <1>3, <2>1, FS_Bijection, Zenon
  <1> QED BY <1>4

\* The revision that an edit derives is a policy.
LEMMA RevisionFacts ==
    ASSUME newest \in EditedPolicy, Edits!TypeOK, NEW q \in Changes, Admissible(q)
    PROVE  /\ Edits!Revision(q) \in EditedPolicy
           /\ \A n \in Nodes : Edits!Revision(q).stages[n] = Edits!Edited(q, n)
  <1> DEFINE stages == [n \in Nodes |-> Edits!Edited(q, n)]
             prompts == [n \in Nodes |-> stages[n].prompt]
  <1>1. stages \in [Nodes -> Edits!Stage]
    BY EditedStage
  <1>2. prompts \in Seq(Edits!Prompt)
    <2>1. \A n \in Nodes : stages[n].prompt \in Edits!Prompt
      BY <1>1 DEF Edits!Stage
    <2>2. Nodes = 1 .. Cardinality(Nodes) /\ Cardinality(Nodes) \in Nat
      BY EditsAssumption, FS_CardinalityType
    <2> HIDE DEF stages
    <2> QED BY <2>1, <2>2
  <1>3. Edits!Revision(q) = [id |-> newest.id, version |-> newest.version + 1, stages |-> stages,
                             prompts |-> prompts, decided |-> FALSE]
    BY DEF Edits!Revision
  <1>4. newest.id \in {"policy", "variant"} /\ newest.version + 1 \in Nat
    BY DEF EditedPolicy
  <1>5. stages = [n \in Nodes |-> Edits!Edited(q, n)]
    OBVIOUS
  <1> HIDE DEF stages, prompts
  <1> QED BY <1>1, <1>2, <1>3, <1>4, <1>5 DEF EditedPolicy

\* With the outputs as they are and a prompt for each stage, the revision is valid.
LEMMA EditValid ==
    ASSUME newest \in EditedPolicy, Edits!TypeOK, NEW q \in Changes, Admissible(q), q.schemas = {},
           \A m, n \in Nodes : newest.stages[m].prompt = newest.stages[n].prompt => m = n
    PROVE  Edits!Executable(Edits!Revision(q))
  <1> DEFINE r == Edits!Revision(q)
  <1>1. \A n \in Nodes : Edits!Attempts(r.stages[n]) /\ Edits!Distinct(r.stages[n])
    <2> SUFFICES ASSUME NEW n \in Nodes
                 PROVE  Edits!Attempts(r.stages[n]) /\ Edits!Distinct(r.stages[n])
      OBVIOUS
    <2> DEFINE e == Edits!Edited(q, n)
    <2>1. r.stages[n] = e
      BY RevisionFacts
    <2>2. e \in Edits!Stage /\ e.fallbacks = << >> /\ e.attempts = 1 + e.repairs
      BY EditedStage
    <2> HIDE DEF e, r
    <2>3. e.repairs \in Nat
      BY <2>2 DEF Edits!Stage
    <2>4. Edits!Attempts(e) /\ Edits!Distinct(e)
      BY <2>2, <2>3, NoFallbacks
    <2> QED BY <2>1, <2>4
  <1>2. Edits!OneOfEach(r)
    <2> DEFINE f == r.prompts
    <2>1. f = [n \in Nodes |-> Edits!Edited(q, n).prompt]
      BY DEF Edits!Revision
    <2>2. \A n \in Nodes : newest.stages[n].prompt \in Edits!Prompt
      BY DEF EditedPolicy, Edits!Stage
    <2>3. \A m, n \in Nodes : f[m] = f[n] => m = n
      <3> SUFFICES ASSUME NEW m \in Nodes, NEW n \in Nodes, f[m] = f[n] PROVE m = n
        OBVIOUS
      <3> DEFINE a == newest.stages[m].prompt
                 b == newest.stages[n].prompt
      <3>1. [id |-> a.id, version |-> a.version + 1] = [id |-> b.id, version |-> b.version + 1]
        BY <2>1, EditedStage
      <3>2. a \in Edits!Prompt /\ b \in Edits!Prompt
        BY <2>2
      <3>3. a = b
        <4> HIDE DEF a, b
        <4>1. a.id = b.id /\ a.version = b.version
          BY <3>1, <3>2 DEF Edits!Prompt
        <4> QED BY <3>2, <4>1 DEF Edits!Prompt
      <3> QED BY <3>3
    <2>4. Nodes = 1 .. Cardinality(Nodes) /\ Cardinality(Nodes) \in Nat
      BY EditsAssumption, FS_CardinalityType
    <2>5. DOMAIN f = Nodes /\ f = [n \in Nodes |-> f[n]]
      BY <2>1
    <2> HIDE DEF f
    <2>6. Cardinality(Edits!RangeOf(f)) = Len(f)
      BY <2>3, <2>4, <2>5, DistinctList
    <2> QED BY <2>6, SameRevisionCount DEF Edits!OneOfEach, f
  <1>3. Edits!Bound(r)
    <2> SUFFICES ASSUME NEW n \in Nodes, Source[n] # None PROVE r.stages[Source[n]].output = "text"
      BY DEF Edits!Bound
    <2>1. Source[n] \in Nodes
      BY EditsAssumption
    <2>2. newest.stages[Source[n]].output = "text"
      BY DEF Edits!TypeOK, Edits!Executable, Edits!Bound
    <2>3. r.stages[Source[n]] = Edits!Edited(q, Source[n])
      BY <2>1, RevisionFacts
    <2>4. Edits!Edited(q, Source[n]).output = newest.stages[Source[n]].output
      BY <2>1, EditedStage
    <2> HIDE DEF r
    <2> QED BY <2>2, <2>3, <2>4
  <1> QED BY <1>1, <1>2, <1>3 DEF Edits!Executable

\* An edit that passes the checks either gives what it asks for, or no valid revision.
LEMMA EditStep ==
    ASSUME EditInv, NEW q \in Changes, Edits!Edit(q)
    PROVE  EditInv'
  <1> USE DEF EditInv, Edits!EditSafety
  <1>1. /\ eligible \subseteq Configs /\ UNCHANGED eligible /\ revisions' \in 0 .. MaxRevisions
        /\ last' = [request |-> q, before |-> newest, eligible |-> eligible]
        /\ outcome' \in {"refused", "derived", "invalid"}
    BY EditsAssumption DEF Edits!Edit, Edits!Answer, Edits!TypeOK
  <1>2. CASE UNCHANGED newest /\ outcome' \in {"refused", "invalid"}
    <2>1. Edits!TypeOK'
      BY <1>1, <1>2 DEF Edits!TypeOK, Edits!Executable, Edits!Attempts, Edits!Distinct, Edits!OneOfEach,
            Edits!Bound, Edits!RangeOf
    <2>2. Edits!ExcludedIsGone' /\ Edits!KeptIsKept' /\ Edits!NewModelsAreEligible'
      BY <1>2 DEF Edits!Derived, Edits!ExcludedIsGone, Edits!KeptIsKept, Edits!NewModelsAreEligible
    <2>3. Edits!EditsValidate'
      <3> SUFFICES ASSUME outcome' = "invalid", q.schemas = {}, q.misfits = {},
                          \A m, n \in Nodes : newest.stages[m].prompt = newest.stages[n].prompt => m = n
                   PROVE  FALSE
        BY <1>1, <1>2 DEF Edits!EditsValidate
      <3>1. ~Edits!Refused(q) /\ ~Edits!Valid(q)
        BY DEF Edits!Edit, Edits!Answer
      <3>2. ~Edits!Executable(Edits!Revision(q))
        BY <3>1 DEF Edits!Valid
      <3>3. Admissible(q)
        BY <3>1, NotRefused
      <3> QED BY <3>2, <3>3, EditValid
    <2> QED BY <1>2, <2>1, <2>2, <2>3
  <1>3. CASE newest' = Edits!Revision(q) /\ outcome' = "derived"
    <2>1. Admissible(q) /\ ~Edits!KeepConflict(q) /\ Edits!Executable(Edits!Revision(q))
      <3>1. ~Edits!Refused(q) /\ Edits!Valid(q)
        BY <1>3 DEF Edits!Edit, Edits!Answer
      <3> QED BY <3>1, NotRefused DEF Edits!Valid
    <2>2. newest' \in EditedPolicy /\ \A n \in Nodes : newest'.stages[n] = Edits!Edited(q, n)
      BY <1>3, <2>1, RevisionFacts
    <2>3. Edits!TypeOK'
      <3>1. Edits!Executable(newest)'
        BY <1>3, <2>1 DEF Edits!Executable, Edits!Attempts, Edits!Distinct, Edits!OneOfEach,
              Edits!Bound, Edits!RangeOf
      <3> QED BY <1>1, <1>3, <2>2, <3>1 DEF Edits!TypeOK, EditedPolicy
    <2>4. \A n \in Nodes : newest'.stages[n].config = Edits!Config(q, n)
      BY <2>1, <2>2, EditedStage
    <2>5. Edits!ExcludedIsGone'
      <3>1. \A n \in Nodes : Edits!RangeOf(newest'.stages[n].fallbacks) = {}
        <4>1. \A n \in Nodes : newest'.stages[n].fallbacks = << >>
          BY <2>1, <2>2, EditedStage
        <4>2. Edits!RangeOf(<< >>) = {}
          BY DEF Edits!RangeOf
        <4> QED BY <4>1, <4>2
      <3>2. \A n \in Nodes : newest'.stages[n].config \notin q.excluded
        BY <2>1, <2>4, NewConfig
      <3> QED BY <1>1, <3>1, <3>2 DEF Edits!ExcludedIsGone, Edits!RangeOf
    <2>6. Edits!KeptIsKept'
      <3> SUFFICES ASSUME q.kept # None
                   PROVE  newest'.stages[q.kept].config = newest.stages[q.kept].config
        BY <1>1 DEF Edits!KeptIsKept
      <3>1. q.kept \in Nodes
        BY ChangeFacts
      <3>2. Edits!Config(q, q.kept) = newest.stages[q.kept].config
        BY <2>1 DEF Edits!KeepConflict, Edits!Config, Edits!Replaced, Edits!Pinned
      <3> QED BY <2>4, <3>1, <3>2
    <2>7. Edits!NewModelsAreEligible'
      BY <1>1, <2>1, <2>4, NewConfig DEF Edits!NewModelsAreEligible
    <2>8. Edits!EditsValidate'
      BY <1>3 DEF Edits!EditsValidate
    <2> QED BY <2>2, <2>3, <2>5, <2>6, <2>7, <2>8
  <1> QED BY <1>2, <1>3 DEF Edits!Edit, Edits!Answer

\* A variant has every stage on the cheapest eligible model, without fallbacks, and is valid.
LEMMA VariantStep ==
    ASSUME EditInv, Edits!Variant
    PROVE  EditInv'
  <1> USE DEF EditInv, Edits!EditSafety
  <1> DEFINE q == [pins |-> << >>, excluded |-> {}, cheaper |-> Nodes, kept |-> None, schemas |-> {},
                   misfits |-> {}]
  <1>1. /\ eligible \subseteq Configs /\ UNCHANGED eligible /\ revisions' \in 0 .. MaxRevisions
        /\ last' = [request |-> q, before |-> newest, eligible |-> eligible]
        /\ outcome' \in {"refused", "derived"}
    BY EditsAssumption DEF Edits!Variant, Edits!Answer, Edits!TypeOK
  <1>2. CASE UNCHANGED newest /\ outcome' = "refused"
    <2>1. Edits!TypeOK'
      BY <1>1, <1>2 DEF Edits!TypeOK, Edits!Executable, Edits!Attempts, Edits!Distinct, Edits!OneOfEach,
            Edits!Bound, Edits!RangeOf
    <2> QED BY <1>2, <2>1 DEF Edits!Derived, Edits!ExcludedIsGone, Edits!KeptIsKept,
              Edits!NewModelsAreEligible, Edits!EditsValidate
  <1>3. CASE /\ newest' = [newest EXCEPT !.id = "variant", !.version = 1,
                                         !.stages = [n \in Nodes |-> Edits!Varied(n)]]
             /\ outcome' = "derived" /\ eligible # {}
    <2> DEFINE stages == [n \in Nodes |-> Edits!Varied(n)]
    <2>1. Edits!Cheapest(eligible) \in eligible
      BY <1>1, <1>3, CheapestIsOne
    <2>2. ASSUME NEW n \in Nodes
          PROVE  LET s == newest.stages[n] v == Edits!Varied(n) IN
                 /\ v \in Edits!Stage /\ v.config = Edits!Cheapest(eligible) /\ v.fallbacks = << >>
                 /\ v.repairs \in Nat /\ v.attempts = 1 + v.repairs /\ v.output = s.output
      <3> DEFINE s == newest.stages[n]
                 v == Edits!Varied(n)
                 c == Edits!Cheapest(eligible)
      <3>1. s \in Edits!Stage /\ c \in Configs /\ << >> \in Seq(Configs)
        BY <1>1, <2>1 DEF EditedPolicy
      <3>2. s.repairs \in 0 .. 2 /\ 1 + s.repairs \in 1 .. 3 /\ s.repairs \in Nat
        BY <3>1 DEF Edits!Stage
      <3>3. v = [s EXCEPT !.config = c, !.fallbacks = << >>, !.attempts = 1 + s.repairs]
        BY DEF Edits!Varied
      <3> HIDE DEF s, v, c
      <3>4. /\ v \in Edits!Stage /\ v.config = c /\ v.fallbacks = << >>
            /\ v.repairs = s.repairs /\ v.attempts = 1 + s.repairs /\ v.output = s.output
        BY <3>1, <3>2, <3>3 DEF Edits!Stage
      <3> QED BY <3>2, <3>4 DEF s, v, c
    <2>3. stages \in [Nodes -> Edits!Stage] /\ \A n \in Nodes : stages[n] = Edits!Varied(n)
      BY <2>2
    <2> HIDE DEF stages
    <2>4. /\ newest' \in EditedPolicy /\ newest'.stages = stages /\ newest'.prompts = newest.prompts
          /\ newest'.id = "variant" /\ newest'.version = 1
      BY <1>3, <2>3 DEF EditedPolicy, stages
    <2>5. \A n \in Nodes : /\ newest'.stages[n].config = Edits!Cheapest(eligible)
                           /\ newest'.stages[n].fallbacks = << >>
                           /\ newest'.stages[n].output = newest.stages[n].output
      BY <2>2, <2>3, <2>4
    <2>6. Edits!Executable(newest')
      <3>1. \A n \in Nodes : Edits!Attempts(newest'.stages[n]) /\ Edits!Distinct(newest'.stages[n])
        <4> SUFFICES ASSUME NEW n \in Nodes
                     PROVE  Edits!Attempts(newest'.stages[n]) /\ Edits!Distinct(newest'.stages[n])
          OBVIOUS
        <4> DEFINE v == Edits!Varied(n)
        <4>1. newest'.stages[n] = v /\ v.fallbacks = << >> /\ v.repairs \in Nat /\ v.attempts = 1 + v.repairs
          BY <2>2, <2>3, <2>4
        <4> HIDE DEF v
        <4>2. Edits!Attempts(v) /\ Edits!Distinct(v)
          BY <4>1, NoFallbacks
        <4> QED BY <4>1, <4>2
      <3>2. Edits!OneOfEach(newest')
        BY <2>4 DEF Edits!TypeOK, Edits!Executable, Edits!OneOfEach
      <3>3. Edits!Bound(newest')
        BY <2>5, EditsAssumption DEF Edits!TypeOK, Edits!Executable, Edits!Bound
      <3> QED BY <3>1, <3>2, <3>3 DEF Edits!Executable
    <2>7. Edits!TypeOK'
      <3>1. Edits!Executable(newest)'
        BY <2>6 DEF Edits!Executable, Edits!Attempts, Edits!Distinct, Edits!OneOfEach,
              Edits!Bound, Edits!RangeOf
      <3> QED BY <1>1, <1>3, <2>4, <3>1 DEF Edits!TypeOK, EditedPolicy
    <2>8. Edits!ExcludedIsGone' /\ Edits!KeptIsKept' /\ Edits!EditsValidate'
      BY <1>1, <1>3 DEF Edits!ExcludedIsGone, Edits!KeptIsKept, Edits!EditsValidate
    <2>9. Edits!NewModelsAreEligible'
      BY <1>1, <2>1, <2>5 DEF Edits!NewModelsAreEligible
    <2> QED BY <2>4, <2>7, <2>8, <2>9
  <1> QED BY <1>2, <1>3 DEF Edits!Variant, Edits!Answer

\* The first revision is valid.
LEMMA EditInit == Edits!Init => EditInv
  <1> SUFFICES ASSUME Edits!Init PROVE EditInv
    OBVIOUS
  <1>1. newest \in Originals /\ eligible = Configs /\ outcome = "none" /\ revisions = 0
    BY DEF Edits!Init
  <1>2. newest \in EditedPolicy /\ Edits!Executable(newest) /\ 0 \in 0 .. MaxRevisions
    <2>1. newest \in [id : {"policy"}, version : Nat, stages : [Nodes -> Edits!Stage],
                      prompts : Seq(Edits!Prompt), decided : BOOLEAN]
      BY <1>1, EditsAssumption
    <2> QED BY <1>1, <2>1, EditsAssumption DEF EditedPolicy
  <1>3. Edits!TypeOK
    BY <1>1, <1>2 DEF Edits!TypeOK, EditedPolicy
  <1> QED BY <1>1, <1>2, <1>3 DEF EditInv, Edits!EditSafety, Edits!Derived, Edits!ExcludedIsGone,
            Edits!KeptIsKept, Edits!NewModelsAreEligible, Edits!EditsValidate

\* Requests and changes of the evidence keep it so.
LEMMA EditsStep == EditInv /\ [Edits!Next]_Edits!vars => EditInv'
  <1> SUFFICES ASSUME EditInv, [Edits!Next]_Edits!vars PROVE EditInv'
    OBVIOUS
  <1> USE DEF EditInv, Edits!EditSafety
  <1>1. ASSUME UNCHANGED <<newest, revisions>>, eligible' \subseteq Configs,
               outcome' \in {"none", "derived", "refused", "invalid"}
        PROVE  Edits!TypeOK'
    <2>1. Edits!Executable(newest)'
      BY <1>1 DEF Edits!TypeOK, Edits!Executable, Edits!Attempts, Edits!Distinct, Edits!OneOfEach,
            Edits!Bound, Edits!RangeOf
    <2> QED BY <1>1, <2>1 DEF Edits!TypeOK
  <1>2. CASE Edits!Evidence
    <2>1. /\ UNCHANGED <<newest, revisions>> /\ eligible' \subseteq Configs
          /\ outcome' = "none"
      BY <1>2 DEF Edits!Evidence
    <2>2. Edits!TypeOK'
      BY <1>1, <2>1
    <2>3. Edits!ExcludedIsGone' /\ Edits!KeptIsKept' /\ Edits!NewModelsAreEligible'
      BY <2>1 DEF Edits!Derived, Edits!ExcludedIsGone, Edits!KeptIsKept, Edits!NewModelsAreEligible
    <2>4. Edits!EditsValidate'
      BY <2>1 DEF Edits!EditsValidate
    <2> QED BY <2>1, <2>2, <2>3, <2>4
  <1>3. CASE UNCHANGED Edits!vars
    <2>1. UNCHANGED <<newest, eligible, outcome, last, revisions>>
      BY <1>3 DEF Edits!vars
    <2>2. Edits!TypeOK'
      BY <1>1, <2>1 DEF Edits!TypeOK
    <2>3. Edits!ExcludedIsGone' /\ Edits!KeptIsKept'
      BY <2>1 DEF Edits!Derived, Edits!ExcludedIsGone, Edits!KeptIsKept, Edits!RangeOf
    <2>4. Edits!NewModelsAreEligible'
      BY <2>1 DEF Edits!Derived, Edits!NewModelsAreEligible
    <2>5. Edits!EditsValidate'
      BY <2>1 DEF Edits!EditsValidate
    <2> QED BY <2>1, <2>2, <2>3, <2>4, <2>5
  <1> QED BY <1>2, <1>3, EditStep, VariantStep DEF Edits!Next

\* The derived revisions of the control plane change by the steps of PolicyEdits only.
LEMMA PlaneEdits == PlaneSpec => Edits!Spec
  <1>1. PlaneInit => Edits!Init
    BY DEF PlaneInit
  <1>2. [PlaneNext]_planeVars => [Edits!Next]_Edits!vars
    <2> SUFFICES ASSUME [PlaneNext]_planeVars, ~Edits!Next PROVE UNCHANGED Edits!vars
      OBVIOUS
    <2>1. UNCHANGED editVars
      BY DEF PlaneNext, planeVars
    <2> QED BY <2>1 DEF editVars, Edits!vars
  <1> QED BY <1>1, <1>2, PTL DEF PlaneSpec, Edits!Spec

\* However edits, variants and changes of the evidence follow one another, a derived revision
\* is valid, has no excluded model, has the kept one, and has a new model only where the request
\* named or excluded the one before, and an eligible one (edit and variant of
\* execution_policy.py).  An edit that passed the checks fails validation only with an output
\* schema, a template that does not fit its prompt, or a prompt that stages share.
THEOREM SafeEdits == PlaneSpec => []EditSafety
  <1>1. EditInv => EditSafety
    BY DEF EditInv, EditSafety
  <1>2. EditInv /\ [Edits!Next]_Edits!vars => EditInv'
    BY EditsStep
  <1> QED BY <1>1, <1>2, PlaneEdits, EditInit, PTL DEF Edits!Spec

-----------------------------------------------------------------------------
(* The control plane *)

\* The policies of the control plane change by the steps of PolicyLifecycle only.
LEMMA PlanePolicies == PlaneSpec => Spec
  <1>1. PlaneInit => Init
    BY DEF PlaneInit
  <1>2. [PlaneNext]_planeVars => [Next]_vars
    BY DEF PlaneNext, planeVars
  <1> QED BY <1>1, <1>2, PTL DEF PlaneSpec, Spec

\* What the control plane writes stays: revisions, transitions and the alias pin, the versions
\* of a key with at most one revocation, the final cells of a comparison and its checks.
THEOREM RecordsAreKept == PlaneSpec => RecordsStay
  BY PlanePolicies, ImmutableRecords, KeyChains, CellsStay, PTL DEF RecordsStay
=============================================================================
