--------------------------- MODULE PolicyLifecycle ---------------------------
(***************************************************************************)
(* The policy control plane of execution_storage.py: immutable revisions   *)
(* of one executable policy, the transitions of each revision (draft,      *)
(* sandbox_enabled, disabled) behind a compare-and-set head, the           *)
(* operator's admissions and the route aliases; and, against it,           *)
(* the data plane's reading of all of them (Authority.policy of gateway/   *)
(* preflight.py, enabled of execution_api.py).                             *)
(*                                                                         *)
(* Studio sessions work concurrently.  A session reads, decides and then   *)
(* writes in a transaction of its own; other sessions commit in between.   *)
(***************************************************************************)
EXTENDS Naturals, FiniteSets

CONSTANTS
    Versions,      \* 1 .. n: revisions of the policy
    Contents,      \* what a revision may say (its digest)
    Covered,       \* the contents whose configurations the pinned catalog has
    Sessions,      \* studio requests
    Requests,      \* chat requests through the alias
    Admissions,    \* the operator's records: [version, content, expires]
    MaxSequence,   \* bound: transitions of one revision
    MaxTime,       \* bound: clock
    None

ASSUME VersionsAssumption == Versions \subseteq Nat /\ \E n \in Versions : Versions = 1 .. n
ASSUME CoveredAssumption == Covered \subseteq Contents /\ None \notin Contents
ASSUME AdmissionsAssumption ==
    Admissions \subseteq [version : Versions, content : Contents, expires : Nat]
    /\ None \notin Admissions
ASSUME BoundsAssumption == MaxSequence \in Nat \ {0} /\ MaxTime \in Nat

VARIABLES
    now,
    revision,      \* sandbox_records 'policy'
    head,          \* sandbox_heads.sequence, 0 without a row
    log,           \* sandbox_records 'transition'
    provisioned,   \* sandbox_records 'admission'
    alias,         \* sandbox_records 'alias': the pin, or None
    session, request,
    never          \* history: never live since the request arrived

stored == <<revision, head, log, provisioned, alias>>
vars == <<now, stored, session, request, never>>

-----------------------------------------------------------------------------
Sequences == 1 .. MaxSequence
Statuses == {"draft", "sandbox_enabled", "disabled"}
Transition == [status : Statuses, admission : Admissions \cup {None}]
Pin == [version : Versions, content : Contents]
ASSUME NoneAssumption == None \notin Transition /\ None \notin Pin

Idle == [op |-> "idle"]
SessionState ==
    {Idle}
    \cup [op : {"create"}, version : Versions, content : Covered, latest : {0} \cup Versions]
    \cup [op : {"enable"}, version : Versions, prior : Sequences, admission : Admissions]
    \cup [op : {"commit"}, version : Versions, prior : Sequences, value : Transition]
    \cup [op : {"alias"}, pin : Pin]
RequestState ==
    {[op |-> "idle"], [op |-> "arrived"], [op |-> "denied"]}
    \cup [op : {"head"}, pin : Pin, seq : Sequences]
    \cup [op : {"authorized"}, pin : Pin]

TypeOK ==
    /\ now \in 0 .. MaxTime
    /\ revision \in [Versions -> Contents \cup {None}]
    /\ head \in [Versions -> 0 .. MaxSequence]
    /\ log \in [Versions -> [Sequences -> Transition \cup {None}]]
    /\ provisioned \subseteq Admissions
    /\ alias \in Pin \cup {None}
    /\ session \in [Sessions -> SessionState]
    /\ request \in [Requests -> RequestState]
    /\ never \in [Requests -> BOOLEAN]

Init ==
    /\ now = 0
    /\ revision = [v \in Versions |-> None]
    /\ head = [v \in Versions |-> 0]
    /\ log = [v \in Versions |-> [s \in Sequences |-> None]]
    /\ provisioned = {} /\ alias = None
    /\ session = [s \in Sessions |-> Idle]
    /\ request = [r \in Requests |-> Idle]
    /\ never = [r \in Requests |-> TRUE]

-----------------------------------------------------------------------------
(* What the records say *)

Latest == IF \E v \in Versions : revision[v] # None
          THEN CHOOSE v \in Versions : /\ revision[v] # None
                                       /\ \A w \in Versions : w > v => revision[w] = None
          ELSE 0

\* validate_admission: unexpired, for this exact revision and its digest.
Covers_AnyDigest(a, v) == now < a.expires /\ a.version = v
Covers(a, v) == now < a.expires /\ a.version = v /\ a.content = revision[v]

\* validate_alias
Pinned(pin) == revision[pin.version] = pin.content

\* authorize_sandbox over the transition record t of revision v.
Enabled_NotExpiring(t, v) == t.status = "sandbox_enabled" /\ t.admission \in provisioned
Enabled(t, v) ==
    /\ t.status = "sandbox_enabled" /\ t.admission \in provisioned
    /\ Covers(t.admission, v)

\* The revision is enabled by an unexpired admission at this moment.
Live(v) ==
    /\ head[v] > 0 /\ log[v][head[v]].status = "sandbox_enabled"
    /\ now < log[v][head[v]].admission.expires
AliasLive == alias # None /\ Live(alias.version)
Watch == never' = [r \in Requests |-> never[r] /\ ~AliasLive']

-----------------------------------------------------------------------------
(* Operator and clock *)

Tick ==
    /\ now < MaxTime /\ now' = now + 1
    /\ UNCHANGED <<stored, session, request>>
    /\ Watch

\* compose_execution appends the registry's admissions when a server starts.
Provision(a) ==
    /\ a \notin provisioned
    /\ provisioned' = provisioned \cup {a}
    /\ UNCHANGED <<now, revision, head, log, alias, session, request>>
    /\ Watch

-----------------------------------------------------------------------------
(* Revisions: create_policy, propose_edit and create_variant end here *)

Goto(s, state) == session' = [session EXCEPT ![s] = state]

\* create_policy checks the plan and the pinned catalog, _append_policy reads the latest
\* revision; a revision that skips one is refused (409).
Sequential(v) == v <= Latest + 1
ReadLatest(s) ==
    /\ session[s] = Idle
    /\ \E v \in Versions, c \in Covered :
        /\ Sequential(v)
        /\ Goto(s, [op |-> "create", version |-> v, content |-> c, latest |-> Latest])
    /\ UNCHANGED <<now, stored, request, never>>

\* append: the same payload again is not an error, another one is (409); only the revision
\* after the one read gets a draft transition and a head, whose row may exist already (409).
AppendRevision_Replaces(v, c) == revision' = [revision EXCEPT ![v] = c]
AppendRevision(v, c) == revision[v] \in {None, c} /\ revision' = [revision EXCEPT ![v] = c]

IsNew_FirstOnly(v, latest) == v = 1 /\ latest = 0
IsNew(v, latest) == v = latest + 1
Draft == [status |-> "draft", admission |-> None]
CommitRevision(s) ==
    /\ session[s].op = "create"
    /\ LET v == session[s].version IN
        /\ AppendRevision(v, session[s].content)
        /\ \/ /\ IsNew(v, session[s].latest) /\ head[v] = 0
              /\ head' = [head EXCEPT ![v] = 1]
              /\ log' = [log EXCEPT ![v][1] = Draft]
           \/ ~IsNew(v, session[s].latest) /\ UNCHANGED <<head, log>>
    /\ Goto(s, Idle)
    /\ UNCHANGED <<now, provisioned, alias, request>>
    /\ Watch

-----------------------------------------------------------------------------
(* Transitions *)

\* transition: policy() reads the head and its record; the request must name that
\* sequence and a different status.  Only disabling is decided here.
MayDisable_Again(v, prior) == head[v] = prior
MayDisable(v, prior) == head[v] = prior /\ log[v][prior].status # "disabled"
ReadDisable(s) ==
    /\ session[s] = Idle
    /\ \E v \in Versions, prior \in Sequences :
        /\ revision[v] # None /\ MayDisable(v, prior) /\ prior < MaxSequence
        /\ Goto(s, [op |-> "commit", version |-> v, prior |-> prior,
                    value |-> [status |-> "disabled", admission |-> None]])
    /\ UNCHANGED <<now, stored, request, never>>

ReadEnable(s) ==
    /\ session[s] = Idle
    /\ \E v \in Versions, prior \in Sequences, a \in Admissions :
        /\ revision[v] # None /\ head[v] = prior /\ prior < MaxSequence
        /\ log[v][prior].status # "sandbox_enabled"
        /\ Goto(s, [op |-> "enable", version |-> v, prior |-> prior, admission |-> a])
    /\ UNCHANGED <<now, stored, request, never>>

\* The admission is read and validated at a later moment.
Admit(s) ==
    /\ session[s].op = "enable"
    /\ session[s].admission \in provisioned
    /\ Covers(session[s].admission, session[s].version)
    /\ Goto(s, [op |-> "commit", version |-> session[s].version, prior |-> session[s].prior,
                value |-> [status |-> "sandbox_enabled", admission |-> session[s].admission]])
    /\ UNCHANGED <<now, stored, request, never>>

\* UPDATE sandbox_heads ... WHERE sequence=:prior, then the record, in one transaction.
HeadIs_Ignored(v, prior) == TRUE
HeadIs(v, prior) == head[v] = prior
CommitTransition(s) ==
    /\ session[s].op = "commit"
    /\ LET v == session[s].version
           next == session[s].prior + 1 IN
        /\ HeadIs(v, session[s].prior)
        /\ head' = [head EXCEPT ![v] = next]
        /\ log' = [log EXCEPT ![v][next] = session[s].value]
    /\ Goto(s, Idle)
    /\ UNCHANGED <<now, revision, provisioned, alias, request>>
    /\ Watch

\* 403, 404, 409 at any of these steps, or the client's own end: nothing was written.
Refused(s) ==
    /\ session[s] # Idle
    /\ Goto(s, Idle)
    /\ UNCHANGED <<now, stored, request, never>>

-----------------------------------------------------------------------------
(* The alias *)

ReadAliasPolicy(s) ==
    /\ session[s] = Idle
    /\ \E pin \in Pin : Pinned(pin) /\ Goto(s, [op |-> "alias", pin |-> pin])
    /\ UNCHANGED <<now, stored, request, never>>

CommitAlias_Moves(s) ==
    /\ session[s].op = "alias" /\ alias' = session[s].pin
    /\ Goto(s, Idle)
    /\ UNCHANGED <<now, revision, head, log, provisioned, request>>
    /\ Watch
CommitAlias(s) ==
    /\ session[s].op = "alias"
    /\ alias \in {None, session[s].pin} /\ alias' = session[s].pin
    /\ Goto(s, Idle)
    /\ UNCHANGED <<now, revision, head, log, provisioned, request>>
    /\ Watch

-----------------------------------------------------------------------------
(* The data plane *)

Answer(r, state) == request' = [request EXCEPT ![r] = state]

Arrive(r) ==
    /\ request[r] = Idle
    /\ Answer(r, [op |-> "arrived"])
    /\ never' = [never EXCEPT ![r] = ~AliasLive]
    /\ UNCHANGED <<now, stored, session>>

\* store.alias, store.policy: the revision, then the head.
ReadHead(r) ==
    /\ request[r].op = "arrived"
    /\ \/ alias = None /\ Answer(r, [op |-> "denied"])
       \/ alias # None /\ Answer(r, [op |-> "head", pin |-> alias, seq |-> head[alias.version]])
    /\ UNCHANGED <<now, stored, session, never>>

\* The transition record at that head, its admission, then authorize_sandbox.
Authorize(r) ==
    /\ request[r].op = "head"
    /\ LET pin == request[r].pin
           t == log[pin.version][request[r].seq] IN
        \/ Enabled(t, pin.version) /\ Answer(r, [op |-> "authorized", pin |-> pin])
        \/ ~Enabled(t, pin.version) /\ Answer(r, [op |-> "denied"])
    /\ UNCHANGED <<now, stored, session, never>>

Next ==
    \/ Tick \/ \E a \in Admissions : Provision(a)
    \/ \E s \in Sessions :
        \/ ReadLatest(s) \/ CommitRevision(s)
        \/ ReadDisable(s) \/ ReadEnable(s) \/ Admit(s) \/ CommitTransition(s)
        \/ ReadAliasPolicy(s) \/ CommitAlias(s) \/ Refused(s)
    \/ \E r \in Requests : Arrive(r) \/ ReadHead(r) \/ Authorize(r)

Spec == Init /\ [][Next]_vars

-----------------------------------------------------------------------------
(* Properties *)

\* Revisions are numbered without a gap, and each one that exists has a head (create and
\* its draft transition commit together, whatever other sessions create meanwhile).
SequentialRevisions ==
    \A v \in Versions :
        /\ revision[v] # None <=> head[v] > 0
        /\ v > 1 /\ revision[v] # None => revision[v - 1] # None

\* The audit trail of a revision: one record for every sequence up to the head and none
\* beyond, a draft first, and every record changes the status the one before it left. Two
\* sessions that decided on the same state do not both take effect.
GaplessHistory ==
    \A v \in Versions, s \in Sequences :
        /\ log[v][s] # None <=> s <= head[v]
        /\ log[v][s] # None =>
            IF s = 1 THEN log[v][s] = Draft
            ELSE log[v][s].status \notin {"draft", log[v][s - 1].status}

\* A revision is only ever enabled by an admission the operator provisioned for exactly
\* that revision with exactly that content.
EnabledWasAdmitted ==
    \A v \in Versions, s \in Sequences :
        log[v][s] # None /\ log[v][s].status = "sandbox_enabled" =>
            /\ log[v][s].admission \in provisioned
            /\ log[v][s].admission.version = v
            /\ log[v][s].admission.content = revision[v]

\* A request is authorized only if its revision was live at some moment since it arrived:
\* a disable or an expiry that took effect before the request is always seen, although
\* the alias, the head, the record and the admission are read one after the other.
AuthorizedWasLive == \A r \in Requests : request[r].op = "authorized" => ~never[r]

\* What a request is authorized for is what the alias pins, revision and content.
AuthorizedAsPinned ==
    \A r \in Requests :
        request[r].op = "authorized" => request[r].pin = alias /\ Pinned(request[r].pin)

\* The history of a policy is complete, and only what it enables is authorized.
PolicySafety ==
    /\ TypeOK /\ SequentialRevisions /\ GaplessHistory /\ EnabledWasAdmitted
    /\ AuthorizedWasLive /\ AuthorizedAsPinned

\* Revisions, transition records and the alias pin never change once written.
RecordsKept ==
    /\ \A v \in Versions : revision[v] # None => revision'[v] = revision[v]
    /\ \A v \in Versions, s \in Sequences : log[v][s] # None => log'[v][s] = log[v][s]
    /\ alias # None => alias' = alias
Immutable == [][RecordsKept]_vars
=============================================================================
