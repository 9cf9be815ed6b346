--------------------------- MODULE ApplicationKeys ---------------------------
(***************************************************************************)
(* Application keys: ApplicationKeys.issue, authenticate, check and revoke *)
(* (gateway/keys.py) over the records of execution_storage.py, and the     *)
(* HTTP context that carries an authenticated key (execution_api.context). *)
(*                                                                         *)
(* A key's record is a chain of immutable versions: issuing appends the    *)
(* first together with the verifier and the key's budget, revoking appends *)
(* the next one.  Two revocations of a key may run concurrently.  Chat     *)
(* requests authenticate with a bearer secret and are checked again        *)
(* against the newest version before every provider call.                  *)
(***************************************************************************)
EXTENDS Naturals

CONSTANTS
    Keys,        \* key identifiers (random, never reused)
    Aliases,     \* route aliases that may be granted
    Sessions,    \* studio and key-bearing callers of the key routes
    Requests,    \* chat requests
    MaxTime      \* bound: clock

VARIABLES
    now,
    pinned,      \* aliases that exist
    record,      \* versions of each key's record, a function from 1 .. n
    verifier,    \* keys with an application_key_verifiers row
    budget,      \* keys with a budget row "key-<id>"
    session, request,
    acknowledged \* history: keys whose revocation some caller was told of

rows == <<pinned, record, verifier, budget>>
vars == <<now, rows, session, request, acknowledged>>

-----------------------------------------------------------------------------
Record == [grants : SUBSET Aliases, expires : 0 .. MaxTime + 1, revoked : BOOLEAN]
Written(k) == DOMAIN record[k]
Latest(k) == CHOOSE v \in Written(k) : \A w \in Written(k) : w <= v
Newest(k) == record[k][Latest(k)]

Idle == [op |-> "idle"]
SessionState ==
    {Idle} \cup [op : {"issue"}, key : Keys, grants : SUBSET Aliases, expires : 1 .. MaxTime + 1]
           \cup [op : {"revoke"}, key : Keys, version : 1 .. 2]
RequestState ==
    {Idle, [op |-> "denied"]}
    \cup [op : {"bearer"}, key : Keys, genuine : BOOLEAN, alias : Aliases, late : BOOLEAN]
    \cup [op : {"context", "checked"}, key : Keys, alias : Aliases, late : BOOLEAN]

TypeOK ==
    /\ now \in 0 .. MaxTime /\ pinned \subseteq Aliases
    /\ \A k \in Keys : /\ Written(k) \in {{}, {1}, {1, 2}}
                       /\ \A v \in Written(k) : record[k][v] \in Record
    /\ verifier \subseteq Keys /\ budget \subseteq Keys
    /\ session \in [Sessions -> SessionState]
    /\ request \in [Requests -> RequestState]
    /\ acknowledged \subseteq Keys

Init ==
    /\ now = 0 /\ pinned = {}
    /\ record = [k \in Keys |-> [v \in {} |-> 0]]
    /\ verifier = {} /\ budget = {}
    /\ session = [s \in Sessions |-> Idle] /\ request = [r \in Requests |-> Idle]
    /\ acknowledged = {}

Tick ==
    /\ now < MaxTime /\ now' = now + 1
    /\ UNCHANGED <<rows, session, request, acknowledged>>

CreateAlias(a) ==
    /\ a \notin pinned /\ pinned' = pinned \cup {a}
    /\ UNCHANGED <<now, record, verifier, budget, session, request, acknowledged>>

-----------------------------------------------------------------------------
(* Issuing *)

Goto(s, state) == session' = [session EXCEPT ![s] = state]

\* issue: a studio context only, and every alias must exist.
Grantable(grants) == grants \subseteq pinned
BeginIssue(s) ==
    /\ session[s] = Idle
    /\ \E k \in Keys, grants \in SUBSET Aliases, e \in 1 .. MaxTime + 1 :
        /\ Written(k) = {} /\ \A t \in Sessions : session[t].op = "issue" => session[t].key # k
        /\ Grantable(grants) /\ now < e
        /\ Goto(s, [op |-> "issue", key |-> k, grants |-> grants, expires |-> e])
    /\ UNCHANGED <<now, rows, request, acknowledged>>

\* save_application_key: the budget, the record and the verifier in one transaction.
SaveKey_BudgetLater(s) ==
    /\ session[s].op = "issue"
    /\ LET k == session[s].key IN
        /\ verifier' = verifier \cup {k} /\ budget' = budget
        /\ record' = [record EXCEPT ![k] = [v \in {1} |->
             [grants |-> session[s].grants, expires |-> session[s].expires, revoked |-> FALSE]]]
    /\ Goto(s, Idle)
    /\ UNCHANGED <<now, pinned, request, acknowledged>>
SaveKey(s) ==
    /\ session[s].op = "issue"
    /\ LET k == session[s].key IN
        /\ budget' = budget \cup {k} /\ verifier' = verifier \cup {k}
        /\ record' = [record EXCEPT ![k] = [v \in {1} |->
             [grants |-> session[s].grants, expires |-> session[s].expires, revoked |-> FALSE]]]
    /\ Goto(s, Idle)
    /\ UNCHANGED <<now, pinned, request, acknowledged>>

-----------------------------------------------------------------------------
(* Revoking *)

\* revoke_key reads the newest version; one that is revoked is returned as it is.
BeginRevoke(s) ==
    /\ session[s] = Idle
    /\ \E k \in Keys :
        /\ Written(k) # {}
        /\ \/ /\ Newest(k).revoked /\ acknowledged' = acknowledged \cup {k}
              /\ UNCHANGED session
           \/ /\ ~Newest(k).revoked /\ Goto(s, [op |-> "revoke", key |-> k, version |-> Latest(k)])
              /\ UNCHANGED acknowledged
    /\ UNCHANGED <<now, rows, request>>

\* It appends version + 1 with revoked_at, or finds that version written (409).  The
\* caller is told in either case that the key is revoked.
NextVersion_Reread(s) == Latest(session[s].key) + 1
NextVersion(s) == session[s].version + 1
Revoked_Fresh(old) == [grants |-> Aliases, expires |-> old.expires, revoked |-> TRUE]
Revoked(old) == [old EXCEPT !.revoked = TRUE]
Revoke(s) ==
    /\ session[s].op = "revoke"
    /\ LET k == session[s].key
           v == NextVersion(s) IN
        /\ acknowledged' = acknowledged \cup {k}
        /\ record' = IF v \in Written(k) THEN record
                     ELSE [record EXCEPT ![k] = [w \in Written(k) \cup {v} |->
                            IF w = v THEN Revoked(record[k][session[s].version]) ELSE record[k][w]]]
    /\ Goto(s, Idle)
    /\ UNCHANGED <<now, pinned, verifier, budget, request>>

\* The process of a session dies, or its caller goes away, before the write.
Abandon(s) ==
    /\ session[s] # Idle /\ Goto(s, Idle)
    /\ UNCHANGED <<now, rows, request, acknowledged>>

-----------------------------------------------------------------------------
(* Using *)

Answer(r, state) == request' = [request EXCEPT ![r] = state]

\* A bearer secret names a key; late marks a request that arrives after the caller of a
\* revocation got its answer.
Arrive(r) ==
    /\ request[r] = Idle
    /\ \E k \in Keys, a \in Aliases, g \in BOOLEAN :
        Answer(r, [op |-> "bearer", key |-> k, genuine |-> g, alias |-> a,
                   late |-> k \in acknowledged])
    /\ UNCHANGED <<now, rows, session, acknowledged>>

\* authorize_application_key over the newest version.
Authorized_FirstVersion(k, a) ==
    /\ Written(k) # {} /\ now < record[k][1].expires /\ a \in record[k][1].grants
Authorized(k, a) ==
    /\ Written(k) # {} /\ ~Newest(k).revoked /\ now < Newest(k).expires
    /\ a \in Newest(k).grants

\* authenticate: record and verifier must exist and the secret match; then the scopes.
Authenticate(r) ==
    /\ request[r].op = "bearer"
    /\ LET q == request[r] IN
        IF q.genuine /\ q.key \in verifier /\ Authorized(q.key, q.alias)
        THEN Answer(r, [op |-> "context", key |-> q.key, alias |-> q.alias, late |-> q.late])
        ELSE Answer(r, [op |-> "denied"])
    /\ UNCHANGED <<now, rows, session, acknowledged>>

\* check, before the request is registered and before each hold: the newest version again.
Check(r) ==
    /\ request[r].op \in {"context", "checked"}
    /\ IF Authorized(request[r].key, request[r].alias)
       THEN Answer(r, [request[r] EXCEPT !.op = "checked"])
       ELSE Answer(r, [op |-> "denied"])
    /\ UNCHANGED <<now, rows, session, acknowledged>>

Next ==
    \/ Tick \/ \E a \in Aliases : CreateAlias(a)
    \/ \E s \in Sessions : BeginIssue(s) \/ SaveKey(s) \/ BeginRevoke(s) \/ Revoke(s) \/ Abandon(s)
    \/ \E r \in Requests : Arrive(r) \/ Authenticate(r) \/ Check(r)

Spec == Init /\ [][Next]_vars

-----------------------------------------------------------------------------
(* Properties *)

\* Once anyone has been told that a key is revoked (by a success or by the 409 of a
\* concurrent revocation) it is revoked, and no request that arrives later gets a context.
RevocationIsFinal ==
    /\ \A k \in acknowledged : Newest(k).revoked
    /\ \A r \in Requests : request[r].op \in {"context", "checked"} => ~request[r].late

\* A key's authority never grows: every version grants what the first one did, and only
\* aliases that existed when it was issued.
AuthorityNeverGrows ==
    \A k \in Keys : \A v \in Written(k) :
        /\ record[k][v].grants = record[k][1].grants /\ record[k][v].expires = record[k][1].expires
        /\ record[k][v].grants \subseteq pinned

\* A key that can be used has a budget to be charged to and a verifier: issuing leaves no
\* part behind, also when its process dies.
KeyIsBudgeted == \A k \in Keys : Written(k) # {} => k \in budget /\ k \in verifier

\* A key is worth what it was issued for, until it is revoked.
KeySafety == TypeOK /\ RevocationIsFinal /\ AuthorityNeverGrows /\ KeyIsBudgeted

\* Two concurrent revocations write one version: the second finds it.
OneRevocation ==
    [][\A k \in Keys : /\ Written(k) \subseteq DOMAIN record'[k]
                       /\ \A v \in Written(k) : record'[k][v] = record[k][v]
                       /\ Written(k) # {} /\ Newest(k).revoked => record'[k] = record[k]]_vars
=============================================================================
