---------------------------- MODULE AuthSession ----------------------------
(***************************************************************************)
(* Token sessions: POST /auth/login, /auth/refresh and /auth/logout, i.e.  *)
(* AuthService.login, refresh and logout over the refresh_tokens table,    *)
(* together with the committed effect that the account and membership      *)
(* handlers have on what they read.                                        *)
(*                                                                         *)
(* A request is a coroutine with a database session of its own.  It gives  *)
(* up control at every await, so each database statement is one action and *)
(* requests interleave between statements.  PostgreSQL runs the sessions   *)
(* at READ COMMITTED: a SELECT sees what is committed when it runs, an     *)
(* INSERT or UPDATE is seen by others when its transaction commits, and an *)
(* UPDATE keeps its row locked until then.                                 *)
(*                                                                         *)
(* One request inserts at most one row of refresh_tokens, so the request   *)
(* stands for the row's uuid4 key.                                         *)
(***************************************************************************)
EXTENDS Integers

CONSTANTS
    Requests,    \* requests the service receives; each runs once
    Users,       \* rows of users, known by their unique email
    Tenants,     \* rows of tenants
    NoTenant,    \* tenant_id IS NULL
    None,        \* no row, no token, no pick
    RefreshTTL,  \* jwt_refresh_expire_days, in clock ticks
    MaxTime      \* bound of the model: the clock stops here

ASSUME NoTenantAssumption == NoTenant \notin Tenants
ASSUME TimeAssumption == RefreshTTL \in Nat /\ MaxTime \in Nat

VARIABLES
    now,             \* wall clock in whole seconds, the resolution of a JWT's exp
    account,         \* users: is_active, or the row is gone
    membership,      \* tenant_members rows: none, active, or is_active = FALSE
    refresh_tokens,  \* the table: row key -> row, None where there is no row
    pc,              \* where each request is
    call,            \* the request's endpoint and arguments
    picked,          \* the row the request's SELECT returned (token_record)
    issued,          \* the refresh token the request created
    preceding,       \* history: requests answered 200 before this one arrived
    barred           \* history: requests for a membership already removed on arrival

db   == <<account, membership, refresh_tokens>>
vars == <<now, account, membership, refresh_tokens, pc, call, picked, issued,
          preceding, barred>>

Scope == Tenants \cup {NoTenant}

\* A refresh JWT.  Signature and type claim are checked by decode_token; what
\* is left are the claims, and the claims are ALL there is: no jti, no iat.
\* Two tokens for one user and tenant made within a second are one string.
Token == [sub : Users, tenant : Scope, exp : Nat]

\* A row.  user_id, tenant_id and expires_at hold what the token's claims say,
\* and token_hash = sha256(token) is injective on tokens.
Row == [token : Token, revoked : BOOLEAN]

ASSUME NoneAssumption == None \notin Row

Call == [op : {"login", "refresh", "logout"}, sub : Users, tenant : Scope,
         token : Token \cup {None}]

Working  == {"login", "decode", "select", "member", "issue", "rotate", "revoke",
             "commit"}
Answered == {"ok", "refused"}
Finished == Answered \cup {"failed"}

Goto(r, label) == pc' = [pc EXCEPT ![r] = label]

\* Mutant of NewToken: the lifetime is subtracted.
NewTokenBackdated(u, t) == [sub |-> u, tenant |-> t, exp |-> now - RefreshTTL]

\* create_refresh_token: exp = now + ttl.
NewToken(u, t) == [sub |-> u, tenant |-> t, exp |-> now + RefreshTTL]

\* The token strings clients hold: those a login or a refresh answered with.
Handed == {issued[q] : q \in {p \in Requests : pc[p] = "ok" /\ issued[p] # None}}

\* Between its flush and its commit a refresh keeps the row it spends locked.
Locked(i) == \E q \in Requests : pc[q] = "commit" /\ picked[q] = i

-----------------------------------------------------------------------------
Init ==
    /\ now = 0
    /\ account = [u \in Users |-> "active"]
    /\ membership = [m \in Users \X Tenants |-> "none"]
    /\ refresh_tokens = [i \in Requests |-> None]
    /\ pc = [r \in Requests |-> "idle"]
    /\ call = [r \in Requests |-> None]
    /\ picked = [r \in Requests |-> None]
    /\ issued = [r \in Requests |-> None]
    /\ preceding = [r \in Requests |-> {}]
    /\ barred = {}

Arrive(r, c) ==
    /\ pc[r] = "idle"
    /\ call' = [call EXCEPT ![r] = c]
    /\ preceding' = [preceding EXCEPT ![r] = {q \in Requests : pc[q] = "ok"}]
    /\ barred' = IF c.tenant \in Tenants /\ membership[<<c.sub, c.tenant>>] = "removed"
                 THEN barred \cup {r} ELSE barred
    /\ UNCHANGED <<now, db, picked, issued>>

\* POST /auth/login; X-Tenant-ID names the tenant.
ArriveLogin(r, u, t) ==
    /\ Goto(r, "login")
    /\ Arrive(r, [op |-> "login", sub |-> u, tenant |-> t, token |-> None])

\* POST /auth/refresh and /auth/logout with a token the service handed out.
ArriveWithToken(r, op, tok) ==
    /\ Goto(r, "decode")
    /\ Arrive(r, [op |-> op, sub |-> tok.sub, tenant |-> tok.tenant, token |-> tok])

-----------------------------------------------------------------------------
\* login: SELECT the user, check is_active; a tenant asks for a membership.
LoginCheckUser(r) ==
    /\ pc[r] = "login"
    /\ \/ Goto(r, "refused")           \* unknown email or wrong password
       \/ /\ account[call[r].sub] = "inactive"
          /\ Goto(r, "refused")
       \/ /\ account[call[r].sub] = "active"
          /\ Goto(r, IF call[r].tenant = NoTenant THEN "issue" ELSE "member")
    /\ UNCHANGED <<now, db, call, picked, issued, preceding, barred>>

\* Mutant of CheckMember: the query drops TenantMember.is_active.
CheckMemberAnyRow(r) ==
    /\ pc[r] = "member"
    /\ Goto(r, IF membership[<<call[r].sub, call[r].tenant>>] = "none" THEN "refused"
               ELSE IF call[r].op = "login" THEN "issue"
               ELSE "rotate")
    /\ UNCHANGED <<now, db, call, picked, issued, preceding, barred>>

\* _require_active_tenant_membership, called by login and by refresh.
CheckMember(r) ==
    /\ pc[r] = "member"
    /\ Goto(r, IF membership[<<call[r].sub, call[r].tenant>>] # "active" THEN "refused"
               ELSE IF call[r].op = "login" THEN "issue"
               ELSE "rotate")
    /\ UNCHANGED <<now, db, call, picked, issued, preceding, barred>>

\* Mutant of LoginIssue: refresh_tokens.user_id without its foreign key.
LoginIssueNoForeignKey(r) ==
    /\ pc[r] = "issue"
    /\ Goto(r, "commit")
    /\ issued' = [issued EXCEPT ![r] = NewToken(call[r].sub, call[r].tenant)]
    /\ UNCHANGED <<now, db, call, picked, preceding, barred>>

\* login: issue_token_pair flushes the INSERT; its foreign key fails when the
\* user's row has gone, and otherwise holds that row until the commit.
LoginIssue(r) ==
    /\ pc[r] = "issue"
    /\ \/ /\ account[call[r].sub] = "deleted"
          /\ Goto(r, "failed")
          /\ UNCHANGED issued
       \/ /\ account[call[r].sub] # "deleted"
          /\ Goto(r, "commit")
          /\ issued' = [issued EXCEPT ![r] = NewToken(call[r].sub, call[r].tenant)]
    /\ UNCHANGED <<now, db, call, picked, preceding, barred>>

CommitLogin(r) ==
    /\ pc[r] = "commit"
    /\ call[r].op = "login"
    /\ refresh_tokens' = [refresh_tokens EXCEPT ![r] = [token |-> issued[r], revoked |-> FALSE]]
    /\ Goto(r, "ok")
    /\ UNCHANGED <<now, account, membership, call, picked, issued, preceding, barred>>

-----------------------------------------------------------------------------
\* decode_token: PyJWT refuses a token whose exp is not after now.
DecodeToken(r) ==
    /\ pc[r] = "decode"
    /\ Goto(r, IF call[r].token.exp > now THEN "select" ELSE "refused")
    /\ UNCHANGED <<now, db, call, picked, issued, preceding, barred>>

\* Mutant of Matching: the query drops revoked_at IS NULL.
MatchingRevokedToo(r) ==
    {i \in Requests : refresh_tokens[i] # None /\ refresh_tokens[i].token = call[r].token}

\* The rows the SELECT of refresh and logout may return: token_hash has no
\* unique index, so there may be several, and scalar() takes any one of them.
Matching(r) ==
    {i \in Requests : /\ refresh_tokens[i] # None
                      /\ refresh_tokens[i].token = call[r].token
                      /\ ~ refresh_tokens[i].revoked}

\* SELECT the unrevoked row; refresh also checks expires_at, which keeps the
\* fraction of a second that exp drops: in the second exp names, either result.
SelectToken(r) ==
    /\ pc[r] = "select"
    /\ \/ \E i \in Matching(r) :
              /\ call[r].op = "refresh" => call[r].token.exp >= now
              /\ picked' = [picked EXCEPT ![r] = i]
              /\ Goto(r, IF call[r].op = "logout" THEN "revoke"
                         ELSE IF call[r].tenant = NoTenant THEN "rotate"
                         ELSE "member")
       \/ /\ \/ Matching(r) = {}
             \/ call[r].op = "refresh" /\ call[r].token.exp <= now
          /\ Goto(r, "refused")
          /\ UNCHANGED picked
    /\ UNCHANGED <<now, db, call, issued, preceding, barred>>

\* Mutant of RotateToken: waits for a row that has gone.
RotateTokenNoStaleError(r) ==
    /\ pc[r] = "rotate"
    /\ ~ Locked(picked[r])
    /\ refresh_tokens[picked[r]] # None
    /\ Goto(r, "commit")
    /\ issued' = [issued EXCEPT ![r] = NewToken(call[r].sub, call[r].tenant)]
    /\ UNCHANGED <<now, db, call, picked, preceding, barred>>

\* Mutant of RotateToken: the new pair is issued without the tenant.
RotateTokenUnscoped(r) ==
    /\ pc[r] = "rotate"
    /\ ~ Locked(picked[r])
    /\ \/ /\ refresh_tokens[picked[r]] = None
          /\ Goto(r, "failed")
          /\ UNCHANGED issued
       \/ /\ refresh_tokens[picked[r]] # None
          /\ Goto(r, "commit")
          /\ issued' = [issued EXCEPT ![r] = NewToken(call[r].sub, NoTenant)]
    /\ UNCHANGED <<now, db, call, picked, preceding, barred>>

\* refresh: flush revoked_at on the picked row (waiting for its lock; an UPDATE
\* of a row deleted meanwhile matches nothing and raises), then issue_token_pair.
RotateToken(r) ==
    /\ pc[r] = "rotate"
    /\ ~ Locked(picked[r])
    /\ \/ /\ refresh_tokens[picked[r]] = None
          /\ Goto(r, "failed")
          /\ UNCHANGED issued
       \/ /\ refresh_tokens[picked[r]] # None
          /\ Goto(r, "commit")
          /\ issued' = [issued EXCEPT ![r] = NewToken(call[r].sub, call[r].tenant)]
    /\ UNCHANGED <<now, db, call, picked, preceding, barred>>

\* Mutant of CommitRefresh: the old row is not revoked.
CommitRefreshNoRevoke(r) ==
    /\ pc[r] = "commit"
    /\ call[r].op = "refresh"
    /\ refresh_tokens' = [refresh_tokens EXCEPT ![r] = [token |-> issued[r], revoked |-> FALSE]]
    /\ Goto(r, "ok")
    /\ UNCHANGED <<now, account, membership, call, picked, issued, preceding, barred>>

\* The revocation and the new row become visible together.
CommitRefresh(r) ==
    /\ pc[r] = "commit"
    /\ call[r].op = "refresh"
    /\ refresh_tokens' = [refresh_tokens EXCEPT
           ![picked[r]].revoked = TRUE,
           ![r] = [token |-> issued[r], revoked |-> FALSE]]
    /\ Goto(r, "ok")
    /\ UNCHANGED <<now, account, membership, call, picked, issued, preceding, barred>>

\* Mutant of RevokeToken: revoked_at is set but never committed.
RevokeTokenNoCommit(r) ==
    /\ pc[r] = "revoke"
    /\ ~ Locked(picked[r])
    /\ Goto(r, "ok")
    /\ UNCHANGED <<now, db, call, picked, issued, preceding, barred>>

\* logout: the UPDATE is flushed by the commit itself.
RevokeToken(r) ==
    /\ pc[r] = "revoke"
    /\ ~ Locked(picked[r])
    /\ \/ /\ refresh_tokens[picked[r]] = None
          /\ Goto(r, "failed")
          /\ UNCHANGED refresh_tokens
       \/ /\ refresh_tokens[picked[r]] # None
          /\ refresh_tokens' = [refresh_tokens EXCEPT ![picked[r]].revoked = TRUE]
          /\ Goto(r, "ok")
    /\ UNCHANGED <<now, account, membership, call, picked, issued, preceding, barred>>

\* Any exception before the commit (lost connection, cancelled task, killed
\* process, the victim of a deadlock) closes the session, which rolls the transaction back.
Fail(r) ==
    /\ pc[r] \in Working
    /\ Goto(r, "failed")
    /\ UNCHANGED <<now, db, call, picked, issued, preceding, barred>>

-----------------------------------------------------------------------------
\* PATCH /admin/users/{id}: the commit of update_user setting is_active.
UpdateUser(u, active) ==
    /\ account[u] \notin {"deleted", active}
    /\ account' = [account EXCEPT ![u] = active]
    /\ UNCHANGED <<now, membership, refresh_tokens, pc, call, picked, issued,
                   preceding, barred>>

\* DELETE /admin/users/{id}: the commit of delete_user.  The ORM deletes the
\* user's refresh_tokens and tenant_members, and the DELETE waits for every
\* transaction that holds one of those rows or a foreign key to the user.  (An
\* owner of a tenant cannot be deleted, owner_id being NOT NULL: users here own none.
\* What goes with a tenant that is founded after delete_user has looked for owned
\* ones, refresh_tokens.tenant_id of other users among it, is left out.)
DeleteUser(u) ==
    /\ account[u] # "deleted"
    /\ \A q \in Requests : ~ (pc[q] = "commit" /\ call[q].sub = u)
    /\ account' = [account EXCEPT ![u] = "deleted"]
    /\ membership' = [m \in Users \X Tenants |-> IF m[1] = u THEN "none" ELSE membership[m]]
    /\ refresh_tokens' = [i \in Requests |->
           IF refresh_tokens[i] # None /\ refresh_tokens[i].token.sub = u
           THEN None ELSE refresh_tokens[i]]
    /\ UNCHANGED <<now, pc, call, picked, issued, preceding, barred>>

\* The commit that inserts a membership: create_tenant's or accept_invitation's.
\* uq_tenant_members_tenant_id_user_id refuses a second row, removed or not.
AddMember(u, t) ==
    /\ account[u] # "deleted"
    /\ membership[<<u, t>>] = "none"
    /\ membership' = [membership EXCEPT ![<<u, t>>] = "active"]
    /\ UNCHANGED <<now, account, refresh_tokens, pc, call, picked, issued,
                   preceding, barred>>

\* The commit of remove_member: is_active = FALSE.
RemoveMember(u, t) ==
    /\ membership[<<u, t>>] = "active"
    /\ membership' = [membership EXCEPT ![<<u, t>>] = "removed"]
    /\ UNCHANGED <<now, account, refresh_tokens, pc, call, picked, issued,
                   preceding, barred>>

Tick ==
    /\ now < MaxTime
    /\ now' = now + 1
    /\ UNCHANGED <<db, pc, call, picked, issued, preceding, barred>>

\* Every request has been answered; nothing is left to serve.
Quiescent == (\A r \in Requests : pc[r] \in Finished) /\ UNCHANGED vars

-----------------------------------------------------------------------------
Arrivals(r) ==
    \/ \E u \in Users, t \in Scope : ArriveLogin(r, u, t)
    \/ \E op \in {"refresh", "logout"}, tok \in Handed : ArriveWithToken(r, op, tok)

Serve(r) ==
    \/ LoginCheckUser(r)
    \/ CheckMember(r)
    \/ LoginIssue(r)
    \/ CommitLogin(r)
    \/ DecodeToken(r)
    \/ SelectToken(r)
    \/ RotateToken(r)
    \/ CommitRefresh(r)
    \/ RevokeToken(r)

Accounts ==
    \/ \E u \in Users, active \in {"active", "inactive"} : UpdateUser(u, active)
    \/ \E u \in Users : DeleteUser(u)
    \/ \E u \in Users, t \in Tenants : AddMember(u, t) \/ RemoveMember(u, t)

Next ==
    \/ \E r \in Requests : Arrivals(r) \/ Serve(r) \/ Fail(r)
    \/ Accounts
    \/ Tick
    \/ Quiescent

Spec == Init /\ [][Next]_vars

\* The event loop resumes every coroutine and PostgreSQL answers every statement.
FairSpec == Spec /\ \A r \in Requests : WF_vars(Serve(r))

-----------------------------------------------------------------------------
\* The request answered 200 after revoking the row it picked.
Spent(r) == pc[r] = "ok" /\ call[r].op \in {"refresh", "logout"}

\* The request answered 200 with a new pair for a session it was shown.
Refreshed(r) == pc[r] = "ok" /\ call[r].op = "refresh"

\* Every variable ranges over what the columns and locals can hold, and a
\* request that reached a statement has the locals that statement uses.
TypeOK ==
    /\ now \in 0 .. MaxTime
    /\ account \in [Users -> {"active", "inactive", "deleted"}]
    /\ membership \in [Users \X Tenants -> {"none", "active", "removed"}]
    /\ refresh_tokens \in [Requests -> Row \cup {None}]
    /\ pc \in [Requests -> {"idle"} \cup Working \cup Finished]
    /\ call \in [Requests -> Call \cup {None}]
    /\ picked \in [Requests -> Requests \cup {None}]
    /\ issued \in [Requests -> Token \cup {None}]
    /\ preceding \in [Requests -> SUBSET Requests]
    /\ barred \subseteq Requests

\* A row of refresh_tokens that one answered request has spent (rotated it or
\* logged it out) is never spent again by a request that arrived afterwards:
\* only requests in flight together can spend one row twice (SelectToken reads
\* the row before RotateToken locks it).
NoLateSpend ==
    \A r, q \in Requests :
        Spent(r) /\ Spent(q) /\ q \in preceding[r] => picked[r] # picked[q]

\* A rotation is all or nothing: whoever was answered with a new pair has had
\* the old row revoked, and no row is revoked except by a request that got to
\* its commit, so an aborted refresh never leaves the user without a session.
RotationAtomic ==
    /\ \A r \in Requests :
           Spent(r) /\ refresh_tokens[picked[r]] # None => refresh_tokens[picked[r]].revoked
    /\ \A i \in Requests :
           refresh_tokens[i] # None /\ refresh_tokens[i].revoked
               => \E q \in Requests : Spent(q) /\ picked[q] = i

\* Once a member has been removed from a tenant, no login and no refresh that
\* arrives later issues a token for that tenant, however old the session is.
NoTokenAfterRemoval ==
    \A r \in barred : pc[r] = "ok" => call[r].op = "logout"

\* No session row outlives its user: the foreign key, the ORM cascade of
\* delete_user and the locks of logins and refreshes in flight leave no gap.
NoOrphanSession ==
    \A i \in Requests :
        refresh_tokens[i] # None => account[refresh_tokens[i].token.sub] # "deleted"

\* A refresh token a logout has been answered for works afterwards only if the
\* service had given that same string to two sessions before: the one the refresh
\* itself begins, which in the same second has that string too, is not counted.
LogoutEndsTheSession ==
    \A r, q \in Requests :
        /\ Refreshed(r)
        /\ q \in preceding[r]
        /\ call[q].op = "logout"
        /\ call[q].token = call[r].token
        => \E i, j \in Requests \ {r} :
               /\ i # j
               /\ issued[i] = call[r].token
               /\ issued[j] = call[r].token

\* Seen through the sessions instead of the rows and the tokens, the endpoints do
\* what Sessions says: however the statements of logins, refreshes, logouts and
\* deletions interleave, a session is opened, continued and ended on a claim that
\* was good when it was made, for the user and the tenant it began with.
SessionOf(i) ==
    IF refresh_tokens[i] # None
    THEN [user |-> refresh_tokens[i].token.sub, tenant |-> refresh_tokens[i].token.tenant,
          state |-> IF refresh_tokens[i].revoked THEN "ended" ELSE "open"]
    ELSE IF pc[i] = "ok" /\ call[i].op # "logout"
    THEN [user |-> call[i].sub, tenant |-> call[i].tenant, state |-> "gone"]
    ELSE None

ClaimOf(r) ==
    IF pc[r] \in {"member", "issue", "rotate", "revoke", "commit"}
    THEN [op |-> call[r].op, user |-> call[r].sub, tenant |-> call[r].tenant,
          session |-> picked[r], state |-> IF pc[r] = "member" THEN "asked" ELSE "cleared"]
    ELSE None

Promise == INSTANCE Sessions
    WITH sessions <- [i \in Requests |-> SessionOf(i)],
         claims   <- [r \in Requests |-> ClaimOf(r)]

ASSUME PromiseAssumption == None \notin Promise!Session \cup Promise!Claim

ImplementsSessions == Promise!Spec

\* Every request that is begun is answered: requests that wait for each other's
\* rows, and rows that go while they are waited for, hold nobody up for ever.
RequestsAnswered == \A r \in Requests : pc[r] \in Working ~> pc[r] \in Finished

\* README, endpoint table: "Logout (invalidates refresh token)".  After a logout
\* was answered 200 for a token, no later refresh accepts that token.
LogoutInvalidatesToken ==
    \A r, q \in Requests :
        /\ Refreshed(r)
        /\ q \in preceding[r]
        /\ call[q].op = "logout"
        => call[q].token # call[r].token
=============================================================================
