---------------------------- MODULE RequestGate ----------------------------
(***************************************************************************)
(* What a request passes before its handler: tenant_context_middleware,    *)
(* the rate limiter and get_current_user, in the order main.py gives them. *)
(* Around it members come and go as Membership says, which Tenancy is      *)
(* shown to implement, tenants are deactivated, users are deactivated,     *)
(* reactivated and deleted, and access tokens expire.                      *)
(*                                                                         *)
(* The middleware's two queries, in a session of its own, and the query of *)
(* get_current_user are separate actions; what is between them is not.     *)
(***************************************************************************)
EXTENDS Integers

CONSTANTS
    Requests,     \* each arrives once
    Tenants, Users, Invitations,
    None,         \* no header, no bearer token, no context
    Malformed     \* an X-Tenant-ID that is no UUID, a token that does not decode

VARIABLES
    standing,     \* <<tenant, user>> -> as in Membership
    offers,       \* invitation -> as in Membership
    deactivated,  \* tenants with is_active = FALSE
    users,        \* user -> "active", "inactive" or "gone"
    pc,           \* where the request is
    call,         \* its headers, and whether the endpoint is for users only
    expired,      \* requests whose access token has expired
    context,      \* request.state.tenant_id, once the middleware is through
    late          \* history: requests that came when it was too late (TooLate)

members == <<standing, offers>>
gate    == <<pc, call, context, late>>
vars    == <<members, deactivated, users, expired, gate>>

Membership == INSTANCE Membership

\* An access token carries its user and, from a login within a tenant, the tenant.
Token == [user : Users, tenant : Tenants \cup {None}]

Call == [header : Tenants \cup {None, Malformed},
         bearer : Token \cup {None, Malformed},
         guarded : BOOLEAN]

ASSUME NoneAssumption ==
    /\ {None, Malformed} \cap (Tenants \cup Token \cup Call) = {}
    /\ None # Malformed

Labels == {"idle", "middleware", "tenant", "member", "limit", "user", "inside",
           "refused", "crashed"}

Goto(r, label) == pc' = [pc EXCEPT ![r] = label]

\* decode_token: user and tenant of the bearer token, or nothing.
Decodes(r) == call[r].bearer \in Token /\ r \notin expired

\* token_tenant_id or header_tenant_id, for a token that decodes.
TenantOf(c) == IF c.bearer.tenant # None THEN c.bearer.tenant ELSE c.header

Exists(u) == users[u] # "gone"

\* Mutant of IsMember: the query names the tenant only.
IsMemberAnyUser(t, u) == \E v \in Users : standing[<<t, v>>] = "member" /\ Exists(v)

\* An active row of tenant_members; it goes with its user.
IsMember(t, u) == standing[<<t, u>>] = "member" /\ Exists(u)

\* Tenant and member cannot come back: a deactivated tenant, a removed member, a
\* deleted user.
TooLate(c) ==
    /\ c.bearer \in Token
    /\ \/ ~ Exists(c.bearer.user)
       \/ /\ TenantOf(c) \in Tenants
          /\ \/ TenantOf(c) \in deactivated
             \/ standing[<<TenantOf(c), c.bearer.user>>] = "removed"

-----------------------------------------------------------------------------
Init ==
    /\ Membership!Init
    /\ deactivated = {}
    /\ users = [u \in Users |-> "active"]
    /\ pc = [r \in Requests |-> "idle"]
    /\ call = [r \in Requests |-> None]
    /\ expired = {}
    /\ context = [r \in Requests |-> None]
    /\ late = {}

\* A token names a tenant only if its user was a member at the login.
Arrive(r, c) ==
    /\ pc[r] = "idle"
    /\ (c.bearer \in Token /\ c.bearer.tenant # None) =>
           standing[<<c.bearer.tenant, c.bearer.user>>] # "outsider"
    /\ Goto(r, "middleware")
    /\ call' = [call EXCEPT ![r] = c]
    /\ late' = IF TooLate(c) THEN late \cup {r} ELSE late
    /\ UNCHANGED <<members, deactivated, users, expired, context>>

\* Up to its first query.  A malformed header raises before anything that could
\* answer the AppError: 500.  A bad token counts only beside a header.
Middleware(r) ==
    /\ pc[r] = "middleware"
    /\ LET c == call[r]
       IN  \/ /\ c.header = Malformed
              /\ Goto(r, "crashed")
           \/ /\ c.header # Malformed
              /\ ~ Decodes(r)
              /\ Goto(r, IF c.header = None THEN "limit" ELSE "refused")
           \/ /\ c.header # Malformed
              /\ Decodes(r)
              /\ Goto(r, IF None \notin {c.bearer.tenant, c.header} /\ c.bearer.tenant # c.header
                         THEN "refused"
                         ELSE IF TenantOf(c) = None THEN "limit" ELSE "tenant")
    /\ UNCHANGED <<members, deactivated, users, expired, call, context, late>>

\* SELECT the active tenant: 404.
FindTenant(r) ==
    /\ pc[r] = "tenant"
    /\ LET t == TenantOf(call[r])
       IN  Goto(r, IF Membership!Founded(t) /\ t \notin deactivated THEN "member" ELSE "refused")
    /\ UNCHANGED <<members, deactivated, users, expired, call, context, late>>

\* SELECT the active membership: 403; then request.state is set.
FindMember(r) ==
    /\ pc[r] = "member"
    /\ LET t == TenantOf(call[r])
       IN  \/ /\ IsMember(t, call[r].bearer.user)
              /\ context' = [context EXCEPT ![r] = t]
              /\ Goto(r, "limit")
           \/ /\ ~ IsMember(t, call[r].bearer.user)
              /\ Goto(r, "refused")
              /\ UNCHANGED context
    /\ UNCHANGED <<members, deactivated, users, expired, call, late>>

\* RateLimit decides; then the router, and the endpoint if it is for everybody.
Limit(r) ==
    /\ pc[r] = "limit"
    /\ \/ Goto(r, "refused")
       \/ Goto(r, IF call[r].guarded THEN "user" ELSE "inside")
    /\ UNCHANGED <<members, deactivated, users, expired, call, context, late>>

\* Mutant of Identify: the claims are trusted without the query.
IdentifyByToken(r) ==
    /\ pc[r] = "user"
    /\ Goto(r, IF Decodes(r) THEN "inside" ELSE "refused")
    /\ UNCHANGED <<members, deactivated, users, expired, call, context, late>>

\* get_current_user decodes the token once more and SELECTs the active user: 401.
Identify(r) ==
    /\ pc[r] = "user"
    /\ Goto(r, IF Decodes(r) /\ users[call[r].bearer.user] = "active"
               THEN "inside" ELSE "refused")
    /\ UNCHANGED <<members, deactivated, users, expired, call, context, late>>

-----------------------------------------------------------------------------
\* invite, accept_invitation, remove_member and create_tenant; the rows of a deleted
\* user are gone with it.
MembersChange ==
    /\ Membership!Next
    /\ \A t \in Tenants, u \in Users : Exists(u) \/ standing'[<<t, u>>] = standing[<<t, u>>]
    /\ UNCHANGED <<deactivated, users, expired, gate>>

DeactivateTenant(t) ==
    /\ Membership!Founded(t)
    /\ deactivated' = deactivated \cup {t}
    /\ UNCHANGED <<members, users, expired, gate>>

\* update_user of the admin endpoints.
UpdateUser(u, status) ==
    /\ Exists(u)
    /\ users' = [users EXCEPT ![u] = status]
    /\ UNCHANGED <<members, deactivated, expired, gate>>

\* Mutant of DeleteUser: nothing is left to look the user up by.
DeleteUserAltogether(u) ==
    /\ Exists(u)
    /\ users' = [v \in Users \ {u} |-> users[v]]
    /\ UNCHANGED <<members, deactivated, expired, gate>>

\* delete_user; a user who owns a tenant is not deleted (AdminRbac).
DeleteUser(u) ==
    /\ Exists(u)
    /\ \A t \in Tenants :
           standing[<<t, u>>] # "outsider" =>
               \E v \in Users \ {u} : standing[<<t, v>>] # "outsider"
    /\ users' = [users EXCEPT ![u] = "gone"]
    /\ UNCHANGED <<members, deactivated, expired, gate>>

Expire(r) ==
    /\ pc[r] # "idle" /\ call[r].bearer \in Token
    /\ expired' = expired \cup {r}
    /\ UNCHANGED <<members, deactivated, users, gate>>

Pass(r) ==
    \/ Middleware(r)
    \/ FindTenant(r)
    \/ FindMember(r)
    \/ Limit(r)
    \/ Identify(r)

Next ==
    \/ \E r \in Requests : Pass(r) \/ Expire(r) \/ \E c \in Call : Arrive(r, c)
    \/ MembersChange
    \/ \E t \in Tenants : DeactivateTenant(t)
    \/ \E u \in Users :
           DeleteUser(u) \/ \E status \in {"active", "inactive"} : UpdateUser(u, status)

Spec == Init /\ [][Next]_vars

-----------------------------------------------------------------------------
\* Members, tenants, users and requests are in one of their states.
TypeOK ==
    /\ standing \in [Tenants \X Users -> {"outsider", "member", "removed"}]
    /\ deactivated \subseteq Tenants
    /\ users \in [Users -> {"active", "inactive", "gone"}]
    /\ pc \in [Requests -> Labels]
    /\ call \in [Requests -> Call \cup {None}]
    /\ expired \subseteq Requests
    /\ context \in [Requests -> Tenants \cup {None}]
    /\ late \subseteq Requests

\* A request that comes after its tenant was deactivated, its user removed from it
\* or deleted reaches no endpoint for users and is given no tenant, however its
\* queries and the changes interleave.  (One whose token expires on the way may
\* still reach an open endpoint, without a tenant.)
LateStaysOut ==
    \A r \in late : pc[r] = "inside" => context[r] = None /\ ~ call[r].guarded

\* The tenant a handler is given is the one the token and the header name, and the
\* user of the token has been a member of it: nobody comes in as an outsider.
ContextHasStood ==
    \A r \in Requests :
        context[r] # None =>
            /\ call[r].bearer.tenant \in {None, context[r]}
            /\ call[r].header \in {None, context[r]}
            /\ standing[<<context[r], call[r].bearer.user>>] # "outsider"
=============================================================================
