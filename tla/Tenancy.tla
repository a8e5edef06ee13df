------------------------------ MODULE Tenancy ------------------------------
(***************************************************************************)
(* Tenants, their members and their invitations: the handlers of           *)
(* /api/v1/tenants that change state, i.e. TenantService behind            *)
(* require_tenant_admin.                                                   *)
(*                                                                         *)
(* A slot is one of the requests the event loop serves at a time; it takes *)
(* a new request once the last is answered.  Every statement of its        *)
(* database session is one action (READ COMMITTED: a read sees what is     *)
(* committed, a write is seen at the commit and keeps its row locked until *)
(* then).  The ORM writes changed columns only, so an UPDATE at the commit *)
(* overwrites nothing but the column the handler assigned.                 *)
(***************************************************************************)
EXTENDS Integers

CONSTANTS
    Slots,        \* requests in service at the same time
    Users,        \* authenticated users; an email stands for its user
    Tenants,      \* slugs: unique, so a slug stands for its tenant row
    Invitations,  \* keys of tenant_invitations
    Roles,        \* names of roles
    AdminRoles,   \* those require_tenant_admin accepts
    None          \* no row, no owner, no request

ASSUME RolesAssumption == AdminRoles \subseteq Roles /\ "tenant_admin" \in AdminRoles

VARIABLES
    tenants,             \* slug -> no row, is_active or not
    owner,               \* slug -> owner_id
    tenant_members,      \* <<slug, user>> -> row (the pair is unique)
    tenant_invitations,  \* key -> row
    handed,              \* invitations whose token a client has been given
    pc,                  \* where the request in a slot is
    call,                \* its endpoint and arguments
    stale                \* history: slots whose request came too late (TooLate)

tables == <<tenants, owner, tenant_members, tenant_invitations>>
vars   == <<tables, handed, pc, call, stale>>

Member == [role : Roles, is_active : BOOLEAN]

Invitation == [tenant : Tenants, email : Users, role : Roles,
               accepted : BOOLEAN, expired : BOOLEAN]

ASSUME NoneAssumption == None \notin Member \cup Invitation \cup Users

Call ==
    [op : {"create"}, actor : Users, tenant : Tenants] \cup
    [op : {"update"}, actor : Users, tenant : Tenants, is_active : BOOLEAN] \cup
    [op : {"invite"}, actor : Users, tenant : Tenants, email : Users, role : Roles,
     invitation : Invitations] \cup
    [op : {"accept"}, actor : Users, invitation : Invitations] \cup
    [op : {"role"}, actor : Users, tenant : Tenants, target : Users, role : Roles] \cup
    [op : {"remove"}, actor : Users, tenant : Tenants, target : Users]

Labels == {"idle", "authorize", "read", "commit", "insert", "own", "find", "mark",
           "exists", "join", "audit"}

\* The request moves on; answered, it leaves nothing behind in its slot.
Goto(r, label) ==
    /\ pc' = [pc EXCEPT ![r] = label]
    /\ call' = IF label = "idle" THEN [call EXCEPT ![r] = None] ELSE call
    /\ stale' = IF label = "idle" THEN stale \ {r} ELSE stale

\* get_membership: the row of an active member.
Active(t, u) == tenant_members[<<t, u>>] # None /\ tenant_members[<<t, u>>].is_active

Removed(t, u) == tenant_members[<<t, u>>] # None /\ ~ tenant_members[<<t, u>>].is_active

\* A request that arrives after its authority is gone for good: the actor has
\* been removed, the invitation used or expired.
TooLate(c) ==
    \/ /\ c.op \in {"update", "invite", "role", "remove"}
       /\ Removed(c.tenant, c.actor)
    \/ /\ c.op = "accept"
       /\ \/ tenant_invitations[c.invitation].accepted
          \/ tenant_invitations[c.invitation].expired

\* Row locks held over an await: the unique slug a create_tenant has inserted
\* and the invitation an accept_invitation has marked.
SlugLocked(t) == \E q \in Slots : pc[q] = "own" /\ call[q].tenant = t
InvitationLocked(i) == \E q \in Slots : pc[q] \in {"exists", "join"} /\ call[q].invitation = i

-----------------------------------------------------------------------------
Init ==
    /\ tenants = [t \in Tenants |-> "none"]
    /\ owner = [t \in Tenants |-> None]
    /\ tenant_members = [m \in Tenants \X Users |-> None]
    /\ tenant_invitations = [i \in Invitations |-> None]
    /\ handed = {}
    /\ pc = [r \in Slots |-> "idle"]
    /\ call = [r \in Slots |-> None]
    /\ stale = {}

Arrive(r, label, c) ==
    /\ pc[r] = "idle"
    /\ pc' = [pc EXCEPT ![r] = label]
    /\ call' = [call EXCEPT ![r] = c]
    /\ stale' = IF TooLate(c) THEN stale \cup {r} ELSE stale
    /\ UNCHANGED <<tables, handed>>

ArriveCreate(r, u, t) ==
    Arrive(r, "insert", [op |-> "create", actor |-> u, tenant |-> t])

\* PATCH and DELETE /tenants/{id}; delete_tenant is update_tenant with FALSE.
ArriveUpdate(r, u, t, active) ==
    /\ tenants[t] # "none"
    /\ Arrive(r, "authorize", [op |-> "update", actor |-> u, tenant |-> t, is_active |-> active])

\* The key of the invitation is drawn when the row is made: it is a new one.
ArriveInvite(r, u, t, email, role, i) ==
    /\ tenants[t] # "none"
    /\ tenant_invitations[i] = None
    /\ \A q \in Slots : pc[q] # "idle" /\ call[q].op = "invite" => call[q].invitation # i
    /\ Arrive(r, "authorize", [op |-> "invite", actor |-> u, tenant |-> t, email |-> email,
                               role |-> role, invitation |-> i])

ArriveAccept(r, u, i) ==
    /\ i \in handed
    /\ Arrive(r, "find", [op |-> "accept", actor |-> u, invitation |-> i])

ArriveRole(r, u, t, target, role) ==
    /\ tenants[t] # "none"
    /\ Arrive(r, "authorize", [op |-> "role", actor |-> u, tenant |-> t, target |-> target,
                               role |-> role])

ArriveRemove(r, u, t, target) ==
    /\ tenants[t] # "none"
    /\ Arrive(r, "authorize", [op |-> "remove", actor |-> u, tenant |-> t, target |-> target])

-----------------------------------------------------------------------------
\* Mutant of Authorize: the membership is looked up without is_active.
AuthorizeAnyRow(r) ==
    /\ pc[r] = "authorize"
    /\ LET row == tenant_members[<<call[r].tenant, call[r].actor>>]
       IN  Goto(r, IF row = None THEN "idle"
                   ELSE IF row.role \notin AdminRoles THEN "idle"
                   ELSE IF call[r].op = "invite" THEN "commit"
                   ELSE "read")
    /\ UNCHANGED <<tables, handed>>

\* Mutant of Authorize: the role of the member is not looked at.
AuthorizeAnyMember(r) ==
    /\ pc[r] = "authorize"
    /\ Goto(r, IF ~ Active(call[r].tenant, call[r].actor) THEN "idle"
               ELSE IF call[r].op = "invite" THEN "commit"
               ELSE "read")
    /\ UNCHANGED <<tables, handed>>

\* require_tenant_admin: 403 unless an active member with an admin role.
\* invite_member reads nothing else (roles are never deleted).
Authorize(r) ==
    /\ pc[r] = "authorize"
    /\ LET t == call[r].tenant
           u == call[r].actor
       IN  Goto(r, IF ~ Active(t, u) THEN "idle"
                   ELSE IF tenant_members[<<t, u>>].role \notin AdminRoles THEN "idle"
                   ELSE IF call[r].op = "invite" THEN "commit"
                   ELSE "read")
    /\ UNCHANGED <<tables, handed>>

\* update_tenant, delete_tenant: get_tenant, 404 when inactive.
ReadTenant(r) ==
    /\ pc[r] = "read"
    /\ call[r].op = "update"
    /\ Goto(r, IF tenants[call[r].tenant] = "active" THEN "commit" ELSE "idle")
    /\ UNCHANGED <<tables, handed>>

\* update_member_role, remove_member: get_membership of the target, or 404.  The
\* role the object was read with is not written again: such a request has nothing
\* to commit, even if the row gets another role before it ends.
ReadMember(r) ==
    /\ pc[r] = "read"
    /\ call[r].op \in {"role", "remove"}
    /\ LET m == <<call[r].tenant, call[r].target>>
       IN  Goto(r, IF ~ Active(call[r].tenant, call[r].target) THEN "idle"
                   ELSE IF call[r].op = "role" /\ tenant_members[m].role = call[r].role
                   THEN "audit"
                   ELSE "commit")
    /\ UNCHANGED <<tables, handed>>

\* Mutant of CommitUpdate: writes the is_active of the payload in any case.
CommitUpdateAllColumns(r) ==
    /\ pc[r] = "commit"
    /\ call[r].op = "update"
    /\ tenants' = [tenants EXCEPT ![call[r].tenant] =
           IF call[r].is_active THEN "active" ELSE "inactive"]
    /\ Goto(r, "audit")
    /\ UNCHANGED <<owner, tenant_members, tenant_invitations, handed>>

\* The object was read with is_active = TRUE: assigning TRUE changes nothing and
\* is not written, even if the row has been deactivated since.
CommitUpdate(r) ==
    /\ pc[r] = "commit"
    /\ call[r].op = "update"
    /\ tenants' = IF call[r].is_active THEN tenants
                  ELSE [tenants EXCEPT ![call[r].tenant] = "inactive"]
    /\ Goto(r, "audit")
    /\ UNCHANGED <<owner, tenant_members, tenant_invitations, handed>>

CommitInvite(r) ==
    /\ pc[r] = "commit"
    /\ call[r].op = "invite"
    /\ tenant_invitations' = [tenant_invitations EXCEPT ![call[r].invitation] =
           [tenant |-> call[r].tenant, email |-> call[r].email, role |-> call[r].role,
            accepted |-> FALSE, expired |-> FALSE]]
    /\ Goto(r, "audit")
    /\ UNCHANGED <<tenants, owner, tenant_members, handed>>

\* Mutant of CommitRole: writes the whole row as it was read.
CommitRoleAllColumns(r) ==
    /\ pc[r] = "commit"
    /\ call[r].op = "role"
    /\ tenant_members' = [tenant_members EXCEPT ![<<call[r].tenant, call[r].target>>] =
           [role |-> call[r].role, is_active |-> TRUE]]
    /\ Goto(r, "audit")
    /\ UNCHANGED <<tenants, owner, tenant_invitations, handed>>

CommitRole(r) ==
    /\ pc[r] = "commit"
    /\ call[r].op = "role"
    /\ tenant_members' = [tenant_members EXCEPT
           ![<<call[r].tenant, call[r].target>>].role = call[r].role]
    /\ Goto(r, "audit")
    /\ UNCHANGED <<tenants, owner, tenant_invitations, handed>>

CommitRemove(r) ==
    /\ pc[r] = "commit"
    /\ call[r].op = "remove"
    /\ tenant_members' = [tenant_members EXCEPT
           ![<<call[r].tenant, call[r].target>>].is_active = FALSE]
    /\ Goto(r, "audit")
    /\ UNCHANGED <<tenants, owner, tenant_invitations, handed>>

-----------------------------------------------------------------------------
\* Mutant of InsertTenant: a taken slug is waited for instead of refused.
InsertTenantWaits(r) ==
    /\ pc[r] = "insert"
    /\ ~ SlugLocked(call[r].tenant)
    /\ tenants[call[r].tenant] = "none"
    /\ Goto(r, "own")
    /\ UNCHANGED <<tables, handed>>

\* create_tenant: the INSERT is flushed.  The unique slug makes it wait for a
\* transaction that has inserted the same one, and fail if that one committed.
InsertTenant(r) ==
    /\ pc[r] = "insert"
    /\ ~ SlugLocked(call[r].tenant)
    /\ Goto(r, IF tenants[call[r].tenant] = "none" THEN "own" ELSE "idle")
    /\ UNCHANGED <<tables, handed>>

\* Mutant of CommitCreate: the membership is left to a second transaction.
CommitCreateTenantOnly(r) ==
    /\ pc[r] = "own"
    /\ tenants' = [tenants EXCEPT ![call[r].tenant] = "active"]
    /\ owner' = [owner EXCEPT ![call[r].tenant] = call[r].actor]
    /\ Goto(r, "audit")
    /\ UNCHANGED <<tenant_members, tenant_invitations, handed>>

\* Mutant of CommitCreate: a tenant_admin role that was not found is used.
CommitCreateNoRole(r) ==
    /\ pc[r] = "own"
    /\ tenants' = [tenants EXCEPT ![call[r].tenant] = "active"]
    /\ owner' = [owner EXCEPT ![call[r].tenant] = call[r].actor]
    /\ tenant_members' = [tenant_members EXCEPT ![<<call[r].tenant, call[r].actor>>] =
           [role |-> None, is_active |-> TRUE]]
    /\ Goto(r, "audit")
    /\ UNCHANGED <<tenant_invitations, handed>>

\* The tenant and its owner's membership become visible together.
CommitCreate(r) ==
    /\ pc[r] = "own"
    /\ tenants' = [tenants EXCEPT ![call[r].tenant] = "active"]
    /\ owner' = [owner EXCEPT ![call[r].tenant] = call[r].actor]
    /\ tenant_members' = [tenant_members EXCEPT ![<<call[r].tenant, call[r].actor>>] =
           [role |-> "tenant_admin", is_active |-> TRUE]]
    /\ Goto(r, "audit")
    /\ UNCHANGED <<tenant_invitations, handed>>

-----------------------------------------------------------------------------
\* accept_invitation: SELECT the unaccepted invitation (404), check expires_at
\* (400) and the address (403).  The tenant of the path plays no part.
FindInvitation(r) ==
    /\ pc[r] = "find"
    /\ LET row == tenant_invitations[call[r].invitation]
       IN  Goto(r, IF ~ row.accepted /\ ~ row.expired /\ row.email = call[r].actor
                   THEN "mark" ELSE "idle")
    /\ UNCHANGED <<tables, handed>>

\* accepted_at is assigned, and the autoflush of the next query writes it: from
\* here to the end of the transaction the invitation is locked.
MarkAccepted(r) ==
    /\ pc[r] = "mark"
    /\ ~ InvitationLocked(call[r].invitation)
    /\ Goto(r, "exists")
    /\ UNCHANGED <<tables, handed>>

\* get_membership: 409, and the mark is rolled back, for an active member.
CheckExisting(r) ==
    /\ pc[r] = "exists"
    /\ LET row == tenant_invitations[call[r].invitation]
       IN  Goto(r, IF Active(row.tenant, call[r].actor) THEN "idle" ELSE "join")
    /\ UNCHANGED <<tables, handed>>

\* Mutant of CommitJoin: the row of a removed member is taken up again.
CommitJoinRevives(r) ==
    /\ pc[r] = "join"
    /\ LET i == call[r].invitation
           row == tenant_invitations[i]
       IN  /\ tenant_members' = [tenant_members EXCEPT ![<<row.tenant, call[r].actor>>] =
                  [role |-> row.role, is_active |-> TRUE]]
           /\ tenant_invitations' = [tenant_invitations EXCEPT ![i].accepted = TRUE]
    /\ Goto(r, "audit")
    /\ UNCHANGED <<tenants, owner, handed>>

\* INSERT the member and commit.  uq_tenant_members_tenant_id_user_id refuses
\* the pair when it has a row, a removed member's too: 500, all rolled back.
CommitJoin(r) ==
    /\ pc[r] = "join"
    /\ LET i   == call[r].invitation
           row == tenant_invitations[i]
           m   == <<row.tenant, call[r].actor>>
       IN  \/ /\ tenant_members[m] = None
              /\ tenant_members' = [tenant_members EXCEPT ![m] =
                     [role |-> row.role, is_active |-> TRUE]]
              /\ tenant_invitations' = [tenant_invitations EXCEPT ![i].accepted = TRUE]
              /\ Goto(r, "audit")
           \/ /\ tenant_members[m] # None
              /\ Goto(r, "idle")
              /\ UNCHANGED <<tenant_members, tenant_invitations>>
    /\ UNCHANGED <<tenants, owner, handed>>

-----------------------------------------------------------------------------
\* AuditLogger.log flushes a row in a transaction of its own, which nobody
\* commits; then the answer goes out, an invitation's with the token.
Audit(r) ==
    /\ pc[r] = "audit"
    /\ Goto(r, "idle")
    /\ handed' = IF call[r].op = "invite" THEN handed \cup {call[r].invitation} ELSE handed
    /\ UNCHANGED tables

\* An exception at any await: what is not committed is rolled back.
Fail(r) ==
    /\ pc[r] # "idle"
    /\ Goto(r, "idle")
    /\ UNCHANGED <<tables, handed>>

\* expires_at passes.
Expire(i) ==
    /\ tenant_invitations[i] # None
    /\ ~ tenant_invitations[i].expired
    /\ tenant_invitations' = [tenant_invitations EXCEPT ![i].expired = TRUE]
    /\ UNCHANGED <<tenants, owner, tenant_members, handed, pc, call, stale>>

-----------------------------------------------------------------------------
Arrivals(r) ==
    \E u \in Users :
        \/ \E t \in Tenants :
               \/ ArriveCreate(r, u, t)
               \/ \E active \in BOOLEAN : ArriveUpdate(r, u, t, active)
               \/ \E target \in Users, role \in Roles :
                      \/ ArriveRole(r, u, t, target, role)
                      \/ \E i \in Invitations : ArriveInvite(r, u, t, target, role, i)
               \/ \E target \in Users : ArriveRemove(r, u, t, target)
        \/ \E i \in Invitations : ArriveAccept(r, u, i)

Serve(r) ==
    \/ Authorize(r)
    \/ ReadTenant(r)
    \/ ReadMember(r)
    \/ CommitUpdate(r)
    \/ CommitInvite(r)
    \/ CommitRole(r)
    \/ CommitRemove(r)
    \/ InsertTenant(r)
    \/ CommitCreate(r)
    \/ FindInvitation(r)
    \/ MarkAccepted(r)
    \/ CheckExisting(r)
    \/ CommitJoin(r)
    \/ Audit(r)

Next ==
    \/ \E r \in Slots : Arrivals(r) \/ Serve(r) \/ Fail(r)
    \/ \E i \in Invitations : Expire(i)

Spec == Init /\ [][Next]_vars

\* The event loop resumes every coroutine and PostgreSQL answers every statement.
\* Waiting for the row lock that others keep taking is fair too: PostgreSQL
\* grants a lock in the order of the requests for it.
FairSpec ==
    /\ Spec
    /\ \A r \in Slots :
           /\ WF_vars(Serve(r))
           /\ SF_vars(InsertTenant(r))
           /\ SF_vars(MarkAccepted(r))

-----------------------------------------------------------------------------
\* The rows hold what their columns allow, and slots are somewhere in a handler.
TypeOK ==
    /\ tenants \in [Tenants -> {"none", "active", "inactive"}]
    /\ owner \in [Tenants -> Users \cup {None}]
    /\ tenant_members \in [Tenants \X Users -> Member \cup {None}]
    /\ tenant_invitations \in [Invitations -> Invitation \cup {None}]
    /\ handed \subseteq Invitations
    /\ pc \in [Slots -> Labels]
    /\ call \in [Slots -> Call \cup {None}]
    /\ stale \subseteq Slots

\* A tenant that anyone can see has its owner and a membership row of the owner:
\* no interleaving or failure of create_tenant leaves a tenant nobody runs.
TenantHasOwner ==
    \A t \in Tenants :
        tenants[t] # "none" => owner[t] # None /\ tenant_members[<<t, owner[t]>>] # None

\* A request that came after its actor was removed, or after its invitation had
\* been used or had expired, changes nothing, whatever runs beside it.
NoStaleEffect == \A r \in stale : pc[r] \notin {"commit", "mark", "exists", "join", "audit"}

\* A deactivated tenant stays deactivated, also against an update that read it
\* while it was active.
DeactivationIsFinal ==
    [][\A t \in Tenants : tenants[t] = "inactive" => tenants'[t] = "inactive"]_vars

\* A tenant without an admin, without an invitation that could still make one and
\* without a request already let in never has an admin again: the rights over a
\* tenant come only from its admins, and the last of them may step down
\* (remove_member and update_member_role do not count them).
OffersAdmin(i, t) ==
    /\ tenant_invitations[i] # None
    /\ tenant_invitations[i].tenant = t
    /\ tenant_invitations[i].role \in AdminRoles

LetIn(r, t) ==
    \/ /\ pc[r] \in {"read", "commit"}
       /\ call[r].tenant = t
    \/ /\ pc[r] \in {"mark", "exists", "join"}
       /\ OffersAdmin(call[r].invitation, t)

Abandoned(t) ==
    /\ tenants[t] # "none"
    /\ \A u \in Users : Active(t, u) => tenant_members[<<t, u>>].role \notin AdminRoles
    /\ \A i \in Invitations :
           OffersAdmin(i, t) => tenant_invitations[i].accepted \/ tenant_invitations[i].expired
    /\ \A r \in Slots : ~ LetIn(r, t)

AbandonmentIsFinal == [][\A t \in Tenants : Abandoned(t) => Abandoned(t)']_vars

\* Seen from outside, members come and go as Membership says.
Standing(m) ==
    IF tenant_members[m] = None THEN "outsider"
    ELSE IF tenant_members[m].is_active THEN "member" ELSE "removed"

OfferOf(i) ==
    IF tenant_invitations[i] = None THEN None
    ELSE [tenant |-> tenant_invitations[i].tenant, user |-> tenant_invitations[i].email,
          open |-> ~ tenant_invitations[i].accepted]

Promise == INSTANCE Membership
    WITH standing <- [m \in Tenants \X Users |-> Standing(m)],
         offers   <- [i \in Invitations |-> OfferOf(i)]

ImplementsMembership == Promise!Spec

\* What AuthSession takes for granted of members: they come and go as Directory
\* says, above all for good.
MembershipOf(u, t) ==
    LET s == Standing(<<t, u>>)
    IN  IF s = "outsider" THEN "none" ELSE IF s = "member" THEN "active" ELSE "removed"

Directory == INSTANCE Directory
    WITH account    <- [u \in Users |-> "active"],
         membership <- [m \in Users \X Tenants |-> MembershipOf(m[1], m[2])]

ImplementsDirectory == Directory!Spec

\* Every request is answered: waiting for a slug or an invitation ends.
RequestsAnswered == \A r \in Slots : pc[r] # "idle" ~> pc[r] = "idle"
=============================================================================
