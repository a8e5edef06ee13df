--------------------------- MODULE Tenancy_proofs ---------------------------
(***************************************************************************)
(* Proofs, for every number of requests in service, users, tenants and     *)
(* invitations, of the safety properties of Tenancy, and that it           *)
(* implements Membership.                                                  *)
(***************************************************************************)
EXTENDS Tenancy, TLAPS

AdminOps == {"update", "invite", "role", "remove"}

\* The stage of a request says which endpoint it serves.
CallInv ==
    \A r \in Slots :
        /\ pc[r] # "idle" => call[r] \in Call
        /\ pc[r] \in {"authorize", "read", "commit"} => call[r].op \in AdminOps
        /\ pc[r] = "read" => call[r].op # "invite"
        /\ pc[r] \in {"insert", "own"} => call[r].op = "create"
        /\ pc[r] \in {"find", "mark", "exists", "join"} => call[r].op = "accept"

\* A tenant comes with its owner's membership, and members and invitations
\* only with a tenant.
TenantInv ==
    /\ \A t \in Tenants :
           tenants[t] # "none" => owner[t] \in Users /\ tenant_members[<<t, owner[t]>>] # None
    /\ \A t \in Tenants, u \in Users :
           tenant_members[<<t, u>>] # None => tenants[t] # "none"
    /\ \A i \in Invitations :
           tenant_invitations[i] # None => tenants[tenant_invitations[i].tenant] # "none"

\* What a request has read is still there: rows do not go away.
ReadInv ==
    \A r \in Slots :
        /\ pc[r] # "idle" /\ call[r].op \in AdminOps => tenants[call[r].tenant] # "none"
        /\ pc[r] = "commit" /\ call[r].op \in {"role", "remove"} =>
               tenant_members[<<call[r].tenant, call[r].target>>] # None
        /\ pc[r] # "idle" /\ call[r].op = "accept" => tenant_invitations[call[r].invitation] # None
        /\ pc[r] \in {"mark", "exists", "join"} =>
               tenant_invitations[call[r].invitation].email = call[r].actor
        /\ pc[r] = "audit" /\ call[r].op = "invite" => tenant_invitations[call[r].invitation] # None

\* A slug being inserted is free, and held by one transaction.
SlugInv ==
    \A r \in Slots :
        pc[r] = "own" =>
            /\ tenants[call[r].tenant] = "none"
            /\ \A q \in Slots \ {r} : pc[q] = "own" => call[q].tenant # call[r].tenant

\* The key of an invitation is drawn once.
KeyInv ==
    \A r \in Slots :
        pc[r] \in {"authorize", "commit"} /\ call[r].op = "invite" =>
            /\ tenant_invitations[call[r].invitation] = None
            /\ \A q \in Slots \ {r} :
                   pc[q] # "idle" /\ call[q].op = "invite" =>
                       call[q].invitation # call[r].invitation

\* Whoever has a membership row founded the tenant or used an invitation that
\* this tenant made out to that user.
MemberHasOrigin ==
    \A t \in Tenants, u \in Users :
        tenant_members[<<t, u>>] # None =>
            \/ owner[t] = u
            \/ \E i \in Invitations :
                   /\ tenant_invitations[i] # None
                   /\ tenant_invitations[i].accepted
                   /\ tenant_invitations[i].tenant = t
                   /\ tenant_invitations[i].email = u

\* An invitation has been accepted exactly for a membership of its addressee.
AcceptedInv ==
    /\ handed \subseteq {i \in Invitations : tenant_invitations[i] # None}
    /\ \A i \in Invitations :
           tenant_invitations[i] # None /\ tenant_invitations[i].accepted =>
               tenant_members[<<tenant_invitations[i].tenant, tenant_invitations[i].email>>] # None

\* What made a request too late does not go away, and stops it at its first read.
StaleInv ==
    \A r \in stale :
        /\ pc[r] \in {"authorize", "find"}
        /\ TooLate(call[r])

IInv ==
    /\ TypeOK
    /\ CallInv
    /\ TenantInv
    /\ ReadInv
    /\ SlugInv
    /\ KeyInv
    /\ AcceptedInv
    /\ StaleInv
    /\ MemberHasOrigin

-----------------------------------------------------------------------------
\* Rows never go away, and neither do a removal, an acceptance or an expiry.
RowsStay ==
    /\ \A t \in Tenants :
           tenants[t] # "none" => tenants'[t] # "none" /\ owner'[t] = owner[t]
    /\ \A m \in Tenants \X Users :
           tenant_members[m] # None =>
               /\ tenant_members'[m] # None
               /\ ~ tenant_members[m].is_active => ~ tenant_members'[m].is_active
    /\ \A i \in Invitations :
           tenant_invitations[i] # None =>
               /\ tenant_invitations'[i] # None
               /\ tenant_invitations'[i].tenant = tenant_invitations[i].tenant
               /\ tenant_invitations'[i].email = tenant_invitations[i].email
               /\ tenant_invitations[i].accepted => tenant_invitations'[i].accepted
               /\ tenant_invitations[i].expired => tenant_invitations'[i].expired

\* Rows only move on, so a request that is too late stays too late.
LEMMA TooLateStays ==
  ASSUME RowsStay, NEW c \in Call, TooLate(c),
         c.op = "accept" => tenant_invitations[c.invitation] # None
  PROVE  TooLate(c)'
<1>1. CASE c.op \in AdminOps
  <2>1. c.tenant \in Tenants /\ c.actor \in Users
    BY <1>1 DEF Call, AdminOps
  <2>2. Removed(c.tenant, c.actor)
    BY <1>1 DEF TooLate, AdminOps
  <2>3. Removed(c.tenant, c.actor)'
    BY <2>1, <2>2 DEF RowsStay, Removed
  <2> QED
    BY <1>1, <2>3 DEF TooLate, AdminOps
<1>2. CASE c.op = "accept"
  <2>1. c.invitation \in Invitations
    BY <1>2 DEF Call
  <2> QED
    BY <1>2, <2>1 DEF TooLate, RowsStay
<1>3. CASE c.op = "create"
  BY <1>3 DEF TooLate
<1> QED
  BY <1>1, <1>2, <1>3 DEF Call, AdminOps

\* A step that moves one request on, and not to an effect, keeps the others late.
LEMMA StaleKept ==
  ASSUME IInv, RowsStay, NEW r \in Slots,
         stale' \subseteq stale, r \notin stale',
         \A q \in Slots \ {r} : pc'[q] = pc[q] /\ call'[q] = call[q]
  PROVE  StaleInv'
<1> SUFFICES ASSUME NEW q \in stale' PROVE pc'[q] \in {"authorize", "find"} /\ TooLate(call[q])'
  BY DEF StaleInv
<1>1. q \in stale /\ q \in Slots \ {r}
  BY DEF IInv, TypeOK
<1>2. pc'[q] \in {"authorize", "find"} /\ pc[q] # "idle"
  BY <1>1 DEF IInv, StaleInv
<1>3. PICK c \in Call : c = call[q]
  BY <1>1, <1>2 DEF IInv, CallInv
<1>4. TooLate(c)'
  <2>1. TooLate(c)
    BY <1>1, <1>3 DEF IInv, StaleInv
  <2>2. c.op = "accept" => tenant_invitations[c.invitation] # None
    BY <1>1, <1>2, <1>3 DEF IInv, ReadInv
  <2> QED
    BY <2>1, <2>2, TooLateStays
<1>5. call'[q] = c
  BY <1>1, <1>3
<1> QED
  BY <1>2, <1>4, <1>5 DEF TooLate, Removed

\* Another request still finds what it has read.
LEMMA ReadKept ==
  ASSUME IInv, RowsStay, NEW r \in Slots, pc'[r] \in {"audit", "idle"}, call'[r] = call[r],
         \A q \in Slots \ {r} : pc'[q] = pc[q] /\ call'[q] = call[q],
         pc'[r] = "audit" =>
             /\ call[r].op \in AdminOps => tenants'[call[r].tenant] # "none"
             /\ call[r].op \in {"accept", "invite"} =>
                    tenant_invitations'[call[r].invitation] # None
  PROVE  ReadInv'
<1> SUFFICES ASSUME NEW q \in Slots, pc'[q] # "idle"
             PROVE
        /\ call'[q].op \in AdminOps => tenants'[call'[q].tenant] # "none"
        /\ pc'[q] = "commit" /\ call'[q].op \in {"role", "remove"} =>
               tenant_members'[<<call'[q].tenant, call'[q].target>>] # None
        /\ call'[q].op = "accept" => tenant_invitations'[call'[q].invitation] # None
        /\ pc'[q] \in {"mark", "exists", "join"} =>
               tenant_invitations'[call'[q].invitation].email = call'[q].actor
        /\ pc'[q] = "audit" /\ call'[q].op = "invite" =>
               tenant_invitations'[call'[q].invitation] # None
  BY DEF ReadInv
<1>1. CASE q = r
  BY <1>1
<1>2. CASE q # r
  <2>1. PICK c \in Call : c = call[q]
    BY <1>2 DEF IInv, CallInv
  <2>2. pc'[q] = pc[q] /\ call'[q] = c
    BY <1>2, <2>1
  <2>3. c.op \in AdminOps => tenants'[c.tenant] # "none"
    BY <2>1, <2>2 DEF IInv, ReadInv, RowsStay, Call, AdminOps
  <2>4. pc[q] = "commit" /\ c.op \in {"role", "remove"} =>
            tenant_members'[<<c.tenant, c.target>>] # None
    BY <2>1, <2>2 DEF IInv, ReadInv, RowsStay, Call
  <2>5. c.op = "accept" => tenant_invitations'[c.invitation] # None
    BY <2>1, <2>2 DEF IInv, ReadInv, RowsStay, Call
  <2>6. pc[q] \in {"mark", "exists", "join"} =>
            tenant_invitations'[c.invitation].email = c.actor
    <3> SUFFICES ASSUME pc[q] \in {"mark", "exists", "join"}
                 PROVE  tenant_invitations'[c.invitation].email = c.actor
      OBVIOUS
    <3>1. c.op = "accept"
      BY <2>1 DEF IInv, CallInv
    <3>2. c.invitation \in Invitations
      BY <3>1 DEF Call
    <3>3. /\ tenant_invitations[c.invitation] # None
          /\ tenant_invitations[c.invitation].email = c.actor
      BY <2>1, <3>1 DEF IInv, ReadInv
    <3> QED
      BY <3>2, <3>3 DEF RowsStay
  <2>7. pc[q] = "audit" /\ c.op = "invite" => tenant_invitations'[c.invitation] # None
    BY <2>1, <2>2 DEF IInv, ReadInv, RowsStay, Call
  <2> QED
    BY <2>2, <2>3, <2>4, <2>5, <2>6, <2>7
<1> QED
  BY <1>1, <1>2

\* A late request is marked on arrival, and stands before the check that stops it.
LEMMA StaleArrived ==
  ASSUME IInv, NEW r \in Slots, NEW label \in {"authorize", "find"}, NEW c \in Call,
         c.op = "accept" => tenant_invitations[c.invitation] # None,
         Arrive(r, label, c)
  PROVE  StaleInv'
<1> SUFFICES ASSUME NEW q \in stale' PROVE pc'[q] \in {"authorize", "find"} /\ TooLate(call[q])'
  BY DEF StaleInv
<1>1. RowsStay
  BY DEF Arrive, tables, RowsStay
<1>2. CASE q = r
  <2>1. TooLate(c)
    BY <1>2 DEF Arrive, IInv, StaleInv
  <2>2. TooLate(c)'
    BY <1>1, <2>1, TooLateStays
  <2>3. call'[q] = c /\ pc'[q] = label
    BY <1>2 DEF Arrive, IInv, TypeOK
  <2> QED
    BY <2>2, <2>3 DEF TooLate, Removed
<1>3. CASE q # r
  <2>1. q \in stale /\ q \in Slots
    BY <1>3 DEF Arrive, IInv, TypeOK
  <2>2. pc'[q] = pc[q] /\ call'[q] = call[q] /\ pc[q] \in {"authorize", "find"}
    BY <1>3, <2>1 DEF Arrive, IInv, TypeOK, StaleInv
  <2>3. PICK d \in Call : d = call[q]
    BY <2>1, <2>2 DEF IInv, CallInv
  <2>4. TooLate(d)'
    BY <1>1, <2>1, <2>2, <2>3, TooLateStays DEF IInv, StaleInv, ReadInv
  <2> QED
    BY <2>2, <2>3, <2>4 DEF TooLate, Removed
<1> QED
  BY <1>2, <1>3

\* remove_member clears is_active of a row that is there, and nothing else.
LEMMA RemoveEffect ==
  ASSUME IInv, NEW r \in Slots, CommitRemove(r)
  PROVE  \E m \in Tenants \X Users :
            /\ tenant_members[m] \in Member
            /\ tenant_members' \in [Tenants \X Users -> Member \cup {None}]
            /\ tenant_members'[m] \in Member
            /\ ~ tenant_members'[m].is_active
            /\ \A n \in Tenants \X Users : n # m => tenant_members'[n] = tenant_members[n]
<1> DEFINE old == tenant_members[<<call[r].tenant, call[r].target>>]
           new == [old EXCEPT !.is_active = FALSE]
<1>1. PICK m \in Tenants \X Users : m = <<call[r].tenant, call[r].target>>
  BY DEF CommitRemove, IInv, CallInv, AdminOps, Call
<1>2. old \in Member
  BY <1>1 DEF CommitRemove, IInv, ReadInv, TypeOK
<1>3. tenant_members' = [tenant_members EXCEPT ![m] = new]
  BY <1>1 DEF CommitRemove, IInv, TypeOK
<1>4. tenant_members'[m] = new
  BY <1>3 DEF IInv, TypeOK
<1>5. tenant_members'[m] \in Member /\ ~ tenant_members'[m].is_active
  BY <1>2, <1>4 DEF Member
<1>6. new \in Member
  BY <1>4, <1>5
<1> QED
  BY <1>1, <1>2, <1>3, <1>5, <1>6 DEF IInv, TypeOK

\* accept_invitation either finds a membership row and changes nothing, or
\* accepts the invitation and makes its addressee a member, both at once.
LEMMA JoinEffect ==
  ASSUME IInv, NEW r \in Slots, CommitJoin(r)
  PROVE  \E i \in Invitations, row \in Invitation :
            /\ call[r].op = "accept" /\ call[r].invitation = i
            /\ tenant_invitations[i] = row
            /\ \/ /\ tenant_members[<<row.tenant, row.email>>] # None
                  /\ UNCHANGED <<tables, handed>>
                  /\ Goto(r, "idle")
               \/ /\ tenant_members[<<row.tenant, row.email>>] = None
                  /\ tenant_members' = [tenant_members EXCEPT ![<<row.tenant, row.email>>] =
                                           [role |-> row.role, is_active |-> TRUE]]
                  /\ tenant_invitations' \in [Invitations -> Invitation \cup {None}]
                  /\ tenant_invitations'[i] \in Invitation
                  /\ tenant_invitations'[i].tenant = row.tenant
                  /\ tenant_invitations'[i].email = row.email
                  /\ tenant_invitations'[i].role = row.role
                  /\ tenant_invitations'[i].accepted
                  /\ tenant_invitations'[i].expired = row.expired
                  /\ \A j \in Invitations :
                         j # i => tenant_invitations'[j] = tenant_invitations[j]
                  /\ UNCHANGED <<tenants, owner, handed>>
                  /\ Goto(r, "audit")
<1>1. call[r].op = "accept"
  BY DEF CommitJoin, IInv, CallInv
<1>2. PICK i \in Invitations : i = call[r].invitation
  BY <1>1 DEF CommitJoin, IInv, CallInv, Call
<1>3. PICK row \in Invitation : row = tenant_invitations[i]
  BY <1>1, <1>2 DEF CommitJoin, IInv, ReadInv, TypeOK
<1>4. row.email = call[r].actor
  BY <1>2, <1>3 DEF CommitJoin, IInv, ReadInv
<1>5. CASE tenant_members[<<row.tenant, row.email>>] # None
  BY <1>1, <1>2, <1>3, <1>4, <1>5 DEF CommitJoin, tables
<1>6. CASE tenant_members[<<row.tenant, row.email>>] = None
  <2> DEFINE new == [row EXCEPT !.accepted = TRUE]
  <2>1. tenant_invitations' = [tenant_invitations EXCEPT ![i] = new]
    BY <1>2, <1>3, <1>4, <1>6 DEF CommitJoin, IInv, TypeOK
  <2>2. tenant_invitations'[i] = new
    BY <2>1 DEF IInv, TypeOK
  <2>3. /\ tenant_invitations'[i] \in Invitation
        /\ tenant_invitations'[i].tenant = row.tenant
        /\ tenant_invitations'[i].email = row.email
        /\ tenant_invitations'[i].role = row.role
        /\ tenant_invitations'[i].accepted
        /\ tenant_invitations'[i].expired = row.expired
    BY <1>3, <2>2 DEF Invitation
  <2>4. new \in Invitation
    BY <2>2, <2>3
  <2>5. /\ tenant_invitations' \in [Invitations -> Invitation \cup {None}]
        /\ \A j \in Invitations : j # i => tenant_invitations'[j] = tenant_invitations[j]
    BY <2>1, <2>4 DEF IInv, TypeOK
  <2> QED
    <3>1. /\ tenant_members' = [tenant_members EXCEPT ![<<row.tenant, row.email>>] =
                                   [role |-> row.role, is_active |-> TRUE]]
          /\ UNCHANGED <<tenants, owner, handed>>
          /\ Goto(r, "audit")
      BY <1>2, <1>3, <1>4, <1>6 DEF CommitJoin
    <3> WITNESS i \in Invitations, row \in Invitation
    <3> QED
      BY <1>1, <1>2, <1>3, <1>6, <2>3, <2>5, <3>1
<1> QED
  BY <1>5, <1>6

\* Expiry touches nothing else.
LEMMA ExpireEffect ==
  ASSUME IInv, NEW i \in Invitations, Expire(i)
  PROVE  /\ tenant_invitations[i] \in Invitation
         /\ tenant_invitations' \in [Invitations -> Invitation \cup {None}]
         /\ tenant_invitations'[i] \in Invitation
         /\ tenant_invitations'[i].tenant = tenant_invitations[i].tenant
         /\ tenant_invitations'[i].email = tenant_invitations[i].email
         /\ tenant_invitations'[i].role = tenant_invitations[i].role
         /\ tenant_invitations'[i].accepted = tenant_invitations[i].accepted
         /\ tenant_invitations'[i].expired
         /\ \A j \in Invitations : j # i => tenant_invitations'[j] = tenant_invitations[j]
<1> DEFINE row == tenant_invitations[i]
           new == [row EXCEPT !.expired = TRUE]
<1>1. row \in Invitation
  BY DEF Expire, IInv, TypeOK
<1>2. tenant_invitations' = [tenant_invitations EXCEPT ![i] = new]
  BY DEF Expire, IInv, TypeOK
<1>3. tenant_invitations'[i] = new
  BY <1>2 DEF IInv, TypeOK
<1>4. /\ tenant_invitations'[i] \in Invitation
      /\ tenant_invitations'[i].tenant = row.tenant
      /\ tenant_invitations'[i].email = row.email
      /\ tenant_invitations'[i].role = row.role
      /\ tenant_invitations'[i].accepted = row.accepted
      /\ tenant_invitations'[i].expired
  BY <1>1, <1>3 DEF Invitation
<1>5. new \in Invitation
  BY <1>3, <1>4
<1> QED
  BY <1>1, <1>2, <1>4, <1>5 DEF IInv, TypeOK

\* Every statement of a handler, every failure and every expiry keeps the invariant.
LEMMA InductiveStep == IInv /\ [Next]_vars => IInv'
<1> SUFFICES ASSUME IInv, [Next]_vars PROVE IInv'
  OBVIOUS
<1> USE RolesAssumption, NoneAssumption
        DEF IInv, tables, Goto, Member, Invitation, AdminOps
<1>1. ASSUME NEW r \in Slots, NEW u \in Users, NEW t \in Tenants,
             ArriveCreate(r, u, t)
      PROVE  IInv'
  <2>1. TypeOK'
    BY <1>1 DEF ArriveCreate, Arrive, TypeOK, CallInv, ReadInv, Call, Labels
  <2>2. CallInv'
    BY <1>1 DEF ArriveCreate, Arrive, CallInv, TypeOK, Call
  <2>3. TenantInv'
    BY <1>1 DEF ArriveCreate, Arrive, TenantInv, TypeOK, CallInv, ReadInv, Call
  <2>4. ReadInv'
    BY <1>1 DEF ArriveCreate, Arrive, ReadInv, TypeOK, CallInv, Call
  <2>5. SlugInv'
    BY <1>1 DEF ArriveCreate, Arrive, SlugInv, TypeOK, CallInv, Call
  <2>6. KeyInv'
    BY <1>1 DEF ArriveCreate, Arrive, KeyInv, TypeOK, CallInv, Call
  <2>7. AcceptedInv'
    BY <1>1 DEF ArriveCreate, Arrive, AcceptedInv, TypeOK, CallInv, ReadInv,
                KeyInv, Call
  <2>8. StaleInv'
    BY <1>1 DEF ArriveCreate, Arrive, StaleInv, TypeOK, CallInv, ReadInv, TooLate,
                Removed, Call
  <2>9. MemberHasOrigin'
    BY <1>1 DEF ArriveCreate, Arrive, MemberHasOrigin, TypeOK, CallInv, ReadInv,
                TenantInv, SlugInv, KeyInv, Call
  <2> QED
    BY <2>1, <2>2, <2>3, <2>4, <2>5, <2>6, <2>7, <2>8, <2>9
<1>2. ASSUME NEW r \in Slots, NEW u \in Users, NEW t \in Tenants, NEW active \in BOOLEAN,
             ArriveUpdate(r, u, t, active)
      PROVE  IInv'
  <2>1. TypeOK'
    BY <1>2 DEF ArriveUpdate, Arrive, TypeOK, CallInv, ReadInv, Call, Labels
  <2>2. CallInv'
    BY <1>2 DEF ArriveUpdate, Arrive, CallInv, TypeOK, Call
  <2>3. TenantInv'
    BY <1>2 DEF ArriveUpdate, Arrive, TenantInv, TypeOK, CallInv, ReadInv, Call
  <2>4. ReadInv'
    BY <1>2 DEF ArriveUpdate, Arrive, ReadInv, TypeOK, CallInv, Call
  <2>5. SlugInv'
    BY <1>2 DEF ArriveUpdate, Arrive, SlugInv, TypeOK, CallInv, Call
  <2>6. KeyInv'
    BY <1>2 DEF ArriveUpdate, Arrive, KeyInv, TypeOK, CallInv, Call
  <2>7. AcceptedInv'
    BY <1>2 DEF ArriveUpdate, Arrive, AcceptedInv, TypeOK, CallInv, ReadInv,
                KeyInv, Call
  <2>8. StaleInv'
    BY <1>2, StaleArrived DEF ArriveUpdate, Call
  <2>9. MemberHasOrigin'
    BY <1>2 DEF ArriveUpdate, Arrive, MemberHasOrigin, TypeOK, CallInv, ReadInv,
                TenantInv, SlugInv, KeyInv, Call
  <2> QED
    BY <2>1, <2>2, <2>3, <2>4, <2>5, <2>6, <2>7, <2>8, <2>9
<1>3. ASSUME NEW r \in Slots, NEW u \in Users, NEW t \in Tenants, NEW v \in Users,
             NEW role \in Roles, NEW i \in Invitations, ArriveInvite(r, u, t, v, role, i)
      PROVE  IInv'
  <2>1. TypeOK'
    BY <1>3 DEF ArriveInvite, Arrive, TypeOK, CallInv, ReadInv, Call, Labels
  <2>2. CallInv'
    BY <1>3 DEF ArriveInvite, Arrive, CallInv, TypeOK, Call
  <2>3. TenantInv'
    BY <1>3 DEF ArriveInvite, Arrive, TenantInv, TypeOK, CallInv, ReadInv, Call
  <2>4. ReadInv'
    BY <1>3 DEF ArriveInvite, Arrive, ReadInv, TypeOK, CallInv, Call
  <2>5. SlugInv'
    BY <1>3 DEF ArriveInvite, Arrive, SlugInv, TypeOK, CallInv, Call
  <2>6. KeyInv'
    BY <1>3 DEF ArriveInvite, Arrive, KeyInv, TypeOK, CallInv, Call
  <2>7. AcceptedInv'
    BY <1>3 DEF ArriveInvite, Arrive, AcceptedInv, TypeOK, CallInv, ReadInv,
                KeyInv, Call
  <2>8. StaleInv'
    BY <1>3, StaleArrived DEF ArriveInvite, Call
  <2>9. MemberHasOrigin'
    BY <1>3 DEF ArriveInvite, Arrive, MemberHasOrigin, TypeOK, CallInv, ReadInv,
                TenantInv, SlugInv, KeyInv, Call
  <2> QED
    BY <2>1, <2>2, <2>3, <2>4, <2>5, <2>6, <2>7, <2>8, <2>9
<1>4. ASSUME NEW r \in Slots, NEW u \in Users, NEW i \in Invitations,
             ArriveAccept(r, u, i)
      PROVE  IInv'
  <2>1. TypeOK'
    BY <1>4 DEF ArriveAccept, Arrive, TypeOK, CallInv, ReadInv, Call, Labels
  <2>2. CallInv'
    BY <1>4 DEF ArriveAccept, Arrive, CallInv, TypeOK, Call
  <2>3. TenantInv'
    BY <1>4 DEF ArriveAccept, Arrive, TenantInv, TypeOK, CallInv, ReadInv, Call
  <2>4. ReadInv'
    <3>1. tenant_invitations[i] # None
      BY <1>4 DEF ArriveAccept, AcceptedInv
    <3>2. /\ call'[r].op = "accept" /\ call'[r].invitation = i /\ pc'[r] = "find"
          /\ \A q \in Slots \ {r} : pc'[q] = pc[q] /\ call'[q] = call[q]
      BY <1>4 DEF ArriveAccept, Arrive, TypeOK
    <3>3. UNCHANGED tables
      BY <1>4 DEF ArriveAccept, Arrive
    <3> QED
      BY <3>1, <3>2, <3>3 DEF ReadInv
  <2>5. SlugInv'
    BY <1>4 DEF ArriveAccept, Arrive, SlugInv, TypeOK, CallInv, Call
  <2>6. KeyInv'
    BY <1>4 DEF ArriveAccept, Arrive, KeyInv, TypeOK, CallInv, Call
  <2>7. AcceptedInv'
    BY <1>4 DEF ArriveAccept, Arrive, AcceptedInv, TypeOK, CallInv, ReadInv,
                KeyInv, Call
  <2>8. StaleInv'
    <3>1. tenant_invitations[i] # None
      BY <1>4 DEF ArriveAccept, AcceptedInv
    <3> QED
      BY <1>4, <3>1, StaleArrived DEF ArriveAccept, Call
  <2>9. MemberHasOrigin'
    BY <1>4 DEF ArriveAccept, Arrive, MemberHasOrigin, TypeOK, CallInv, ReadInv,
                TenantInv, SlugInv, KeyInv, Call
  <2> QED
    BY <2>1, <2>2, <2>3, <2>4, <2>5, <2>6, <2>7, <2>8, <2>9
<1>5. ASSUME NEW r \in Slots, NEW u \in Users, NEW t \in Tenants, NEW v \in Users,
             NEW role \in Roles, ArriveRole(r, u, t, v, role)
      PROVE  IInv'
  <2>1. TypeOK'
    BY <1>5 DEF ArriveRole, Arrive, TypeOK, CallInv, ReadInv, Call, Labels
  <2>2. CallInv'
    BY <1>5 DEF ArriveRole, Arrive, CallInv, TypeOK, Call
  <2>3. TenantInv'
    BY <1>5 DEF ArriveRole, Arrive, TenantInv, TypeOK, CallInv, ReadInv, Call
  <2>4. ReadInv'
    BY <1>5 DEF ArriveRole, Arrive, ReadInv, TypeOK, CallInv, Call
  <2>5. SlugInv'
    BY <1>5 DEF ArriveRole, Arrive, SlugInv, TypeOK, CallInv, Call
  <2>6. KeyInv'
    BY <1>5 DEF ArriveRole, Arrive, KeyInv, TypeOK, CallInv, Call
  <2>7. AcceptedInv'
    BY <1>5 DEF ArriveRole, Arrive, AcceptedInv, TypeOK, CallInv, ReadInv, KeyInv,
                Call
  <2>8. StaleInv'
    BY <1>5, StaleArrived DEF ArriveRole, Call
  <2>9. MemberHasOrigin'
    BY <1>5 DEF ArriveRole, Arrive, MemberHasOrigin, TypeOK, CallInv, ReadInv,
                TenantInv, SlugInv, KeyInv, Call
  <2> QED
    BY <2>1, <2>2, <2>3, <2>4, <2>5, <2>6, <2>7, <2>8, <2>9
<1>6. ASSUME NEW r \in Slots, NEW u \in Users, NEW t \in Tenants, NEW v \in Users,
             ArriveRemove(r, u, t, v)
      PROVE  IInv'
  <2>1. TypeOK'
    BY <1>6 DEF ArriveRemove, Arrive, TypeOK, CallInv, ReadInv, Call, Labels
  <2>2. CallInv'
    BY <1>6 DEF ArriveRemove, Arrive, CallInv, TypeOK, Call
  <2>3. TenantInv'
    BY <1>6 DEF ArriveRemove, Arrive, TenantInv, TypeOK, CallInv, ReadInv, Call
  <2>4. ReadInv'
    BY <1>6 DEF ArriveRemove, Arrive, ReadInv, TypeOK, CallInv, Call
  <2>5. SlugInv'
    BY <1>6 DEF ArriveRemove, Arrive, SlugInv, TypeOK, CallInv, Call
  <2>6. KeyInv'
    BY <1>6 DEF ArriveRemove, Arrive, KeyInv, TypeOK, CallInv, Call
  <2>7. AcceptedInv'
    BY <1>6 DEF ArriveRemove, Arrive, AcceptedInv, TypeOK, CallInv, ReadInv,
                KeyInv, Call
  <2>8. StaleInv'
    BY <1>6, StaleArrived DEF ArriveRemove, Call
  <2>9. MemberHasOrigin'
    BY <1>6 DEF ArriveRemove, Arrive, MemberHasOrigin, TypeOK, CallInv, ReadInv,
                TenantInv, SlugInv, KeyInv, Call
  <2> QED
    BY <2>1, <2>2, <2>3, <2>4, <2>5, <2>6, <2>7, <2>8, <2>9
<1>7. ASSUME NEW r \in Slots, Authorize(r)
      PROVE  IInv'
  <2>1. TypeOK'
    BY <1>7 DEF Authorize, Active, TypeOK, CallInv, ReadInv, Call, Labels
  <2>2. CallInv'
    BY <1>7 DEF Authorize, Active, CallInv, TypeOK, Call
  <2>3. TenantInv'
    BY <1>7 DEF Authorize, Active, TenantInv, TypeOK, CallInv, ReadInv, Call
  <2>4. ReadInv'
    BY <1>7 DEF Authorize, Active, ReadInv, TypeOK, CallInv, Call
  <2>5. SlugInv'
    BY <1>7 DEF Authorize, Active, SlugInv, TypeOK, CallInv, Call
  <2>6. KeyInv'
    BY <1>7 DEF Authorize, Active, KeyInv, TypeOK, CallInv, Call
  <2>7. AcceptedInv'
    BY <1>7 DEF Authorize, Active, AcceptedInv, TypeOK, CallInv, ReadInv, KeyInv,
                Call
  <2>8. StaleInv'
    BY <1>7 DEF Authorize, Active, StaleInv, TypeOK, CallInv, ReadInv, TooLate,
                Removed, Call
  <2>9. MemberHasOrigin'
    BY <1>7 DEF Authorize, Active, MemberHasOrigin, TypeOK, CallInv, ReadInv,
                TenantInv, SlugInv, KeyInv, Call
  <2> QED
    BY <2>1, <2>2, <2>3, <2>4, <2>5, <2>6, <2>7, <2>8, <2>9
<1>8. ASSUME NEW r \in Slots, ReadTenant(r)
      PROVE  IInv'
  <2>1. TypeOK'
    BY <1>8 DEF ReadTenant, TypeOK, CallInv, ReadInv, Call, Labels
  <2>2. CallInv'
    BY <1>8 DEF ReadTenant, CallInv, TypeOK, Call
  <2>3. TenantInv'
    BY <1>8 DEF ReadTenant, TenantInv, TypeOK, CallInv, ReadInv, Call
  <2>4. ReadInv'
    BY <1>8 DEF ReadTenant, ReadInv, TypeOK, CallInv, Call
  <2>5. SlugInv'
    BY <1>8 DEF ReadTenant, SlugInv, TypeOK, CallInv, Call
  <2>6. KeyInv'
    BY <1>8 DEF ReadTenant, KeyInv, TypeOK, CallInv, Call
  <2>7. AcceptedInv'
    BY <1>8 DEF ReadTenant, AcceptedInv, TypeOK, CallInv, ReadInv, KeyInv, Call
  <2>8. StaleInv'
    BY <1>8 DEF ReadTenant, StaleInv, TypeOK, CallInv, ReadInv, TooLate, Removed,
                Call
  <2>9. MemberHasOrigin'
    BY <1>8 DEF ReadTenant, MemberHasOrigin, TypeOK, CallInv, ReadInv, TenantInv,
                SlugInv, KeyInv, Call
  <2> QED
    BY <2>1, <2>2, <2>3, <2>4, <2>5, <2>6, <2>7, <2>8, <2>9
<1>9. ASSUME NEW r \in Slots, ReadMember(r)
      PROVE  IInv'
  <2>1. TypeOK'
    BY <1>9 DEF ReadMember, Active, TypeOK, CallInv, ReadInv, Call, Labels
  <2>2. CallInv'
    BY <1>9 DEF ReadMember, Active, CallInv, TypeOK, Call
  <2>3. TenantInv'
    BY <1>9 DEF ReadMember, Active, TenantInv, TypeOK, CallInv, ReadInv, Call
  <2>4. ReadInv'
    BY <1>9 DEF ReadMember, Active, ReadInv, TypeOK, CallInv, Call
  <2>5. SlugInv'
    BY <1>9 DEF ReadMember, Active, SlugInv, TypeOK, CallInv, Call
  <2>6. KeyInv'
    BY <1>9 DEF ReadMember, Active, KeyInv, TypeOK, CallInv, Call
  <2>7. AcceptedInv'
    BY <1>9 DEF ReadMember, Active, AcceptedInv, TypeOK, CallInv, ReadInv, KeyInv,
                Call
  <2>8. StaleInv'
    BY <1>9 DEF ReadMember, Active, StaleInv, TypeOK, CallInv, ReadInv, TooLate,
                Removed, Call
  <2>9. MemberHasOrigin'
    BY <1>9 DEF ReadMember, Active, MemberHasOrigin, TypeOK, CallInv, ReadInv,
                TenantInv, SlugInv, KeyInv, Call
  <2> QED
    BY <2>1, <2>2, <2>3, <2>4, <2>5, <2>6, <2>7, <2>8, <2>9
<1>10. ASSUME NEW r \in Slots, CommitUpdate(r)
      PROVE  IInv'
  <2>1. TypeOK'
    BY <1>10 DEF CommitUpdate, TypeOK, CallInv, ReadInv, Call, Labels
  <2>2. CallInv'
    BY <1>10 DEF CommitUpdate, CallInv, TypeOK, Call
  <2>3. TenantInv'
    BY <1>10 DEF CommitUpdate, TenantInv, TypeOK, CallInv, ReadInv, Call
  <2>4. ReadInv'
    BY <1>10 DEF CommitUpdate, ReadInv, TypeOK, CallInv, Call
  <2>5. SlugInv'
    <3>1. call[r].tenant \in Tenants /\ tenants[call[r].tenant] # "none"
      BY <1>10 DEF CommitUpdate, ReadInv, CallInv, Call
    <3>2. \A t \in Tenants \ {call[r].tenant} : tenants'[t] = tenants[t]
      BY <1>10, <3>1 DEF CommitUpdate, TypeOK
    <3>3. \A q \in Slots : pc'[q] = "own" => pc[q] = "own" /\ call[q].tenant \in Tenants
      BY <1>10 DEF CommitUpdate, TypeOK, CallInv, Call
    <3>4. call' = call
      BY <1>10 DEF CommitUpdate
    <3> QED
      BY <3>1, <3>2, <3>3, <3>4 DEF SlugInv
  <2>6. KeyInv'
    BY <1>10 DEF CommitUpdate, KeyInv, TypeOK, CallInv, Call
  <2>7. AcceptedInv'
    BY <1>10 DEF CommitUpdate, AcceptedInv, TypeOK, CallInv, ReadInv, KeyInv, Call
  <2>8. StaleInv'
    BY <1>10 DEF CommitUpdate, StaleInv, TypeOK, CallInv, ReadInv, TooLate,
                 Removed, Call
  <2>9. MemberHasOrigin'
    BY <1>10 DEF CommitUpdate, MemberHasOrigin, TypeOK, CallInv, ReadInv,
                 TenantInv, SlugInv, KeyInv, Call
  <2> QED
    BY <2>1, <2>2, <2>3, <2>4, <2>5, <2>6, <2>7, <2>8, <2>9
<1>11. ASSUME NEW r \in Slots, CommitInvite(r)
      PROVE  IInv'
  <2>a. RowsStay
    BY <1>11 DEF CommitInvite, RowsStay, TypeOK, CallInv, KeyInv, Call
  <2>b. /\ pc'[r] = "audit"
        /\ \A q \in Slots \ {r} : pc'[q] = pc[q]
        /\ UNCHANGED <<call, stale>>
        /\ r \notin stale
    BY <1>11 DEF CommitInvite, TypeOK, StaleInv
  <2>1. TypeOK'
    BY <1>11 DEF CommitInvite, TypeOK, CallInv, ReadInv, Call, Labels
  <2>2. CallInv'
    BY <1>11 DEF CommitInvite, CallInv, TypeOK, Call
  <2>3. TenantInv'
    BY <1>11 DEF CommitInvite, TenantInv, TypeOK, CallInv, ReadInv, Call
  <2>4. ReadInv'
    <3>1. call[r].op = "invite" /\ call[r].invitation \in Invitations
      BY <1>11 DEF CommitInvite, CallInv, Call
    <3>2. tenant_invitations'[call[r].invitation] # None
      <4>1. tenant_invitations' \in [Invitations -> Invitation \cup {None}]
        BY <2>1 DEF TypeOK
      <4>2. tenant_invitations'[call[r].invitation] =
                [tenant |-> call[r].tenant, email |-> call[r].email, role |-> call[r].role,
                 accepted |-> FALSE, expired |-> FALSE]
        BY <1>11, <3>1 DEF CommitInvite, TypeOK
      <4>3. /\ call[r].tenant \in Tenants /\ call[r].email \in Users
            /\ call[r].role \in Roles
        BY <1>11, <3>1 DEF CommitInvite, CallInv, Call
      <4>4. tenant_invitations'[call[r].invitation] \in Invitation
        BY <4>2, <4>3
      <4> QED
        BY <4>4
    <3>3. tenants'[call[r].tenant] # "none"
      BY <1>11, <3>1 DEF CommitInvite, ReadInv
    <3> QED
      BY <2>a, <2>b, <3>1, <3>2, <3>3, ReadKept
  <2>5. SlugInv'
    BY <1>11 DEF CommitInvite, SlugInv, TypeOK, CallInv, Call
  <2>6. KeyInv'
    BY <1>11 DEF CommitInvite, KeyInv, TypeOK, CallInv, Call
  <2>7. AcceptedInv'
    BY <1>11 DEF CommitInvite, AcceptedInv, TypeOK, CallInv, ReadInv, KeyInv, Call
  <2>8. StaleInv'
    BY <2>a, <2>b, StaleKept
  <2>9. MemberHasOrigin'
    BY <1>11 DEF CommitInvite, MemberHasOrigin, TypeOK, CallInv, ReadInv,
                 TenantInv, SlugInv, KeyInv, Call
  <2> QED
    BY <2>1, <2>2, <2>3, <2>4, <2>5, <2>6, <2>7, <2>8, <2>9
<1>12. ASSUME NEW r \in Slots, CommitRole(r)
      PROVE  IInv'
  <2>1. TypeOK'
    BY <1>12 DEF CommitRole, TypeOK, CallInv, ReadInv, Call, Labels
  <2>2. CallInv'
    BY <1>12 DEF CommitRole, CallInv, TypeOK, Call
  <2>3. TenantInv'
    BY <1>12 DEF CommitRole, TenantInv, TypeOK, CallInv, ReadInv, Call
  <2>4. ReadInv'
    BY <1>12 DEF CommitRole, ReadInv, TypeOK, CallInv, Call
  <2>5. SlugInv'
    BY <1>12 DEF CommitRole, SlugInv, TypeOK, CallInv, Call
  <2>6. KeyInv'
    BY <1>12 DEF CommitRole, KeyInv, TypeOK, CallInv, Call
  <2>7. AcceptedInv'
    BY <1>12 DEF CommitRole, AcceptedInv, TypeOK, CallInv, ReadInv, KeyInv, Call
  <2>8. StaleInv'
    BY <1>12 DEF CommitRole, StaleInv, TypeOK, CallInv, ReadInv, TooLate, Removed,
                 Call
  <2>9. MemberHasOrigin'
    BY <1>12 DEF CommitRole, MemberHasOrigin, TypeOK, CallInv, ReadInv, TenantInv,
                 SlugInv, KeyInv, Call
  <2> QED
    BY <2>1, <2>2, <2>3, <2>4, <2>5, <2>6, <2>7, <2>8, <2>9
<1>13. ASSUME NEW r \in Slots, CommitRemove(r)
      PROVE  IInv'
  <2>a. PICK m \in Tenants \X Users :
            /\ tenant_members[m] \in Member
            /\ tenant_members' \in [Tenants \X Users -> Member \cup {None}]
            /\ tenant_members'[m] \in Member
            /\ ~ tenant_members'[m].is_active
            /\ \A n \in Tenants \X Users : n # m => tenant_members'[n] = tenant_members[n]
    BY <1>13, RemoveEffect DEF Member
  <2>c. \A n \in Tenants \X Users : tenant_members'[n] # None <=> tenant_members[n] # None
    BY <2>a
  <2>d. /\ pc'[r] = "audit" /\ pc' \in [Slots -> Labels]
        /\ \A q \in Slots \ {r} : pc'[q] = pc[q]
        /\ UNCHANGED <<tenants, owner, tenant_invitations, handed, call, stale>>
        /\ r \notin stale
    BY <1>13 DEF CommitRemove, TypeOK, StaleInv, Labels
  <2>e. RowsStay
    <3>1. \A n \in Tenants \X Users :
              tenant_members[n] # None /\ ~ tenant_members[n].is_active
                  => ~ tenant_members'[n].is_active
      BY <2>a
    <3> QED
      BY <2>c, <2>d, <3>1 DEF RowsStay
  <2>1. TypeOK'
    BY <2>a, <2>d DEF TypeOK
  <2>2. CallInv'
    BY <1>13 DEF CommitRemove, CallInv, TypeOK, Call
  <2>3. TenantInv'
    BY <2>c, <2>d DEF TenantInv
  <2>4. ReadInv'
    <3>1. call[r].op = "remove" /\ tenants[call[r].tenant] # "none"
      BY <1>13 DEF CommitRemove, ReadInv
    <3> QED
      BY <2>d, <2>e, <3>1, ReadKept
  <2>5. SlugInv'
    BY <1>13 DEF CommitRemove, SlugInv, TypeOK, CallInv, Call
  <2>6. KeyInv'
    BY <1>13 DEF CommitRemove, KeyInv, TypeOK, CallInv, Call
  <2>7. AcceptedInv'
    BY <2>c, <2>d DEF AcceptedInv, TypeOK
  <2>8. StaleInv'
    BY <2>d, <2>e, StaleKept
  <2>9. MemberHasOrigin'
    BY <2>c, <2>d DEF MemberHasOrigin
  <2> QED
    BY <2>1, <2>2, <2>3, <2>4, <2>5, <2>6, <2>7, <2>8, <2>9
<1>14. ASSUME NEW r \in Slots, InsertTenant(r)
      PROVE  IInv'
  <2>1. TypeOK'
    BY <1>14 DEF InsertTenant, SlugLocked, TypeOK, CallInv, ReadInv, Call, Labels
  <2>2. CallInv'
    BY <1>14 DEF InsertTenant, SlugLocked, CallInv, TypeOK, Call
  <2>3. TenantInv'
    BY <1>14 DEF InsertTenant, SlugLocked, TenantInv, TypeOK, CallInv, ReadInv, Call
  <2>4. ReadInv'
    BY <1>14 DEF InsertTenant, SlugLocked, ReadInv, TypeOK, CallInv, Call
  <2>5. SlugInv'
    BY <1>14 DEF InsertTenant, SlugLocked, SlugInv, TypeOK, CallInv, Call
  <2>6. KeyInv'
    BY <1>14 DEF InsertTenant, SlugLocked, KeyInv, TypeOK, CallInv, Call
  <2>7. AcceptedInv'
    BY <1>14 DEF InsertTenant, SlugLocked, AcceptedInv, TypeOK, CallInv, ReadInv,
                 KeyInv, Call
  <2>8. StaleInv'
    BY <1>14 DEF InsertTenant, SlugLocked, StaleInv, TypeOK, CallInv, ReadInv,
                 TooLate, Removed, Call
  <2>9. MemberHasOrigin'
    BY <1>14 DEF InsertTenant, SlugLocked, MemberHasOrigin, TypeOK, CallInv,
                 ReadInv, TenantInv, SlugInv, KeyInv, Call
  <2> QED
    BY <2>1, <2>2, <2>3, <2>4, <2>5, <2>6, <2>7, <2>8, <2>9
<1>15. ASSUME NEW r \in Slots, CommitCreate(r)
      PROVE  IInv'
  <2> DEFINE t == call[r].tenant
             u == call[r].actor
  <2>a. t \in Tenants /\ u \in Users /\ call[r].op = "create"
    BY <1>15 DEF CommitCreate, CallInv, Call
  <2>b. /\ tenants[t] = "none"
        /\ \A v \in Users : tenant_members[<<t, v>>] = None
    BY <1>15, <2>a DEF CommitCreate, SlugInv, TenantInv
  <2>c. /\ tenant_members' \in [Tenants \X Users -> Member \cup {None}]
        /\ tenant_members'[<<t, u>>] = [role |-> "tenant_admin", is_active |-> TRUE]
        /\ tenant_members'[<<t, u>>] # None
        /\ \A n \in Tenants \X Users :
               n # <<t, u>> => tenant_members'[n] = tenant_members[n]
    <3>1. [role |-> "tenant_admin", is_active |-> TRUE] \in Member
      OBVIOUS
    <3> QED
      BY <1>15, <2>a, <3>1 DEF CommitCreate, TypeOK
  <2>d. /\ tenants' \in [Tenants -> {"none", "active", "inactive"}]
        /\ owner' \in [Tenants -> Users \cup {None}]
        /\ tenants'[t] = "active" /\ owner'[t] = u
        /\ \A x \in Tenants \ {t} : tenants'[x] = tenants[x] /\ owner'[x] = owner[x]
    BY <1>15, <2>a DEF CommitCreate, TypeOK
  <2>e. /\ pc'[r] = "audit" /\ pc' \in [Slots -> Labels]
        /\ \A q \in Slots \ {r} : pc'[q] = pc[q]
        /\ UNCHANGED <<tenant_invitations, handed, call, stale>>
        /\ r \notin stale
    BY <1>15 DEF CommitCreate, TypeOK, StaleInv, Labels
  <2>f. RowsStay
    <3>1. \A n \in Tenants \X Users : tenant_members[n] # None => n # <<t, u>>
      BY <2>a, <2>b
    <3> QED
      BY <2>b, <2>c, <2>d, <2>e, <3>1 DEF RowsStay
  <2>1. TypeOK'
    BY <2>c, <2>d, <2>e DEF TypeOK
  <2>2. CallInv'
    BY <1>15 DEF CommitCreate, CallInv, TypeOK, Call
  <2>3. TenantInv'
    <3>1. ASSUME NEW x \in Tenants, tenants'[x] # "none"
          PROVE  owner'[x] \in Users /\ tenant_members'[<<x, owner'[x]>>] # None
      <4>1. CASE x = t
        BY <2>a, <2>c, <2>d, <4>1
      <4>2. CASE x # t
        BY <2>c, <2>d, <3>1, <4>2 DEF TenantInv
      <4> QED
        BY <4>1, <4>2
    <3>2. ASSUME NEW x \in Tenants, NEW v \in Users, tenant_members'[<<x, v>>] # None
          PROVE  tenants'[x] # "none"
      BY <2>a, <2>c, <2>d, <3>2 DEF TenantInv
    <3>3. ASSUME NEW i \in Invitations, tenant_invitations'[i] # None
          PROVE  tenants'[tenant_invitations'[i].tenant] # "none"
      BY <2>d, <2>e, <3>3 DEF TenantInv, TypeOK
    <3> QED
      BY <3>1, <3>2, <3>3 DEF TenantInv
  <2>4. ReadInv'
    BY <2>a, <2>e, <2>f, ReadKept
  <2>5. SlugInv'
    BY <1>15 DEF CommitCreate, SlugInv, TypeOK, CallInv, Call
  <2>6. KeyInv'
    BY <1>15 DEF CommitCreate, KeyInv, TypeOK, CallInv, Call
  <2>7. AcceptedInv'
    <3>1. ASSUME NEW i \in Invitations, tenant_invitations[i] # None,
                 tenant_invitations[i].accepted
          PROVE  tenant_members'[<<tenant_invitations[i].tenant,
                                   tenant_invitations[i].email>>] # None
      BY <2>c, <3>1 DEF AcceptedInv, TypeOK
    <3> QED
      BY <2>e, <3>1 DEF AcceptedInv
  <2>8. StaleInv'
    BY <2>e, <2>f, StaleKept
  <2>9. MemberHasOrigin'
    <3>1. ASSUME NEW x \in Tenants, NEW v \in Users, tenant_members'[<<x, v>>] # None,
                 x # t
          PROVE  owner'[x] = owner[x] /\ tenant_members[<<x, v>>] # None
      BY <2>a, <2>c, <2>d, <3>1
    <3>2. ASSUME NEW v \in Users, tenant_members'[<<t, v>>] # None
          PROVE  owner'[t] = v
      BY <2>a, <2>b, <2>c, <2>d, <3>2
    <3> QED
      BY <2>e, <3>1, <3>2 DEF MemberHasOrigin
  <2> QED
    BY <2>1, <2>2, <2>3, <2>4, <2>5, <2>6, <2>7, <2>8, <2>9
<1>16. ASSUME NEW r \in Slots, FindInvitation(r)
      PROVE  IInv'
  <2>1. TypeOK'
    BY <1>16 DEF FindInvitation, TypeOK, CallInv, ReadInv, Call, Labels
  <2>2. CallInv'
    BY <1>16 DEF FindInvitation, CallInv, TypeOK, Call
  <2>3. TenantInv'
    BY <1>16 DEF FindInvitation, TenantInv, TypeOK, CallInv, ReadInv, Call
  <2>4. ReadInv'
    BY <1>16 DEF FindInvitation, ReadInv, TypeOK, CallInv, Call
  <2>5. SlugInv'
    BY <1>16 DEF FindInvitation, SlugInv, TypeOK, CallInv, Call
  <2>6. KeyInv'
    BY <1>16 DEF FindInvitation, KeyInv, TypeOK, CallInv, Call
  <2>7. AcceptedInv'
    BY <1>16 DEF FindInvitation, AcceptedInv, TypeOK, CallInv, ReadInv, KeyInv, Call
  <2>8. StaleInv'
    BY <1>16 DEF FindInvitation, StaleInv, TypeOK, CallInv, ReadInv, TooLate,
                 Removed, Call
  <2>9. MemberHasOrigin'
    BY <1>16 DEF FindInvitation, MemberHasOrigin, TypeOK, CallInv, ReadInv,
                 TenantInv, SlugInv, KeyInv, Call
  <2> QED
    BY <2>1, <2>2, <2>3, <2>4, <2>5, <2>6, <2>7, <2>8, <2>9
<1>17. ASSUME NEW r \in Slots, MarkAccepted(r)
      PROVE  IInv'
  <2>1. TypeOK'
    BY <1>17 DEF MarkAccepted, TypeOK, CallInv, ReadInv, Call, Labels
  <2>2. CallInv'
    BY <1>17 DEF MarkAccepted, CallInv, TypeOK, Call
  <2>3. TenantInv'
    BY <1>17 DEF MarkAccepted, TenantInv, TypeOK, CallInv, ReadInv, Call
  <2>4. ReadInv'
    BY <1>17 DEF MarkAccepted, ReadInv, TypeOK, CallInv, Call
  <2>5. SlugInv'
    BY <1>17 DEF MarkAccepted, SlugInv, TypeOK, CallInv, Call
  <2>6. KeyInv'
    BY <1>17 DEF MarkAccepted, KeyInv, TypeOK, CallInv, Call
  <2>7. AcceptedInv'
    BY <1>17 DEF MarkAccepted, AcceptedInv, TypeOK, CallInv, ReadInv, KeyInv, Call
  <2>8. StaleInv'
    BY <1>17 DEF MarkAccepted, StaleInv, TypeOK, CallInv, ReadInv, TooLate,
                 Removed, Call
  <2>9. MemberHasOrigin'
    BY <1>17 DEF MarkAccepted, MemberHasOrigin, TypeOK, CallInv, ReadInv,
                 TenantInv, SlugInv, KeyInv, Call
  <2> QED
    BY <2>1, <2>2, <2>3, <2>4, <2>5, <2>6, <2>7, <2>8, <2>9
<1>18. ASSUME NEW r \in Slots, CheckExisting(r)
      PROVE  IInv'
  <2>1. TypeOK'
    BY <1>18 DEF CheckExisting, Active, TypeOK, CallInv, ReadInv, Call, Labels
  <2>2. CallInv'
    BY <1>18 DEF CheckExisting, Active, CallInv, TypeOK, Call
  <2>3. TenantInv'
    BY <1>18 DEF CheckExisting, Active, TenantInv, TypeOK, CallInv, ReadInv, Call
  <2>4. ReadInv'
    BY <1>18 DEF CheckExisting, Active, ReadInv, TypeOK, CallInv, Call
  <2>5. SlugInv'
    BY <1>18 DEF CheckExisting, Active, SlugInv, TypeOK, CallInv, Call
  <2>6. KeyInv'
    BY <1>18 DEF CheckExisting, Active, KeyInv, TypeOK, CallInv, Call
  <2>7. AcceptedInv'
    BY <1>18 DEF CheckExisting, Active, AcceptedInv, TypeOK, CallInv, ReadInv,
                 KeyInv, Call
  <2>8. StaleInv'
    BY <1>18 DEF CheckExisting, Active, StaleInv, TypeOK, CallInv, ReadInv,
                 TooLate, Removed, Call
  <2>9. MemberHasOrigin'
    BY <1>18 DEF CheckExisting, Active, MemberHasOrigin, TypeOK, CallInv, ReadInv,
                 TenantInv, SlugInv, KeyInv, Call
  <2> QED
    BY <2>1, <2>2, <2>3, <2>4, <2>5, <2>6, <2>7, <2>8, <2>9
<1>19. ASSUME NEW r \in Slots, CommitJoin(r)
      PROVE  IInv'
  <2> DEFINE Untouched(row) ==
               /\ tenant_members[<<row.tenant, row.email>>] # None
               /\ UNCHANGED <<tables, handed>>
               /\ Goto(r, "idle")
             Accepted(i, row) ==
               /\ tenant_members[<<row.tenant, row.email>>] = None
               /\ tenant_members' = [tenant_members EXCEPT ![<<row.tenant, row.email>>] =
                                        [role |-> row.role, is_active |-> TRUE]]
               /\ tenant_invitations' \in [Invitations -> Invitation \cup {None}]
               /\ tenant_invitations'[i] \in Invitation
               /\ tenant_invitations'[i].tenant = row.tenant
               /\ tenant_invitations'[i].email = row.email
               /\ tenant_invitations'[i].role = row.role
               /\ tenant_invitations'[i].accepted
               /\ tenant_invitations'[i].expired = row.expired
               /\ \A j \in Invitations :
                      j # i => tenant_invitations'[j] = tenant_invitations[j]
               /\ UNCHANGED <<tenants, owner, handed>>
               /\ Goto(r, "audit")
  <2>a. PICK i \in Invitations, row \in Invitation :
            /\ call[r].op = "accept" /\ call[r].invitation = i
            /\ tenant_invitations[i] = row
            /\ Untouched(row) \/ Accepted(i, row)
    BY <1>19, JoinEffect
  <2> DEFINE m == <<row.tenant, row.email>>
  <2>m. m \in Tenants \X Users
    OBVIOUS
  <2>b. CASE Untouched(row)
    <3>1. /\ UNCHANGED <<tables, handed>>
          /\ pc' = [pc EXCEPT ![r] = "idle"] /\ call' = [call EXCEPT ![r] = None]
          /\ stale' = stale \ {r}
      BY <2>b
    <3>2. TypeOK'
      BY <3>1 DEF TypeOK, Labels
    <3>3. RowsStay
      BY <3>1 DEF RowsStay
    <3>4. /\ pc'[r] = "idle" /\ \A q \in Slots \ {r} : pc'[q] = pc[q] /\ call'[q] = call[q]
      BY <3>1 DEF TypeOK
    <3>5. StaleInv'
      BY <3>1, <3>3, <3>4, StaleKept
    <3>6. CallInv' /\ ReadInv' /\ SlugInv' /\ KeyInv'
      <4>1. CallInv'
        BY <3>4 DEF CallInv
      <4>2. ReadInv'
        BY <3>1, <3>4 DEF ReadInv
      <4>3. SlugInv'
        BY <3>1, <3>4 DEF SlugInv
      <4>4. KeyInv'
        BY <3>1, <3>4 DEF KeyInv
      <4> QED
        BY <4>1, <4>2, <4>3, <4>4
    <3>7. TenantInv' /\ AcceptedInv' /\ MemberHasOrigin'
      BY <3>1 DEF TenantInv, AcceptedInv, MemberHasOrigin
    <3> QED
      BY <3>2, <3>5, <3>6, <3>7
  <2>c. CASE Accepted(i, row)
    <3>a. /\ tenant_members' \in [Tenants \X Users -> Member \cup {None}]
          /\ tenant_members'[m] # None
          /\ \A n \in Tenants \X Users : n # m => tenant_members'[n] = tenant_members[n]
      <4>1. [role |-> row.role, is_active |-> TRUE] \in Member
        BY <2>a
      <4> QED
        BY <2>m, <2>c, <4>1 DEF TypeOK
    <3>b. /\ tenant_invitations' \in [Invitations -> Invitation \cup {None}]
          /\ tenant_invitations'[i] \in Invitation
          /\ tenant_invitations'[i].tenant = row.tenant
          /\ tenant_invitations'[i].email = row.email
          /\ tenant_invitations'[i].accepted
          /\ tenant_invitations'[i].expired = row.expired
          /\ \A j \in Invitations : j # i => tenant_invitations'[j] = tenant_invitations[j]
      BY <2>c
    <3>c. /\ pc'[r] = "audit" /\ pc' \in [Slots -> Labels]
          /\ \A q \in Slots \ {r} : pc'[q] = pc[q]
          /\ UNCHANGED <<tenants, owner, handed, call, stale>>
          /\ r \notin stale
      BY <1>19, <2>c DEF CommitJoin, TypeOK, StaleInv, Labels
    <3>d. \A j \in Invitations :
             /\ tenant_invitations'[j] # None <=> tenant_invitations[j] # None
             /\ tenant_invitations[j] # None =>
                 /\ tenant_invitations'[j].tenant = tenant_invitations[j].tenant
                 /\ tenant_invitations'[j].email = tenant_invitations[j].email
                 /\ tenant_invitations[j].accepted => tenant_invitations'[j].accepted
                 /\ tenant_invitations[j].expired => tenant_invitations'[j].expired
      BY <2>a, <3>b
    <3>e. RowsStay
      <4>1. \A n \in Tenants \X Users : tenant_members[n] # None => n # m
        BY <2>c
      <4> QED
        BY <3>a, <3>c, <3>d, <4>1 DEF RowsStay
    <3>1. TypeOK'
      BY <3>a, <3>b, <3>c DEF TypeOK
    <3>2. CallInv'
      <4>1. call[r] \in Call
        BY <1>19 DEF CommitJoin, CallInv
      <4> QED
        BY <3>c, <4>1 DEF CallInv
    <3>3. TenantInv'
      <4>1. \A j \in Invitations : tenant_invitations[j] # None =>
                tenant_invitations[j].tenant \in Tenants
        BY DEF TypeOK
      <4>2. \A n \in Tenants \X Users :
                tenant_members[n] # None => tenant_members'[n] # None
        BY <3>a, <2>c
      <4>3. \A x \in Tenants, v \in Users :
                tenant_members'[<<x, v>>] # None => tenants[x] # "none"
        <5>1. tenants[row.tenant] # "none"
          BY <2>a DEF TenantInv
        <5> QED
          BY <2>a, <3>a, <5>1 DEF TenantInv
      <4> QED
        BY <3>c, <3>d, <4>1, <4>2, <4>3 DEF TenantInv
    <3>4. ReadInv'
      BY <2>a, <3>b, <3>c, <3>e, ReadKept
    <3>5. SlugInv'
      BY <3>c DEF SlugInv
    <3>6. KeyInv'
      <4>1. ASSUME NEW q \in Slots, pc[q] \in {"authorize", "commit"}, call[q].op = "invite"
            PROVE  tenant_invitations'[call[q].invitation] = None
        <5>1. call[q].invitation \in Invitations
          BY <4>1 DEF CallInv, Call
        <5> QED
          BY <3>d, <4>1, <5>1 DEF KeyInv
      <4> QED
        BY <2>a, <3>c, <4>1 DEF KeyInv
    <3>7. AcceptedInv'
      <4>1. ASSUME NEW j \in Invitations, tenant_invitations'[j] # None,
                   tenant_invitations'[j].accepted
            PROVE  tenant_members'[<<tenant_invitations'[j].tenant,
                                     tenant_invitations'[j].email>>] # None
        <5>1. CASE j = i
          BY <2>a, <3>a, <3>b, <5>1
        <5>2. CASE j # i
          <6>1. tenant_invitations'[j] = tenant_invitations[j]
            BY <3>b, <5>2
          <6>2. tenant_invitations[j] \in Invitation
            BY <4>1, <6>1 DEF TypeOK
          <6>3. tenant_members[<<tenant_invitations[j].tenant,
                                 tenant_invitations[j].email>>] # None
            BY <4>1, <6>1 DEF AcceptedInv
          <6> QED
            BY <2>c, <3>a, <6>1, <6>2, <6>3
        <5> QED
          BY <5>1, <5>2
      <4> QED
        BY <3>c, <3>d, <4>1 DEF AcceptedInv
    <3>8. StaleInv'
      BY <3>c, <3>e, StaleKept
    <3>9. MemberHasOrigin'
      <4> SUFFICES ASSUME NEW x \in Tenants, NEW v \in Users,
                          tenant_members'[<<x, v>>] # None, owner'[x] # v
                   PROVE  \E j \in Invitations :
                             /\ tenant_invitations'[j] # None
                             /\ tenant_invitations'[j].accepted
                             /\ tenant_invitations'[j].tenant = x
                             /\ tenant_invitations'[j].email = v
        BY DEF MemberHasOrigin
      <4>1. CASE <<x, v>> = m
        BY <2>a, <3>b, <4>1
      <4>2. CASE <<x, v>> # m
        <5>1. tenant_members[<<x, v>>] # None /\ owner[x] # v
          BY <3>a, <3>c, <4>2
        <5>2. PICK j \in Invitations :
                  /\ tenant_invitations[j] # None
                  /\ tenant_invitations[j].accepted
                  /\ tenant_invitations[j].tenant = x
                  /\ tenant_invitations[j].email = v
          BY <5>1 DEF MemberHasOrigin
        <5> QED
          BY <3>d, <5>2
      <4> QED
        BY <4>1, <4>2
    <3> QED
      BY <3>1, <3>2, <3>3, <3>4, <3>5, <3>6, <3>7, <3>8, <3>9
  <2> QED
    BY <2>a, <2>b, <2>c
<1>20. ASSUME NEW r \in Slots, Audit(r)
      PROVE  IInv'
  <2>1. TypeOK'
    BY <1>20 DEF Audit, TypeOK, CallInv, ReadInv, Call, Labels
  <2>2. CallInv'
    BY <1>20 DEF Audit, CallInv, TypeOK, Call
  <2>3. TenantInv'
    BY <1>20 DEF Audit, TenantInv, TypeOK, CallInv, ReadInv, Call
  <2>4. ReadInv'
    BY <1>20 DEF Audit, ReadInv, TypeOK, CallInv, Call
  <2>5. SlugInv'
    BY <1>20 DEF Audit, SlugInv, TypeOK, CallInv, Call
  <2>6. KeyInv'
    BY <1>20 DEF Audit, KeyInv, TypeOK, CallInv, Call
  <2>7. AcceptedInv'
    BY <1>20 DEF Audit, AcceptedInv, TypeOK, CallInv, ReadInv, KeyInv, Call
  <2>8. StaleInv'
    BY <1>20 DEF Audit, StaleInv, TypeOK, CallInv, ReadInv, TooLate, Removed, Call
  <2>9. MemberHasOrigin'
    BY <1>20 DEF Audit, MemberHasOrigin, TypeOK, CallInv, ReadInv, TenantInv,
                 SlugInv, KeyInv, Call
  <2> QED
    BY <2>1, <2>2, <2>3, <2>4, <2>5, <2>6, <2>7, <2>8, <2>9
<1>21. ASSUME NEW r \in Slots, Fail(r)
      PROVE  IInv'
  <2>1. TypeOK'
    BY <1>21 DEF Fail, TypeOK, CallInv, ReadInv, Call, Labels
  <2>2. CallInv'
    BY <1>21 DEF Fail, CallInv, TypeOK, Call
  <2>3. TenantInv'
    BY <1>21 DEF Fail, TenantInv, TypeOK, CallInv, ReadInv, Call
  <2>4. ReadInv'
    BY <1>21 DEF Fail, ReadInv, TypeOK, CallInv, Call
  <2>5. SlugInv'
    BY <1>21 DEF Fail, SlugInv, TypeOK, CallInv, Call
  <2>6. KeyInv'
    BY <1>21 DEF Fail, KeyInv, TypeOK, CallInv, Call
  <2>7. AcceptedInv'
    BY <1>21 DEF Fail, AcceptedInv, TypeOK, CallInv, ReadInv, KeyInv, Call
  <2>8. StaleInv'
    BY <1>21 DEF Fail, StaleInv, TypeOK, CallInv, ReadInv, TooLate, Removed, Call
  <2>9. MemberHasOrigin'
    BY <1>21 DEF Fail, MemberHasOrigin, TypeOK, CallInv, ReadInv, TenantInv,
                 SlugInv, KeyInv, Call
  <2> QED
    BY <2>1, <2>2, <2>3, <2>4, <2>5, <2>6, <2>7, <2>8, <2>9
<1>22. ASSUME NEW i \in Invitations, Expire(i)
      PROVE  IInv'
  <2>b. /\ tenant_invitations[i] \in Invitation
        /\ tenant_invitations' \in [Invitations -> Invitation \cup {None}]
        /\ tenant_invitations'[i] \in Invitation
        /\ tenant_invitations'[i].tenant = tenant_invitations[i].tenant
        /\ tenant_invitations'[i].email = tenant_invitations[i].email
        /\ tenant_invitations'[i].accepted = tenant_invitations[i].accepted
        /\ tenant_invitations'[i].expired
        /\ \A j \in Invitations : j # i => tenant_invitations'[j] = tenant_invitations[j]
    BY <1>22, ExpireEffect
  <2>c. \A j \in Invitations :
           /\ tenant_invitations'[j] # None <=> tenant_invitations[j] # None
           /\ tenant_invitations[j] # None =>
               /\ tenant_invitations'[j].tenant = tenant_invitations[j].tenant
               /\ tenant_invitations'[j].email = tenant_invitations[j].email
               /\ tenant_invitations'[j].accepted = tenant_invitations[j].accepted
               /\ tenant_invitations[j].expired => tenant_invitations'[j].expired
    BY <1>22, <2>b DEF Expire
  <2>d. UNCHANGED <<tenants, owner, tenant_members, handed, pc, call, stale>>
    BY <1>22 DEF Expire
  <2>e. RowsStay
    BY <2>c, <2>d DEF RowsStay
  <2>1. TypeOK'
    BY <2>b, <2>d DEF TypeOK
  <2>2. CallInv'
    BY <2>d DEF CallInv
  <2>3. TenantInv'
    BY <2>c, <2>d DEF TenantInv
  <2>4. ReadInv'
    <3>1. \A q \in Slots : pc[q] # "idle" => call[q] \in Call
      BY DEF CallInv
    <3>2. \A q \in Slots : pc[q] # "idle" /\ call[q].op \in {"accept", "invite"} =>
              call[q].invitation \in Invitations
      BY <3>1 DEF Call
    <3>3. \A q \in Slots : pc[q] \in {"mark", "exists", "join"} =>
              call[q].op = "accept" /\ tenant_invitations[call[q].invitation] # None
      BY DEF CallInv, ReadInv
    <3> QED
      BY <2>c, <2>d, <3>2, <3>3 DEF ReadInv
  <2>5. SlugInv'
    BY <2>d DEF SlugInv
  <2>6. KeyInv'
    <3>1. \A q \in Slots : pc[q] \in {"authorize", "commit"} /\ call[q].op = "invite" =>
              call[q].invitation \in Invitations
      BY DEF CallInv, Call
    <3> QED
      BY <2>c, <2>d, <3>1 DEF KeyInv
  <2>7. AcceptedInv'
    BY <2>c, <2>d DEF AcceptedInv
  <2>8. StaleInv'
    <3> SUFFICES ASSUME NEW q \in stale
                 PROVE  pc[q] \in {"authorize", "find"} /\ TooLate(call[q])'
      BY <2>d DEF StaleInv
    <3>1. q \in Slots /\ pc[q] \in {"authorize", "find"}
      BY DEF TypeOK, StaleInv
    <3>2. PICK c \in Call : c = call[q]
      BY <3>1 DEF CallInv
    <3>3. TooLate(c)'
      BY <2>e, <3>1, <3>2, TooLateStays DEF StaleInv, ReadInv
    <3> QED
      BY <2>d, <3>1, <3>2, <3>3 DEF TooLate, Removed
  <2>9. MemberHasOrigin'
    BY <2>c, <2>d DEF MemberHasOrigin
  <2> QED
    BY <2>1, <2>2, <2>3, <2>4, <2>5, <2>6, <2>7, <2>8, <2>9
<1>23. CASE UNCHANGED vars
  BY <1>23 DEF vars, TypeOK, CallInv, TenantInv, ReadInv, SlugInv, KeyInv,
               AcceptedInv, StaleInv, MemberHasOrigin, TooLate, Removed
<1> QED
  BY <1>1, <1>2, <1>3, <1>4, <1>5, <1>6, <1>7, <1>8, <1>9, <1>10, <1>11, <1>12, <1>13,
     <1>14, <1>15, <1>16, <1>17, <1>18, <1>19, <1>20, <1>21, <1>22, <1>23
     DEF Next, Arrivals, Serve

-----------------------------------------------------------------------------
\* Empty tables satisfy the invariant.
LEMMA InitiallyIInv == Init => IInv
BY NoneAssumption
   DEF Init, IInv, TypeOK, CallInv, TenantInv, ReadInv, SlugInv, KeyInv, AcceptedInv,
       StaleInv, MemberHasOrigin, Labels

\* The invariant holds in every reachable state.
LEMMA AlwaysIInv == Spec => []IInv
BY InitiallyIInv, InductiveStep, PTL DEF Spec

\* The rows of tenants, tenant_members and tenant_invitations and the stages of
\* the requests always hold what their columns and handlers allow.
THEOREM TypeCorrect == Spec => []TypeOK
BY AlwaysIInv, PTL DEF IInv

\* create_tenant never leaves a tenant without its owner's membership.
THEOREM TenantsHaveOwners == Spec => []TenantHasOwner
<1>1. IInv => TenantHasOwner
  BY NoneAssumption DEF IInv, TenantInv, TenantHasOwner
<1> QED
  BY <1>1, AlwaysIInv, PTL

\* require_tenant_admin and the checks of accept_invitation stop every request
\* that arrives after its authority has gone.
THEOREM StaleRequestsAreStopped == Spec => []NoStaleEffect
<1>1. IInv => NoStaleEffect
  BY DEF IInv, StaleInv, NoStaleEffect
<1> QED
  BY <1>1, AlwaysIInv, PTL

\* The arrival of a request changes no row.
LEMMA ArrivalsWriteNothing ==
  ASSUME NEW r \in Slots, Arrivals(r)
  PROVE  UNCHANGED tables
<1>1. ASSUME NEW u, NEW t, ArriveCreate(r, u, t) PROVE UNCHANGED tables
  BY <1>1 DEF ArriveCreate, Arrive
<1>2. ASSUME NEW u, NEW t, NEW active, ArriveUpdate(r, u, t, active) PROVE UNCHANGED tables
  BY <1>2 DEF ArriveUpdate, Arrive
<1>3. ASSUME NEW u, NEW t, NEW v, NEW role, NEW i, ArriveInvite(r, u, t, v, role, i)
      PROVE  UNCHANGED tables
  BY <1>3 DEF ArriveInvite, Arrive
<1>4. ASSUME NEW u, NEW i, ArriveAccept(r, u, i) PROVE UNCHANGED tables
  BY <1>4 DEF ArriveAccept, Arrive
<1>5. ASSUME NEW u, NEW t, NEW v, NEW role, ArriveRole(r, u, t, v, role)
      PROVE  UNCHANGED tables
  BY <1>5 DEF ArriveRole, Arrive
<1>6. ASSUME NEW u, NEW t, NEW v, ArriveRemove(r, u, t, v) PROVE UNCHANGED tables
  BY <1>6 DEF ArriveRemove, Arrive
<1> QED
  BY <1>1, <1>2, <1>3, <1>4, <1>5, <1>6 DEF Arrivals

\* delete_tenant is final: no update_tenant that read the tenant before brings
\* it back.
THEOREM DeactivationsAreFinal == Spec => DeactivationIsFinal
<1> DEFINE Final == \A t \in Tenants : tenants[t] = "inactive" => tenants'[t] = "inactive"
<1>1. IInv /\ [Next]_vars => [Final]_vars
  <2> SUFFICES ASSUME IInv, [Next]_vars, NEW t \in Tenants, tenants[t] = "inactive"
               PROVE  tenants'[t] = "inactive"
    OBVIOUS
  <2>1. ASSUME NEW r \in Slots, CommitUpdate(r) PROVE tenants'[t] = "inactive"
    BY <2>1 DEF CommitUpdate, IInv, TypeOK
  <2>2. ASSUME NEW r \in Slots, CommitCreate(r) PROVE tenants'[t] = "inactive"
    <3>1. tenants[call[r].tenant] = "none"
      BY <2>2 DEF CommitCreate, IInv, SlugInv
    <3> QED
      BY <2>2, <3>1 DEF CommitCreate, IInv, TypeOK
  <2>3. ASSUME NEW r \in Slots, Arrivals(r) PROVE tenants' = tenants
    BY <2>3, ArrivalsWriteNothing DEF tables
  <2>4. ASSUME NEW r \in Slots, Serve(r), ~ CommitUpdate(r), ~ CommitCreate(r)
        PROVE  tenants' = tenants
    BY <2>4 DEF Serve, Authorize, ReadTenant, ReadMember, CommitInvite, CommitRole,
                CommitRemove, InsertTenant, FindInvitation, MarkAccepted,
                CheckExisting, CommitJoin, Audit, tables
  <2> QED
    BY <2>1, <2>2, <2>3, <2>4 DEF Next, Fail, Expire, vars, tables
<1> QED
  BY <1>1, AlwaysIInv, PTL DEF Spec, DeactivationIsFinal

-----------------------------------------------------------------------------
\* Nothing about tenant t changes, and the request in slot r is not let in to it.
NothingFor(t, r) ==
    /\ tenants[t] # "none" => tenants'[t] # "none"
    /\ \A u \in Users : tenant_members'[<<t, u>>] = tenant_members[<<t, u>>]
    /\ UNCHANGED tenant_invitations
    /\ \A q \in Slots \ {r} : pc'[q] = pc[q] /\ call'[q] = call[q]
    /\ ~ LetIn(r, t)'

LEMMA NothingKeepsAbandoned ==
    ASSUME NEW t \in Tenants, NEW r \in Slots, Abandoned(t), NothingFor(t, r)
    PROVE  Abandoned(t)'
<1>1. \A i : OffersAdmin(i, t)' <=> OffersAdmin(i, t)
  BY DEF NothingFor, OffersAdmin
<1>2. \A q \in Slots : ~ LetIn(q, t)'
  <2>1. \A q \in Slots \ {r} : LetIn(q, t)' => LetIn(q, t)
    BY <1>1 DEF NothingFor, LetIn
  <2> QED
    BY <2>1 DEF Abandoned, NothingFor
<1>3. \A u \in Users : Active(t, u)' => tenant_members'[<<t, u>>].role \notin AdminRoles
  BY DEF Abandoned, NothingFor, Active
<1>4. \A i \in Invitations : OffersAdmin(i, t)' =>
          tenant_invitations'[i].accepted \/ tenant_invitations'[i].expired
  BY <1>1 DEF Abandoned, NothingFor
<1> QED
  BY <1>2, <1>3, <1>4 DEF Abandoned, NothingFor

\* Arrivals and reads: only an admin of t, or an open invitation to become one, is
\* let in to t.
LEMMA ReadsKeepAbandoned ==
    ASSUME IInv, NEW t \in Tenants, NEW r \in Slots, Abandoned(t),
           \/ Arrivals(r) \/ Authorize(r) \/ ReadTenant(r) \/ ReadMember(r) \/ InsertTenant(r)
           \/ FindInvitation(r) \/ MarkAccepted(r) \/ CheckExisting(r) \/ Audit(r) \/ Fail(r)
    PROVE  Abandoned(t)'
<1>1. UNCHANGED tables
  BY ArrivalsWriteNothing DEF Authorize, ReadTenant, ReadMember, InsertTenant, FindInvitation,
     MarkAccepted, CheckExisting, Audit, Fail
<1>2. ASSUME NEW label \in {"authorize", "insert", "find"}, NEW c, Arrive(r, label, c)
      PROVE  NothingFor(t, r)
  <2>1. /\ pc'[r] = label
        /\ \A q \in Slots \ {r} : pc'[q] = pc[q] /\ call'[q] = call[q]
    BY <1>2 DEF Arrive, IInv, TypeOK
  <2> QED
    BY <1>1, <2>1 DEF NothingFor, LetIn, tables
<1>3. ASSUME NEW label, Goto(r, label), ~ LetIn(r, t)'
      PROVE  NothingFor(t, r)
  <2>1. \A q \in Slots \ {r} : pc'[q] = pc[q] /\ call'[q] = call[q]
    BY <1>3 DEF Goto, IInv, TypeOK
  <2> QED
    BY <1>1, <1>3, <2>1 DEF NothingFor, tables
<1>4. ~ LetIn(r, t)
  BY DEF Abandoned
<1>5. \A label : Goto(r, label) => pc'[r] = label /\ (label # "idle" => UNCHANGED call)
  BY DEF Goto, IInv, TypeOK
<1>6. \A i : OffersAdmin(i, t)' <=> OffersAdmin(i, t)
  BY <1>1 DEF OffersAdmin, tables
<1>7. CASE Arrivals(r)
  <2>1. \E label \in {"authorize", "insert", "find"} : \E c : Arrive(r, label, c)
    BY <1>7 DEF Arrivals, ArriveCreate, ArriveUpdate, ArriveInvite, ArriveAccept, ArriveRole,
                ArriveRemove
  <2> QED
    BY <1>2, <2>1, NothingKeepsAbandoned
<1>8. CASE Authorize(r)
  <2>1. PICK label : Goto(r, label)
    BY <1>8 DEF Authorize
  <2>2. ~ LetIn(r, t)'
    <3>1. CASE call[r].tenant = t /\ pc'[r] # "idle"
      <4>1. call[r].actor \in Users
        BY <1>8 DEF Authorize, IInv, CallInv, Call
      <4>2. ~ (Active(t, call[r].actor)
               /\ tenant_members[<<t, call[r].actor>>].role \in AdminRoles)
        BY <4>1 DEF Abandoned
      <4> QED
        BY <1>5, <1>8, <3>1, <4>2 DEF Authorize
    <3>2. CASE call[r].tenant # t \/ pc'[r] = "idle"
      <4>1. pc'[r] \in {"idle", "read", "commit"}
        BY <1>5, <1>8 DEF Authorize
      <4> QED
        BY <1>5, <2>1, <3>2, <4>1 DEF LetIn
    <3> QED
      BY <3>1, <3>2
  <2> QED
    BY <1>3, <2>1, <2>2, NothingKeepsAbandoned
<1>9. CASE ReadTenant(r) \/ ReadMember(r)
  <2>1. /\ pc[r] = "read"
        /\ \E label \in {"idle", "audit", "commit"} : Goto(r, label)
    BY <1>9 DEF ReadTenant, ReadMember
  <2>2. ~ LetIn(r, t)'
    BY <1>4, <1>5, <2>1 DEF LetIn
  <2> QED
    BY <1>3, <2>1, <2>2, NothingKeepsAbandoned
<1>10. CASE FindInvitation(r)
  <2>1. PICK label : Goto(r, label)
    BY <1>10 DEF FindInvitation
  <2>2. ~ LetIn(r, t)'
    <3>1. CASE pc'[r] = "mark"
      <4>1. call[r].invitation \in Invitations
        BY <1>10 DEF FindInvitation, IInv, CallInv, Call
      <4>2. /\ ~ tenant_invitations[call[r].invitation].accepted
            /\ ~ tenant_invitations[call[r].invitation].expired
        BY <1>5, <1>10, <3>1 DEF FindInvitation
      <4>3. ~ OffersAdmin(call[r].invitation, t)
        BY <4>1, <4>2 DEF Abandoned
      <4> QED
        BY <1>5, <1>6, <2>1, <3>1, <4>3 DEF LetIn
    <3>2. CASE pc'[r] = "idle"
      BY <3>2 DEF LetIn
    <3> QED
      BY <1>5, <1>10, <3>1, <3>2 DEF FindInvitation
  <2> QED
    BY <1>3, <2>1, <2>2, NothingKeepsAbandoned
<1>11. CASE MarkAccepted(r) \/ CheckExisting(r)
  <2>1. /\ pc[r] \in {"mark", "exists"}
        /\ \E label \in {"idle", "exists", "join"} : Goto(r, label)
    BY <1>11 DEF MarkAccepted, CheckExisting
  <2>2. ~ LetIn(r, t)'
    BY <1>4, <1>5, <1>6, <2>1 DEF LetIn
  <2> QED
    BY <1>3, <2>1, <2>2, NothingKeepsAbandoned
<1>12. CASE InsertTenant(r) \/ Audit(r) \/ Fail(r)
  <2>1. \E label \in {"idle", "own"} : Goto(r, label)
    BY <1>12 DEF InsertTenant, Audit, Fail
  <2>2. ~ LetIn(r, t)'
    BY <1>5, <2>1 DEF LetIn
  <2> QED
    BY <1>3, <2>1, <2>2, NothingKeepsAbandoned
<1> QED
  BY <1>7, <1>8, <1>9, <1>10, <1>11, <1>12

\* Commits of requests that are in another tenant.
LEMMA CommitsKeepAbandoned ==
    ASSUME IInv, NEW t \in Tenants, NEW r \in Slots, Abandoned(t),
           CommitUpdate(r) \/ CommitRole(r) \/ CommitRemove(r) \/ CommitCreate(r)
    PROVE  Abandoned(t)'
<1>1. call[r] \in Call /\ call[r].tenant \in Tenants /\ call[r].tenant # t
  <2>1. call[r] \in Call /\ call[r].op \in AdminOps \cup {"create"}
    BY DEF CommitUpdate, CommitRole, CommitRemove, CommitCreate, IInv, CallInv
  <2>2. CASE CommitCreate(r)
    BY <2>1, <2>2 DEF CommitCreate, IInv, SlugInv, Abandoned, Call, AdminOps, CallInv
  <2>3. CASE CommitUpdate(r) \/ CommitRole(r) \/ CommitRemove(r)
    BY <2>1, <2>3 DEF CommitUpdate, CommitRole, CommitRemove, Abandoned, LetIn, Call, AdminOps
  <2> QED
    BY <2>2, <2>3
<1>2. /\ Goto(r, "audit")
      /\ UNCHANGED tenant_invitations
      /\ tenants'[t] = tenants[t]
      /\ \A u \in Users : tenant_members'[<<t, u>>] = tenant_members[<<t, u>>]
  BY <1>1 DEF CommitUpdate, CommitRole, CommitRemove, CommitCreate, IInv, TypeOK
<1>3. /\ pc'[r] = "audit"
      /\ \A q \in Slots \ {r} : pc'[q] = pc[q] /\ call'[q] = call[q]
  BY <1>2 DEF Goto, IInv, TypeOK
<1> QED
  BY <1>2, <1>3, NothingKeepsAbandoned DEF NothingFor, LetIn

\* Invitations that are made, used or expire offer nobody the administration of t.
LEMMA OffersKeepAbandoned ==
    ASSUME NEW t \in Tenants, NEW i \in Invitations, Abandoned(t),
           tenants'[t] # "none",
           OffersAdmin(i, t)' => /\ OffersAdmin(i, t)
                                 /\ tenant_invitations'[i].accepted \/ tenant_invitations'[i].expired,
           \A j \in Invitations : j # i => tenant_invitations'[j] = tenant_invitations[j],
           \A u \in Users : \/ tenant_members'[<<t, u>>] = tenant_members[<<t, u>>]
                            \/ tenant_members'[<<t, u>>].role \notin AdminRoles,
           \A q \in Slots : pc'[q] = "audit" \/ (pc'[q] = pc[q] /\ call'[q] = call[q]),
           \A q \in Slots : pc[q] \in {"mark", "exists", "join"} => call[q].invitation \in Invitations
    PROVE  Abandoned(t)'
<1>1. \A j \in Invitations : OffersAdmin(j, t)' => OffersAdmin(j, t)
  BY DEF OffersAdmin
<1>2. \A q \in Slots : ~ LetIn(q, t)'
  <2>1. \A q \in Slots : LetIn(q, t)' => LetIn(q, t)
    BY <1>1 DEF LetIn
  <2> QED
    BY <2>1 DEF Abandoned
<1>3. \A u \in Users : Active(t, u)' => tenant_members'[<<t, u>>].role \notin AdminRoles
  BY DEF Abandoned, Active
<1>4. \A j \in Invitations : OffersAdmin(j, t)' =>
          tenant_invitations'[j].accepted \/ tenant_invitations'[j].expired
  BY <1>1 DEF Abandoned
<1> QED
  BY <1>2, <1>3, <1>4 DEF Abandoned

\* Nobody who works for a tenant gets it back once its admins are gone
\* (require_tenant_admin against remove_member, update_member_role, invite_member
\* and accept_invitation in flight).
THEOREM AbandonedTenantsStaySo == Spec => AbandonmentIsFinal
<1> DEFINE Final == \A t \in Tenants : Abandoned(t) => Abandoned(t)'
<1>1. IInv /\ [Next]_vars => [Final]_vars
  <2> SUFFICES ASSUME IInv, [Next]_vars, NEW t \in Tenants, Abandoned(t)
               PROVE  Abandoned(t)' \/ UNCHANGED vars
    OBVIOUS
  <2>a. \A q \in Slots : pc[q] \in {"mark", "exists", "join"} => call[q].invitation \in Invitations
    BY DEF IInv, CallInv, Call
  <2>1. ASSUME NEW r \in Slots, CommitInvite(r) PROVE Abandoned(t)'
    <3>1. PICK i \in Invitations : i = call[r].invitation
      BY <2>1 DEF CommitInvite, IInv, CallInv, Call
    <3>2. call[r].tenant # t
      BY <2>1 DEF CommitInvite, Abandoned, LetIn
    <3>3. /\ tenant_invitations'[i].tenant = call[r].tenant
          /\ \A j \in Invitations : j # i => tenant_invitations'[j] = tenant_invitations[j]
          /\ UNCHANGED <<tenants, tenant_members>>
      BY <2>1, <3>1 DEF CommitInvite, IInv, TypeOK
    <3>4. \A q \in Slots : pc'[q] = "audit" \/ (pc'[q] = pc[q] /\ call'[q] = call[q])
      BY <2>1 DEF CommitInvite, Goto, IInv, TypeOK
    <3> QED
      BY <2>a, <3>2, <3>3, <3>4, OffersKeepAbandoned DEF OffersAdmin, Abandoned
  <2>2. ASSUME NEW r \in Slots, CommitJoin(r) PROVE Abandoned(t)'
    <3>1. PICK i \in Invitations, row \in Invitation :
            /\ call[r].op = "accept" /\ call[r].invitation = i
            /\ tenant_invitations[i] = row
            /\ \/ /\ tenant_members[<<row.tenant, row.email>>] # None
                  /\ UNCHANGED <<tables, handed>>
                  /\ Goto(r, "idle")
               \/ /\ tenant_members[<<row.tenant, row.email>>] = None
                  /\ tenant_members' = [tenant_members EXCEPT ![<<row.tenant, row.email>>] =
                                           [role |-> row.role, is_active |-> TRUE]]
                  /\ tenant_invitations' \in [Invitations -> Invitation \cup {None}]
                  /\ tenant_invitations'[i] \in Invitation
                  /\ tenant_invitations'[i].tenant = row.tenant
                  /\ tenant_invitations'[i].email = row.email
                  /\ tenant_invitations'[i].role = row.role
                  /\ tenant_invitations'[i].accepted
                  /\ tenant_invitations'[i].expired = row.expired
                  /\ \A j \in Invitations :
                         j # i => tenant_invitations'[j] = tenant_invitations[j]
                  /\ UNCHANGED <<tenants, owner, handed>>
                  /\ Goto(r, "audit")
      BY <2>2, JoinEffect
    <3>2. ~ OffersAdmin(i, t)
      BY <2>2, <3>1 DEF CommitJoin, Abandoned, LetIn
    <3>3. ~ (row.tenant = t /\ row.role \in AdminRoles)
      BY <3>1, <3>2, NoneAssumption DEF OffersAdmin
    <3>4. CASE UNCHANGED tables /\ Goto(r, "idle")
      <4>1. NothingFor(t, r)
        BY <3>4 DEF NothingFor, LetIn, Goto, tables, IInv, TypeOK
      <4> QED
        BY <4>1, NothingKeepsAbandoned
    <3>5. CASE /\ tenant_members' = [tenant_members EXCEPT ![<<row.tenant, row.email>>] =
                                        [role |-> row.role, is_active |-> TRUE]]
               /\ tenant_invitations'[i].tenant = row.tenant
               /\ tenant_invitations'[i].role = row.role
               /\ \A j \in Invitations :
                      j # i => tenant_invitations'[j] = tenant_invitations[j]
               /\ UNCHANGED tenants
               /\ Goto(r, "audit")
      <4>1. \A u \in Users : \/ tenant_members'[<<t, u>>] = tenant_members[<<t, u>>]
                             \/ tenant_members'[<<t, u>>].role \notin AdminRoles
        BY <3>3, <3>5 DEF IInv, TypeOK, Invitation
      <4>2. \A q \in Slots : pc'[q] = "audit" \/ (pc'[q] = pc[q] /\ call'[q] = call[q])
        BY <3>5 DEF Goto, IInv, TypeOK
      <4>3. ~ OffersAdmin(i, t)'
        BY <3>3, <3>5 DEF OffersAdmin
      <4> QED
        BY <2>a, <3>5, <4>1, <4>2, <4>3, OffersKeepAbandoned DEF Abandoned
    <3> QED
      BY <3>1, <3>4, <3>5
  <2>3. ASSUME NEW i \in Invitations, Expire(i) PROVE Abandoned(t)'
    <3>1. OffersAdmin(i, t)' => OffersAdmin(i, t)
      BY <2>3, ExpireEffect, NoneAssumption DEF OffersAdmin
    <3>2. UNCHANGED <<tenants, tenant_members, pc, call>>
      BY <2>3 DEF Expire
    <3> QED
      BY <2>3, <2>a, <3>1, <3>2, ExpireEffect, OffersKeepAbandoned DEF Abandoned
  <2> QED
    BY <2>1, <2>2, <2>3, ReadsKeepAbandoned, CommitsKeepAbandoned DEF Next, Serve
<1> QED
  BY <1>1, AlwaysIInv, PTL DEF Spec, AbandonmentIsFinal

-----------------------------------------------------------------------------
\* What a commit does to members and offers, as Membership sees it.
LEMMA InviteOffers ==
  ASSUME IInv, IInv', NEW r \in Slots, CommitInvite(r)
  PROVE  \E i \in Invitations, t \in Tenants, u \in Users : Promise!Offer(i, t, u)
<1>1. call[r] \in Call /\ call[r].op = "invite"
  BY DEF CommitInvite, IInv, CallInv
<1>2. PICK i \in Invitations, t \in Tenants, u \in Users :
          i = call[r].invitation /\ t = call[r].tenant /\ u = call[r].email
  BY <1>1 DEF Call
<1>3. tenant_invitations[i] = None
  BY <1>1, <1>2 DEF CommitInvite, IInv, KeyInv
<1>4. /\ tenant_invitations'[i] =
             [tenant |-> t, email |-> u, role |-> call[r].role,
              accepted |-> FALSE, expired |-> FALSE]
      /\ \A j \in Invitations : j # i => tenant_invitations'[j] = tenant_invitations[j]
  BY <1>2 DEF CommitInvite, IInv, TypeOK
<1>5. tenant_invitations'[i] # None
  <2>1. call[r].role \in Roles
    BY <1>1 DEF Call
  <2>2. tenant_invitations'[i] \in Invitation
    BY <1>4, <2>1 DEF Invitation
  <2> QED
    BY <2>2, NoneAssumption
<1>6. /\ OfferOf(i) = None
      /\ OfferOf(i)' = [tenant |-> t, user |-> u, open |-> TRUE]
      /\ \A j \in Invitations : j # i => OfferOf(j)' = OfferOf(j)
  <2>1. OfferOf(i) = None
    BY <1>3 DEF OfferOf
  <2>2. /\ tenant_invitations'[i].tenant = t /\ tenant_invitations'[i].email = u
        /\ (~ tenant_invitations'[i].accepted) = TRUE
    BY <1>4
  <2>3. OfferOf(i)' = [tenant |-> t, user |-> u, open |-> TRUE]
    BY <1>5, <2>2 DEF OfferOf
  <2>4. \A j \in Invitations : j # i => OfferOf(j)' = OfferOf(j)
    BY <1>4 DEF OfferOf
  <2> QED
    BY <2>1, <2>3, <2>4
<1>7. PICK v \in Users : tenant_members[<<t, v>>] # None
  BY <1>1, <1>2 DEF CommitInvite, IInv, ReadInv, TenantInv, AdminOps
<1>8. Promise!Founded(t)
  BY <1>7 DEF Promise!Founded, Standing
<1>9. \A m \in Tenants \X Users : Standing(m)' = Standing(m)
  BY DEF CommitInvite, Standing
<1> QED
  BY <1>6, <1>8, <1>9 DEF Promise!Offer

\* remove_member is Remove of Membership.
LEMMA RemoveRemoves ==
  ASSUME IInv, NEW r \in Slots, CommitRemove(r)
  PROVE  \/ \E t \in Tenants, u \in Users : Promise!Remove(t, u)
         \/ UNCHANGED Promise!vars
<1>1. PICK m \in Tenants \X Users :
            /\ tenant_members[m] \in Member
            /\ tenant_members' \in [Tenants \X Users -> Member \cup {None}]
            /\ tenant_members'[m] \in Member
            /\ ~ tenant_members'[m].is_active
            /\ \A n \in Tenants \X Users : n # m => tenant_members'[n] = tenant_members[n]
  BY RemoveEffect
<1>2. PICK t \in Tenants, u \in Users : m = <<t, u>>
  OBVIOUS
<1>3. /\ Standing(m)' = "removed"
      /\ Standing(m) = IF tenant_members[m].is_active THEN "member" ELSE "removed"
      /\ \A n \in Tenants \X Users : n # m => Standing(n)' = Standing(n)
  BY <1>1, NoneAssumption DEF Standing
<1>4. \A i \in Invitations : OfferOf(i)' = OfferOf(i)
  BY DEF CommitRemove, OfferOf
<1>5. CASE tenant_members[m].is_active
  BY <1>2, <1>3, <1>4, <1>5 DEF Promise!Remove
<1>6. CASE ~ tenant_members[m].is_active
  BY <1>3, <1>4, <1>6 DEF Promise!vars
<1> QED
  BY <1>5, <1>6

\* create_tenant is Found of Membership.
LEMMA CreateFounds ==
  ASSUME IInv, NEW r \in Slots, CommitCreate(r)
  PROVE  \E t \in Tenants, u \in Users : Promise!Found(t, u)
<1>1. PICK t \in Tenants, u \in Users : t = call[r].tenant /\ u = call[r].actor
  BY DEF CommitCreate, IInv, CallInv, Call
<1>2. \A v \in Users : tenant_members[<<t, v>>] = None
  BY <1>1 DEF CommitCreate, IInv, SlugInv, TenantInv
<1>3. ~ Promise!Founded(t)
  BY <1>2 DEF Promise!Founded, Standing
<1>4. /\ tenant_members'[<<t, u>>] = [role |-> "tenant_admin", is_active |-> TRUE]
      /\ \A n \in Tenants \X Users :
             n # <<t, u>> => tenant_members'[n] = tenant_members[n]
  BY <1>1 DEF CommitCreate, IInv, TypeOK
<1>5. [role |-> "tenant_admin", is_active |-> TRUE] \in Member
  BY RolesAssumption DEF Member
<1>6. /\ Standing(<<t, u>>)' = "member"
      /\ \A n \in Tenants \X Users : n # <<t, u>> => Standing(n)' = Standing(n)
  <2>1. tenant_members'[<<t, u>>] # None /\ tenant_members'[<<t, u>>].is_active
    <3>1. tenant_members'[<<t, u>>] \in Member
      BY <1>4, <1>5
    <3>2. tenant_members'[<<t, u>>].is_active
      BY <1>4
    <3> QED
      BY <3>1, <3>2, NoneAssumption
  <2>2. Standing(<<t, u>>)' = "member"
    BY <2>1 DEF Standing
  <2>3. \A n \in Tenants \X Users : n # <<t, u>> => Standing(n)' = Standing(n)
    BY <1>4 DEF Standing
  <2> QED
    BY <2>2, <2>3
<1>7. \A i \in Invitations : OfferOf(i)' = OfferOf(i)
  BY DEF CommitCreate, OfferOf
<1> QED
  BY <1>3, <1>6, <1>7 DEF Promise!Found

\* accept_invitation is Join of Membership.
LEMMA JoinJoins ==
  ASSUME IInv, NEW r \in Slots, CommitJoin(r)
  PROVE  \/ \E i \in Invitations, t \in Tenants, u \in Users : Promise!Join(i, t, u)
         \/ UNCHANGED Promise!vars
<1>1. PICK i \in Invitations, row \in Invitation :
            /\ call[r].op = "accept" /\ call[r].invitation = i
            /\ tenant_invitations[i] = row
            /\ \/ /\ tenant_members[<<row.tenant, row.email>>] # None
                  /\ UNCHANGED <<tables, handed>>
                  /\ Goto(r, "idle")
               \/ /\ tenant_members[<<row.tenant, row.email>>] = None
                  /\ tenant_members' = [tenant_members EXCEPT ![<<row.tenant, row.email>>] =
                                           [role |-> row.role, is_active |-> TRUE]]
                  /\ tenant_invitations' \in [Invitations -> Invitation \cup {None}]
                  /\ tenant_invitations'[i] \in Invitation
                  /\ tenant_invitations'[i].tenant = row.tenant
                  /\ tenant_invitations'[i].email = row.email
                  /\ tenant_invitations'[i].role = row.role
                  /\ tenant_invitations'[i].accepted
                  /\ tenant_invitations'[i].expired = row.expired
                  /\ \A j \in Invitations :
                         j # i => tenant_invitations'[j] = tenant_invitations[j]
                  /\ UNCHANGED <<tenants, owner, handed>>
                  /\ Goto(r, "audit")
  BY JoinEffect
<1>2. PICK t \in Tenants, u \in Users : t = row.tenant /\ u = row.email
  BY DEF Invitation
<1>3. CASE tenant_members[<<t, u>>] # None
  BY <1>1, <1>2, <1>3 DEF Promise!vars, Standing, OfferOf, tables
<1>4. CASE tenant_members[<<t, u>>] = None
  <2>1. /\ tenant_members'[<<t, u>>] = [role |-> row.role, is_active |-> TRUE]
        /\ \A n \in Tenants \X Users :
               n # <<t, u>> => tenant_members'[n] = tenant_members[n]
    BY <1>1, <1>2, <1>4 DEF IInv, TypeOK
  <2>2. [role |-> row.role, is_active |-> TRUE] \in Member
    BY DEF Member, Invitation
  <2>3. /\ Standing(<<t, u>>) = "outsider" /\ Standing(<<t, u>>)' = "member"
        /\ \A n \in Tenants \X Users : n # <<t, u>> => Standing(n)' = Standing(n)
    <3>1. tenant_members'[<<t, u>>] # None /\ tenant_members'[<<t, u>>].is_active
      <4>1. tenant_members'[<<t, u>>] \in Member
        BY <2>1, <2>2
      <4>2. tenant_members'[<<t, u>>].is_active
        BY <2>1
      <4> QED
        BY <4>1, <4>2, NoneAssumption
    <3>2. Standing(<<t, u>>) = "outsider" /\ Standing(<<t, u>>)' = "member"
      BY <1>4, <3>1 DEF Standing
    <3>3. \A n \in Tenants \X Users : n # <<t, u>> => Standing(n)' = Standing(n)
      BY <2>1 DEF Standing
    <3> QED
      BY <3>2, <3>3
  <2>4. ~ row.accepted /\ row # None
    BY <1>1, <1>2, <1>4, NoneAssumption DEF IInv, AcceptedInv
  <2>5. OfferOf(i) = [tenant |-> t, user |-> u, open |-> TRUE]
    <3>1. (~ tenant_invitations[i].accepted) = TRUE
      BY <1>1, <2>4
    <3> QED
      BY <1>1, <1>2, <2>4, <3>1 DEF OfferOf
  <2>6. OfferOf(i)' = [tenant |-> t, user |-> u, open |-> FALSE]
    <3>1. (~ tenant_invitations'[i].accepted) = FALSE
      BY <1>1, <1>2, <1>4
    <3>2. /\ tenant_invitations'[i] # None
          /\ tenant_invitations'[i].tenant = t /\ tenant_invitations'[i].email = u
      BY <1>1, <1>2, <1>4, NoneAssumption
    <3> QED
      BY <3>1, <3>2 DEF OfferOf
  <2>7. \A j \in Invitations : j # i => OfferOf(j)' = OfferOf(j)
    BY <1>1, <1>2, <1>4 DEF OfferOf
  <2> QED
    BY <2>3, <2>5, <2>6, <2>7 DEF Promise!Join
<1> QED
  BY <1>3, <1>4

\* Changing a role and the passing of expires_at are invisible.
LEMMA RoleHides ==
  ASSUME IInv, NEW r \in Slots, CommitRole(r)
  PROVE  UNCHANGED Promise!vars
<1>1. PICK m \in Tenants \X Users : m = <<call[r].tenant, call[r].target>>
  BY DEF CommitRole, IInv, CallInv, AdminOps, Call
<1>2. tenant_members[m] \in Member
  BY <1>1 DEF CommitRole, IInv, ReadInv, TypeOK
<1>3. call[r].role \in Roles
  BY DEF CommitRole, IInv, CallInv, AdminOps, Call
<1>4. /\ tenant_members'[m] = [tenant_members[m] EXCEPT !.role = call[r].role]
      /\ \A n \in Tenants \X Users : n # m => tenant_members'[n] = tenant_members[n]
  BY <1>1 DEF CommitRole, IInv, TypeOK
<1>5. /\ tenant_members'[m] \in Member
      /\ tenant_members'[m].is_active = tenant_members[m].is_active
  BY <1>2, <1>3, <1>4 DEF Member
<1>6. \A n \in Tenants \X Users : Standing(n)' = Standing(n)
  BY <1>2, <1>4, <1>5, NoneAssumption DEF Standing
<1>7. \A i \in Invitations : OfferOf(i)' = OfferOf(i)
  BY DEF CommitRole, OfferOf
<1> QED
  BY <1>6, <1>7 DEF Promise!vars

\* The passing of expires_at changes neither members nor offers.
LEMMA ExpireHides ==
  ASSUME IInv, NEW i \in Invitations, Expire(i)
  PROVE  UNCHANGED Promise!vars
<1>1. OfferOf(i)' = OfferOf(i)
  <2>1. (~ tenant_invitations'[i].accepted) = (~ tenant_invitations[i].accepted)
    BY ExpireEffect
  <2> QED
    BY <2>1, ExpireEffect, NoneAssumption DEF OfferOf
<1>2. \A j \in Invitations : j # i => OfferOf(j)' = OfferOf(j)
  BY ExpireEffect DEF OfferOf
<1>3. \A n \in Tenants \X Users : Standing(n)' = Standing(n)
  BY DEF Expire, Standing
<1> QED
  BY <1>1, <1>2, <1>3 DEF Promise!vars

\* A step of the service is a step of Membership, or invisible to it.
LEMMA StepImplements == IInv /\ IInv' /\ [Next]_vars => [Promise!Next]_(Promise!vars)
<1> SUFFICES ASSUME IInv, IInv', [Next]_vars
             PROVE  Promise!Next \/ UNCHANGED Promise!vars
  OBVIOUS
<1>1. CASE UNCHANGED <<tenant_members, tenant_invitations>>
  BY <1>1 DEF Promise!vars, Standing, OfferOf
<1>2. ASSUME NEW r \in Slots, CommitInvite(r) PROVE Promise!Next
  BY <1>2, InviteOffers DEF Promise!Next
<1>3. ASSUME NEW r \in Slots, CommitRemove(r)
      PROVE  Promise!Next \/ UNCHANGED Promise!vars
  BY <1>3, RemoveRemoves DEF Promise!Next
<1>4. ASSUME NEW r \in Slots, CommitCreate(r) PROVE Promise!Next
  BY <1>4, CreateFounds DEF Promise!Next
<1>5. ASSUME NEW r \in Slots, CommitJoin(r)
      PROVE  Promise!Next \/ UNCHANGED Promise!vars
  BY <1>5, JoinJoins DEF Promise!Next
<1>6. ASSUME NEW r \in Slots, CommitRole(r) PROVE UNCHANGED Promise!vars
  BY <1>6, RoleHides
<1>7. ASSUME NEW i \in Invitations, Expire(i) PROVE UNCHANGED Promise!vars
  BY <1>7, ExpireHides
<1>8. ASSUME NEW r \in Slots, Arrivals(r)
      PROVE  UNCHANGED <<tenant_members, tenant_invitations>>
  BY <1>8, ArrivalsWriteNothing DEF tables
<1>9. ASSUME NEW r \in Slots, Serve(r), ~ CommitInvite(r), ~ CommitRemove(r),
             ~ CommitCreate(r), ~ CommitJoin(r), ~ CommitRole(r)
      PROVE  UNCHANGED <<tenant_members, tenant_invitations>>
  BY <1>9 DEF Serve, Authorize, ReadTenant, ReadMember, CommitUpdate, InsertTenant,
              FindInvitation, MarkAccepted, CheckExisting, Audit, tables
<1>10. ASSUME NEW r \in Slots, Fail(r)
       PROVE  UNCHANGED <<tenant_members, tenant_invitations>>
  BY <1>10 DEF Fail, tables
<1>11. ASSUME UNCHANGED vars PROVE UNCHANGED <<tenant_members, tenant_invitations>>
  BY <1>11 DEF vars, tables
<1> QED
  BY <1>1, <1>2, <1>3, <1>4, <1>5, <1>6, <1>7, <1>8, <1>9, <1>10, <1>11 DEF Next
\* The handlers of /api/v1/tenants, however their statements interleave, do to
\* members and invitations only what Membership allows.
THEOREM TenancyImplementsMembership == Spec => ImplementsMembership
<1>1. Init => Promise!Init
  BY DEF Init, Promise!Init, Standing, OfferOf
<1> QED
  BY <1>1, StepImplements, AlwaysIInv, PTL DEF Spec, Promise!Spec, ImplementsMembership

-----------------------------------------------------------------------------
\* Founding and joining admit a user, removing dismisses one: what Membership lets
\* happen to members, Directory lets happen to them.
LEMMA MembersComeAndGo ==
  ASSUME NEW t \in Tenants, NEW u \in Users,
         \A n \in Tenants \X Users : n # <<t, u>> => Standing(n)' = Standing(n),
         \/ Standing(<<t, u>>) = "outsider" /\ Standing(<<t, u>>)' = "member"
         \/ Standing(<<t, u>>) = "member" /\ Standing(<<t, u>>)' = "removed"
  PROVE  Directory!Change
<1> DEFINE mine == [m \in Users \X Tenants |-> MembershipOf(m[1], m[2])]
<1>1. \A v \in Users, s \in Tenants :
          <<v, s>> # <<u, t>> => MembershipOf(v, s)' = MembershipOf(v, s)
  BY DEF MembershipOf
<1>2. \A m \in Users \X Tenants : m # <<u, t>> => mine'[m] = mine[m]
  <2> SUFFICES ASSUME NEW m \in Users \X Tenants, m # <<u, t>> PROVE mine'[m] = mine[m]
    OBVIOUS
  <2>1. PICK v \in Users, s \in Tenants : m = <<v, s>>
    OBVIOUS
  <2> QED
    BY <1>1, <2>1
<1>3. CASE Standing(<<t, u>>) = "outsider" /\ Standing(<<t, u>>)' = "member"
  <2>1. MembershipOf(u, t) = "none" /\ MembershipOf(u, t)' = "active"
    BY <1>3 DEF MembershipOf
  <2>2. mine[<<u, t>>] = "none" /\ mine'[<<u, t>>] = "active"
    BY <2>1
  <2>3. mine' = [mine EXCEPT ![<<u, t>>] = "active"]
    BY <1>2, <2>2
  <2>4. Directory!Admit(u, t)
    BY <2>2, <2>3 DEF Directory!Admit
  <2> QED
    BY <2>4 DEF Directory!Change
<1>4. CASE Standing(<<t, u>>) = "member" /\ Standing(<<t, u>>)' = "removed"
  <2>1. MembershipOf(u, t) = "active" /\ MembershipOf(u, t)' = "removed"
    BY <1>4 DEF MembershipOf
  <2>2. mine[<<u, t>>] = "active" /\ mine'[<<u, t>>] = "removed"
    BY <2>1
  <2>3. mine' = [mine EXCEPT ![<<u, t>>] = "removed"]
    BY <1>2, <2>2
  <2>4. Directory!Dismiss(u, t)
    BY <2>2, <2>3 DEF Directory!Dismiss
  <2> QED
    BY <2>4 DEF Directory!Change
<1> QED
  BY <1>3, <1>4

LEMMA MembershipIsDirectory ==
  ASSUME [Promise!Next]_(Promise!vars)
  PROVE  [Directory!Next]_(Directory!vars)
<1> DEFINE standing == [m \in Tenants \X Users |-> Standing(m)]
<1>1. CASE standing' = standing
  <2>1. \A m \in Tenants \X Users : Standing(m) = standing[m] /\ Standing(m)' = standing'[m]
    OBVIOUS
  <2>2. \A u \in Users, t \in Tenants : MembershipOf(u, t)' = MembershipOf(u, t)
    BY <1>1, <2>1 DEF MembershipOf
  <2> QED
    BY <2>2 DEF Directory!vars
<1>2. CASE standing' # standing
  <2>1. PICK t \in Tenants, u \in Users :
            \/ Promise!Found(t, u)
            \/ Promise!Remove(t, u)
            \/ \E i \in Invitations : Promise!Join(i, t, u)
    BY <1>2 DEF Promise!Next, Promise!Offer, Promise!vars
  <2>2. \/ /\ standing[<<t, u>>] = "outsider"
           /\ standing' = [standing EXCEPT ![<<t, u>>] = "member"]
        \/ /\ standing[<<t, u>>] = "member"
           /\ standing' = [standing EXCEPT ![<<t, u>>] = "removed"]
    BY <2>1 DEF Promise!Found, Promise!Founded, Promise!Remove, Promise!Join, Standing
  <2>3. \A m \in Tenants \X Users : Standing(m) = standing[m] /\ Standing(m)' = standing'[m]
    OBVIOUS
  <2>4. /\ \A n \in Tenants \X Users : n # <<t, u>> => Standing(n)' = Standing(n)
        /\ \/ Standing(<<t, u>>) = "outsider" /\ Standing(<<t, u>>)' = "member"
           \/ Standing(<<t, u>>) = "member" /\ Standing(<<t, u>>)' = "removed"
    BY <2>2, <2>3
  <2> QED
    BY <2>4, MembersComeAndGo DEF Directory!Next
<1> QED
  BY <1>1, <1>2

\* What AuthSession assumes of members, the endpoints of /api/v1/tenants keep: nobody
\* is admitted to a tenant twice, and who was removed stays out.
THEOREM TenancyImplementsDirectory == Spec => ImplementsDirectory
<1>1. Init => Directory!Init
  BY DEF Init, Directory!Init, MembershipOf, Standing
<1> QED
  BY <1>1, StepImplements, MembershipIsDirectory, AlwaysIInv, PTL
     DEF Spec, Directory!Spec, ImplementsDirectory
=============================================================================
