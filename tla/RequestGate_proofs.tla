------------------------- MODULE RequestGate_proofs -------------------------
(***************************************************************************)
(* Proofs, for every set of requests, tenants, users and invitations, of   *)
(* the properties of RequestGate.                                          *)
(***************************************************************************)
EXTENDS RequestGate, TLAPS

\* The token and the header of call c name no tenant but t, and one of them t.
Names(c, t) ==
    /\ c.bearer \in Token
    /\ t \in Tenants
    /\ t = TenantOf(c)
    /\ c.bearer.tenant \in {None, t}
    /\ c.header \in {None, t}

\* What a request that came too late meets before it could come in.
Stopped(r) ==
    LET c == call[r]
        gone == ~ Exists(c.bearer.user)
    IN  /\ pc[r] # "idle"
        /\ TooLate(c)
        /\ context[r] = None
        /\ pc[r] = "member" => gone \/ standing[<<TenantOf(c), c.bearer.user>>] = "removed"
        /\ pc[r] \in {"limit", "user"} => gone \/ r \in expired
        /\ pc[r] = "inside" => ~ c.guarded

RequestInv ==
    \A r \in Requests :
        /\ pc[r] # "idle" => call[r] \in Call
        /\ pc[r] \in {"tenant", "member"} => Names(call[r], TenantOf(call[r]))
        /\ pc[r] = "user" => call[r].guarded
        /\ pc[r] \in {"idle", "middleware", "tenant", "member"} => context[r] = None

ContextInv ==
    \A r \in Requests :
        context[r] # None =>
            /\ Names(call[r], context[r])
            /\ standing[<<context[r], call[r].bearer.user>>] # "outsider"

LateInv == \A r \in late : Stopped(r)

IInv == TypeOK /\ RequestInv /\ ContextInv /\ LateInv

-----------------------------------------------------------------------------
\* A token's user is a user, and its tenant, like the header, a tenant or nothing.
LEMMA CallFields ==
    ASSUME NEW c \in Call
    PROVE  /\ c.header \in Tenants \cup {None, Malformed}
           /\ c.bearer \in Token \cup {None, Malformed}
           /\ c.bearer \in Token =>
                  c.bearer.user \in Users /\ c.bearer.tenant \in Tenants \cup {None}
           /\ c.guarded \in BOOLEAN
BY DEF Call, Token

\* What time does to a member: removed stays removed and nobody is an outsider again.
LEMMA StandingGrows ==
    ASSUME TypeOK, Membership!Next
    PROVE  /\ standing' \in [Tenants \X Users -> {"outsider", "member", "removed"}]
           /\ \A m \in Tenants \X Users :
                  /\ standing[m] = "removed" => standing'[m] = "removed"
                  /\ standing[m] # "outsider" => standing'[m] # "outsider"
<1>1. PICK t \in Tenants, u \in Users :
          \/ Membership!Found(t, u)
          \/ Membership!Remove(t, u)
          \/ \E i \in Invitations : Membership!Offer(i, t, u) \/ Membership!Join(i, t, u)
  BY DEF Membership!Next
<1>2. <<t, u>> \in Tenants \X Users
  OBVIOUS
<1>3. CASE Membership!Found(t, u)
  <2>1. standing[<<t, u>>] = "outsider"
    BY <1>3 DEF Membership!Found, Membership!Founded
  <2> QED
    BY <1>2, <1>3, <2>1 DEF TypeOK, Membership!Found
<1>4. CASE Membership!Remove(t, u)
  BY <1>2, <1>4 DEF TypeOK, Membership!Remove
<1>5. CASE \E i \in Invitations : Membership!Offer(i, t, u) \/ Membership!Join(i, t, u)
  BY <1>2, <1>5 DEF TypeOK, Membership!Offer, Membership!Join
<1> QED
  BY <1>1, <1>3, <1>4, <1>5

\* What the world around the requests may do: the tables and the expiries change as
\* they do in the actions of the members, the tenants, the users and the tokens.
Around ==
    /\ standing' \in [Tenants \X Users -> {"outsider", "member", "removed"}]
    /\ \A m \in Tenants \X Users :
           /\ standing[m] = "removed" => standing'[m] = "removed"
           /\ standing[m] # "outsider" => standing'[m] # "outsider"
    /\ deactivated \subseteq deactivated'
    /\ deactivated' \subseteq Tenants
    /\ users' \in [Users -> {"active", "inactive", "gone"}]
    /\ \A u \in Users : users[u] = "gone" => users'[u] = "gone"
    /\ expired \subseteq expired'
    /\ expired' \subseteq Requests
    /\ UNCHANGED gate

LEMMA AroundKeepsInv == IInv /\ Around => IInv'
<1> SUFFICES ASSUME IInv, Around PROVE IInv'
  OBVIOUS
<1>1. /\ pc' = pc /\ call' = call /\ context' = context /\ late' = late
  BY DEF Around, gate
<1>2. TypeOK'
  BY <1>1 DEF IInv, TypeOK, Around
<1>3. RequestInv'
  BY <1>1 DEF IInv, RequestInv, Names, TenantOf
<1>4. ContextInv'
  <2> SUFFICES ASSUME NEW r \in Requests, context[r] # None
               PROVE  /\ Names(call[r], context[r])
                      /\ standing'[<<context[r], call[r].bearer.user>>] # "outsider"
    BY <1>1 DEF ContextInv, Names, TenantOf
  <2>1. /\ Names(call[r], context[r])
        /\ standing[<<context[r], call[r].bearer.user>>] # "outsider"
    BY DEF IInv, ContextInv
  <2>2. <<context[r], call[r].bearer.user>> \in Tenants \X Users
    BY <2>1 DEF Names, Token
  <2> QED
    BY <2>1, <2>2 DEF Around
<1>5. LateInv'
  <2> SUFFICES ASSUME NEW r \in late PROVE Stopped(r)'
    BY <1>1 DEF LateInv
  <2>1. Stopped(r) /\ r \in Requests
    BY DEF IInv, LateInv, TypeOK
  <2>2. call[r] \in Call /\ call[r].bearer \in Token
    BY <2>1 DEF Stopped, TooLate, IInv, RequestInv
  <2> DEFINE u == call[r].bearer.user
             t == TenantOf(call[r])
  <2>3. u \in Users
    BY <2>2, CallFields
  <2>4. ~ Exists(u) => users'[u] = "gone"
    BY <2>3 DEF Around, Exists
  <2>5. t \in Tenants /\ standing[<<t, u>>] = "removed" => standing'[<<t, u>>] = "removed"
    BY <2>3 DEF Around
  <2>6. t' = t /\ u' = u
    BY <1>1 DEF TenantOf
  <2>7. pc[r] = "member" => t \in Tenants
    BY <2>1 DEF IInv, RequestInv, Names
  <2>8. TooLate(call[r])'
    BY <1>1, <2>1, <2>4, <2>5, <2>6 DEF Stopped, TooLate, Exists, Around
  <2> QED
    BY <1>1, <2>1, <2>4, <2>5, <2>6, <2>7, <2>8 DEF Stopped, Exists, Around
<1> QED
  BY <1>2, <1>3, <1>4, <1>5 DEF IInv

-----------------------------------------------------------------------------
\* A request moves on, without a context.
Moves(r, label) ==
    /\ pc[r] # "idle"
    /\ label \in Labels \ {"idle"}
    /\ Goto(r, label)
    /\ UNCHANGED <<members, deactivated, users, expired, call, context, late>>

LEMMA MoveKeepsInv ==
    ASSUME IInv, NEW r \in Requests, NEW label, Moves(r, label),
           label = "middleware" => context[r] = None,
           label \in {"tenant", "member"} =>
               Names(call[r], TenantOf(call[r])) /\ context[r] = None,
           label = "user" => call[r].guarded,
           r \in late =>
               LET c == call[r]
                   gone == ~ Exists(c.bearer.user)
               IN  /\ label = "member" =>
                          gone \/ standing[<<TenantOf(c), c.bearer.user>>] = "removed"
                   /\ label \in {"limit", "user"} => gone \/ r \in expired
                   /\ label = "inside" => ~ c.guarded
    PROVE  IInv'
<1>1. /\ pc' = [pc EXCEPT ![r] = label]
      /\ call' = call /\ context' = context /\ late' = late
      /\ standing' = standing /\ deactivated' = deactivated /\ users' = users
      /\ expired' = expired
  BY DEF Moves, Goto, members
<1>2. pc \in [Requests -> Labels] /\ label \in Labels
  BY DEF IInv, TypeOK, Moves
<1>3. TypeOK'
  BY <1>1, <1>2 DEF IInv, TypeOK
<1>4. RequestInv'
  <2> SUFFICES ASSUME NEW q \in Requests
               PROVE  /\ pc'[q] # "idle" => call[q] \in Call
                      /\ pc'[q] \in {"tenant", "member"} => Names(call[q], TenantOf(call[q]))
                      /\ pc'[q] = "user" => call[q].guarded
                      /\ pc'[q] \in {"idle", "middleware", "tenant", "member"} =>
                             context[q] = None
    BY <1>1 DEF RequestInv, Names, TenantOf
  <2>1. CASE q # r
    BY <1>1, <1>2, <2>1 DEF IInv, RequestInv
  <2>2. CASE q = r
    BY <1>1, <1>2, <2>2 DEF IInv, RequestInv, Moves
  <2> QED
    BY <2>1, <2>2
<1>5. ContextInv'
  BY <1>1 DEF IInv, ContextInv, Names, TenantOf
<1>6. LateInv'
  <2> SUFFICES ASSUME NEW q \in late PROVE Stopped(q)'
    BY <1>1 DEF LateInv
  <2>1. Stopped(q) /\ q \in Requests
    BY DEF IInv, LateInv, TypeOK
  <2>2. /\ TooLate(call[q])' /\ context'[q] = None
        /\ Exists(call[q].bearer.user)' = Exists(call[q].bearer.user)
        /\ TenantOf(call[q])' = TenantOf(call[q])
    BY <1>1, <2>1 DEF Stopped, TooLate, TenantOf, Exists
  <2>3. CASE q # r
    <3>1. pc'[q] = pc[q]
      BY <1>1, <1>2, <2>1, <2>3
    <3> QED
      BY <1>1, <2>1, <2>2, <3>1 DEF Stopped
  <2>4. CASE q = r
    <3>1. pc'[q] = label
      BY <1>1, <1>2, <2>1, <2>4
    <3> QED
      BY <1>1, <2>1, <2>2, <2>4, <3>1 DEF Stopped, Moves
  <2> QED
    BY <2>3, <2>4
<1> QED
  BY <1>3, <1>4, <1>5, <1>6 DEF IInv

-----------------------------------------------------------------------------
LEMMA InitEstablishesInv == Init => IInv
<1> SUFFICES ASSUME Init PROVE IInv
  OBVIOUS
<1>1. TypeOK
  BY DEF Init, Membership!Init, TypeOK, Labels
<1> QED
  BY <1>1 DEF Init, IInv, RequestInv, ContextInv, LateInv, TypeOK

LEMMA ArrivalKeepsInv ==
    ASSUME IInv, NEW r \in Requests, NEW c \in Call, Arrive(r, c)
    PROVE  IInv'
<1>1. /\ pc[r] = "idle"
      /\ pc' = [pc EXCEPT ![r] = "middleware"]
      /\ call' = [call EXCEPT ![r] = c]
      /\ late' = IF TooLate(c) THEN late \cup {r} ELSE late
      /\ context' = context /\ standing' = standing
      /\ deactivated' = deactivated /\ users' = users /\ expired' = expired
  BY DEF Arrive, Goto, members
<1>2. pc \in [Requests -> Labels] /\ call \in [Requests -> Call \cup {None}]
  BY DEF IInv, TypeOK
<1>3. context[r] = None /\ r \notin late
  BY <1>1 DEF IInv, RequestInv, LateInv, Stopped
<1>4. TypeOK'
  BY <1>1, <1>2 DEF IInv, TypeOK, Labels
<1>5. \A q \in Requests \ {r} : pc'[q] = pc[q] /\ call'[q] = call[q]
  BY <1>1, <1>2
<1>6. pc'[r] = "middleware" /\ call'[r] = c
  BY <1>1, <1>2
<1>7. RequestInv'
  <2> SUFFICES ASSUME NEW q \in Requests
               PROVE  /\ pc'[q] # "idle" => call'[q] \in Call
                      /\ pc'[q] \in {"tenant", "member"} => Names(call'[q], TenantOf(call'[q]))
                      /\ pc'[q] = "user" => call'[q].guarded
                      /\ pc'[q] \in {"idle", "middleware", "tenant", "member"} =>
                             context[q] = None
    BY <1>1 DEF RequestInv, Names, TenantOf
  <2> QED
    BY <1>3, <1>5, <1>6 DEF IInv, RequestInv
<1>8. ContextInv'
  <2> SUFFICES ASSUME NEW q \in Requests, context[q] # None
               PROVE  /\ Names(call'[q], context[q])
                      /\ standing[<<context[q], call'[q].bearer.user>>] # "outsider"
    BY <1>1 DEF ContextInv, Names, TenantOf
  <2> QED
    BY <1>3, <1>5 DEF IInv, ContextInv
<1>9. LateInv'
  <2> SUFFICES ASSUME NEW q \in late' PROVE Stopped(q)'
    BY DEF LateInv
  <2>1. CASE q = r
    <3>1. TooLate(c)
      BY <1>1, <1>3, <2>1
    <3>2. TooLate(c)'
      BY <1>1, <3>1 DEF TooLate, TenantOf, Exists
    <3> QED
      BY <1>1, <1>3, <1>6, <2>1, <3>2 DEF Stopped
  <2>2. CASE q # r
    <3>1. q \in late /\ q \in Requests /\ Stopped(q)
      BY <1>1, <2>2 DEF IInv, LateInv, TypeOK
    <3>2. pc'[q] = pc[q] /\ call'[q] = call[q]
      BY <1>5, <2>2, <3>1
    <3> QED
      BY <1>1, <3>1, <3>2 DEF Stopped, TooLate, TenantOf, Exists
  <2> QED
    BY <2>1, <2>2
<1> QED
  BY <1>4, <1>7, <1>8, <1>9 DEF IInv

\* A request that came too late carries a token that names a user.
LEMMA LateHasToken ==
    ASSUME IInv, NEW r \in late
    PROVE  call[r].bearer \in Token /\ TooLate(call[r]) /\ Stopped(r)
BY DEF IInv, LateInv, Stopped, TooLate

LEMMA MiddlewareKeepsInv ==
    ASSUME IInv, NEW r \in Requests, Middleware(r)
    PROVE  IInv'
<1> DEFINE c == call[r]
<1>1. /\ pc[r] = "middleware" /\ context[r] = None
      /\ UNCHANGED <<members, deactivated, users, expired, call, context, late>>
      /\ c \in Call
  BY DEF Middleware, IInv, RequestInv
<1>2. CASE c.header = Malformed /\ Goto(r, "crashed")
  BY <1>1, <1>2, MoveKeepsInv DEF Moves, Labels
<1>3. CASE c.header # Malformed /\ ~ Decodes(r)
           /\ Goto(r, IF c.header = None THEN "limit" ELSE "refused")
  <2>1. r \in late => r \in expired
    BY <1>3, LateHasToken DEF Decodes
  <2>2. CASE c.header = None
    BY <1>1, <1>3, <2>1, <2>2, MoveKeepsInv DEF Moves, Labels
  <2>3. CASE c.header # None
    BY <1>1, <1>3, <2>3, MoveKeepsInv DEF Moves, Labels
  <2> QED
    BY <2>2, <2>3
<1>4. CASE /\ c.header # Malformed
           /\ Decodes(r)
           /\ Goto(r, IF None \notin {c.bearer.tenant, c.header} /\ c.bearer.tenant # c.header
                      THEN "refused"
                      ELSE IF TenantOf(c) = None THEN "limit" ELSE "tenant")
  <2>1. /\ c.bearer \in Token /\ c.bearer.tenant \in Tenants \cup {None}
        /\ c.header \in Tenants \cup {None}
    BY <1>1, <1>4, CallFields DEF Decodes
  <2>2. CASE None \notin {c.bearer.tenant, c.header} /\ c.bearer.tenant # c.header
    BY <1>1, <1>4, <2>2, MoveKeepsInv DEF Moves, Labels
  <2>3. CASE /\ ~ (None \notin {c.bearer.tenant, c.header} /\ c.bearer.tenant # c.header)
             /\ TenantOf(c) = None
    <3>1. r \in late => ~ Exists(c.bearer.user)
      BY <2>3, LateHasToken, NoneAssumption DEF TooLate
    <3>2. Goto(r, "limit")
      BY <1>4, <2>3
    <3> QED
      BY <1>1, <3>1, <3>2, MoveKeepsInv DEF Moves, Labels
  <2>4. CASE /\ ~ (None \notin {c.bearer.tenant, c.header} /\ c.bearer.tenant # c.header)
             /\ TenantOf(c) # None
    <3>1. Names(c, TenantOf(c))
      BY <2>1, <2>4 DEF Names, TenantOf
    <3>2. Goto(r, "tenant")
      BY <1>4, <2>4
    <3> QED
      BY <1>1, <3>1, <3>2, MoveKeepsInv DEF Moves, Labels
  <2> QED
    BY <2>2, <2>3, <2>4
<1> QED
  BY <1>2, <1>3, <1>4 DEF Middleware

LEMMA FindTenantKeepsInv ==
    ASSUME IInv, NEW r \in Requests, FindTenant(r)
    PROVE  IInv'
<1> DEFINE t == TenantOf(call[r])
<1>1. /\ pc[r] = "tenant" /\ context[r] = None /\ Names(call[r], t)
      /\ UNCHANGED <<members, deactivated, users, expired, call, context, late>>
  BY DEF FindTenant, IInv, RequestInv
<1>2. CASE Goto(r, "member") /\ t \notin deactivated
  <2>1. r \in late =>
            ~ Exists(call[r].bearer.user) \/ standing[<<t, call[r].bearer.user>>] = "removed"
    BY <1>2, LateHasToken DEF TooLate
  <2> QED
    BY <1>1, <1>2, <2>1, MoveKeepsInv DEF Moves, Labels
<1>3. CASE Goto(r, "refused")
  BY <1>1, <1>3, MoveKeepsInv DEF Moves, Labels
<1> QED
  BY <1>2, <1>3 DEF FindTenant

LEMMA FindMemberKeepsInv ==
    ASSUME IInv, NEW r \in Requests, FindMember(r)
    PROVE  IInv'
<1> DEFINE t == TenantOf(call[r])
           u == call[r].bearer.user
<1>1. /\ pc[r] = "member" /\ Names(call[r], t) /\ context[r] = None
  BY DEF FindMember, IInv, RequestInv
<1>2. CASE ~ IsMember(t, u) /\ Goto(r, "refused") /\ UNCHANGED context
  BY <1>1, <1>2, MoveKeepsInv DEF Moves, Labels, FindMember
<1>3. CASE IsMember(t, u) /\ context' = [context EXCEPT ![r] = t] /\ Goto(r, "limit")
  <2>1. /\ pc' = [pc EXCEPT ![r] = "limit"]
        /\ call' = call /\ late' = late
        /\ standing' = standing /\ deactivated' = deactivated /\ users' = users
        /\ expired' = expired
    BY <1>3 DEF FindMember, Goto, members
  <2>2. /\ pc \in [Requests -> Labels] /\ context \in [Requests -> Tenants \cup {None}]
        /\ late \subseteq Requests
    BY DEF IInv, TypeOK
  <2>3. r \notin late
    BY <1>1, <1>3, LateHasToken DEF Stopped, IsMember
  <2>4. \A q \in Requests \ {r} : pc'[q] = pc[q] /\ context'[q] = context[q]
    BY <1>3, <2>1, <2>2
  <2>5. pc'[r] = "limit" /\ context'[r] = t
    BY <1>3, <2>1, <2>2
  <2>6. TypeOK'
    BY <1>1, <1>3, <2>1, <2>2 DEF IInv, TypeOK, Labels, Names
  <2>7. RequestInv'
    <3> SUFFICES ASSUME NEW q \in Requests
                 PROVE  /\ pc'[q] # "idle" => call[q] \in Call
                        /\ pc'[q] \in {"tenant", "member"} => Names(call[q], TenantOf(call[q]))
                        /\ pc'[q] = "user" => call[q].guarded
                        /\ pc'[q] \in {"idle", "middleware", "tenant", "member"} =>
                               context'[q] = None
      BY <2>1 DEF RequestInv, Names, TenantOf
    <3> QED
      BY <1>1, <2>4, <2>5 DEF IInv, RequestInv
  <2>8. ContextInv'
    <3> SUFFICES ASSUME NEW q \in Requests, context'[q] # None
                 PROVE  /\ Names(call[q], context'[q])
                        /\ standing[<<context'[q], call[q].bearer.user>>] # "outsider"
      BY <2>1 DEF ContextInv, Names, TenantOf
    <3> QED
      BY <1>1, <1>3, <2>4, <2>5 DEF IInv, ContextInv, IsMember
  <2>9. LateInv'
    <3> SUFFICES ASSUME NEW q \in late PROVE Stopped(q)'
      BY <2>1 DEF LateInv
    <3>1. Stopped(q) /\ pc'[q] = pc[q] /\ context'[q] = context[q]
      BY <2>2, <2>3, <2>4 DEF IInv, LateInv
    <3> QED
      BY <2>1, <3>1 DEF Stopped, TooLate, TenantOf, Exists
  <2> QED
    BY <2>6, <2>7, <2>8, <2>9 DEF IInv
<1> QED
  BY <1>2, <1>3 DEF FindMember

LEMMA LimitKeepsInv ==
    ASSUME IInv, NEW r \in Requests, Limit(r)
    PROVE  IInv'
<1>1. /\ pc[r] = "limit"
      /\ UNCHANGED <<members, deactivated, users, expired, call, context, late>>
  BY DEF Limit
<1>2. CASE Goto(r, "refused")
  BY <1>1, <1>2, MoveKeepsInv DEF Moves, Labels
<1>3. CASE Goto(r, "user") /\ call[r].guarded
  <2>1. r \in late => ~ Exists(call[r].bearer.user) \/ r \in expired
    BY <1>1, LateHasToken DEF Stopped
  <2> QED
    BY <1>1, <1>3, <2>1, MoveKeepsInv DEF Moves, Labels
<1>4. CASE Goto(r, "inside") /\ ~ call[r].guarded
  BY <1>1, <1>4, MoveKeepsInv DEF Moves, Labels
<1> QED
  BY <1>2, <1>3, <1>4 DEF Limit

LEMMA IdentifyKeepsInv ==
    ASSUME IInv, NEW r \in Requests, Identify(r)
    PROVE  IInv'
<1>1. /\ pc[r] = "user"
      /\ UNCHANGED <<members, deactivated, users, expired, call, context, late>>
  BY DEF Identify
<1>2. CASE Goto(r, "refused")
  BY <1>1, <1>2, MoveKeepsInv DEF Moves, Labels
<1>3. CASE Goto(r, "inside") /\ Decodes(r) /\ users[call[r].bearer.user] = "active"
  <2>1. r \notin late
    BY <1>1, <1>3, LateHasToken DEF Stopped, Decodes, Exists
  <2> QED
    BY <1>1, <1>3, <2>1, MoveKeepsInv DEF Moves, Labels
<1> QED
  BY <1>2, <1>3 DEF Identify

LEMMA OthersKeepInv ==
    ASSUME IInv,
           \/ MembersChange
           \/ \E t \in Tenants : DeactivateTenant(t)
           \/ \E u \in Users : DeleteUser(u)
           \/ \E u \in Users, status \in {"active", "inactive"} : UpdateUser(u, status)
           \/ \E r \in Requests : Expire(r)
    PROVE  IInv'
<1> USE DEF IInv
<1>1. CASE MembersChange
  BY <1>1, StandingGrows, AroundKeepsInv DEF MembersChange, Around, TypeOK
<1>2. CASE \E t \in Tenants : DeactivateTenant(t)
  BY <1>2, AroundKeepsInv DEF DeactivateTenant, Around, TypeOK, members
<1>3. CASE \E u \in Users : DeleteUser(u)
  BY <1>3, AroundKeepsInv DEF DeleteUser, Around, TypeOK, members
<1>4. CASE \E u \in Users, status \in {"active", "inactive"} : UpdateUser(u, status)
  BY <1>4, AroundKeepsInv DEF UpdateUser, Exists, Around, TypeOK, members
<1>5. CASE \E r \in Requests : Expire(r)
  BY <1>5, AroundKeepsInv DEF Expire, Around, TypeOK, members
<1> QED
  BY <1>1, <1>2, <1>3, <1>4, <1>5

LEMMA StepKeepsInv == IInv /\ [Next]_vars => IInv'
<1> SUFFICES ASSUME IInv, [Next]_vars PROVE IInv'
  OBVIOUS
<1>1. ASSUME NEW r \in Requests, Pass(r) PROVE IInv'
  BY <1>1, MiddlewareKeepsInv, FindTenantKeepsInv, FindMemberKeepsInv, LimitKeepsInv,
     IdentifyKeepsInv DEF Pass
<1>2. CASE UNCHANGED vars
  BY <1>2, AroundKeepsInv DEF vars, members, Around, IInv, TypeOK
<1> QED
  BY <1>1, <1>2, ArrivalKeepsInv, OthersKeepInv DEF Next

LEMMA Inductive == Spec => []IInv
BY InitEstablishesInv, StepKeepsInv, PTL DEF Spec

\* Members, tenants, users and requests stay in the states they can be in.
THEOREM TypeCorrect == Spec => []TypeOK
<1>1. IInv => TypeOK
  BY DEF IInv
<1> QED
  BY <1>1, Inductive, PTL

\* However the queries of the middleware and of get_current_user interleave with
\* the changes, a request that came too late stays out.
THEOREM TheLateStayOut == Spec => []LateStaysOut
<1>1. IInv => LateStaysOut
  BY DEF IInv, LateInv, Stopped, LateStaysOut
<1> QED
  BY <1>1, Inductive, PTL

\* A handler is given the tenant the request names, and never an outsider's.
THEOREM ContextsHaveStood == Spec => []ContextHasStood
<1>1. IInv => ContextHasStood
  BY DEF IInv, ContextInv, Names, ContextHasStood
<1> QED
  BY <1>1, Inductive, PTL
=============================================================================
