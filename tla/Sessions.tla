------------------------------ MODULE Sessions ------------------------------
(***************************************************************************)
(* What the token endpoints promise, without tokens, clocks or rows in     *)
(* flight.  A session is opened for a user who was active, and in a tenant *)
(* only for one who was a member; it is continued, for the same user and   *)
(* tenant, by a claim made while it was open, and continuing it ends it; a *)
(* claim is good for one session; an ended session is not opened again and *)
(* a deleted user has none.                                                *)
(***************************************************************************)
CONSTANTS Requests, Users, Tenants, NoTenant, None

VARIABLES
    account,     \* as in Directory
    membership,  \* as in Directory
    sessions,    \* the request that opened it -> the session
    claims       \* request -> what it may do, None before and after

Directory == INSTANCE Directory

directory == <<account, membership>>
vars      == <<directory, sessions, claims>>

Scope == Tenants \cup {NoTenant}

Session == [user : Users, tenant : Scope, state : {"open", "ended", "gone"}]

\* A claim is cleared once its user has been found a member of its tenant.
Claim == [op : {"login", "refresh", "logout"}, user : Users, tenant : Scope,
          session : Requests \cup {None}, state : {"asked", "cleared"}]

Init ==
    /\ Directory!Init
    /\ sessions = [r \in Requests |-> None]
    /\ claims = [r \in Requests |-> None]

Opened(c) == [user |-> c.user, tenant |-> c.tenant, state |-> "open"]

Ended(s) == [user |-> s.user, tenant |-> s.tenant, state |-> "ended"]

-----------------------------------------------------------------------------
Login(r) ==
    \E u \in Users, t \in Scope :
        /\ account[u] = "active"
        /\ claims' = [claims EXCEPT ![r] =
               [op |-> "login", user |-> u, tenant |-> t, session |-> None,
                state |-> IF t = NoTenant THEN "cleared" ELSE "asked"]]
        /\ UNCHANGED <<directory, sessions>>

Present(r) ==
    \E op \in {"refresh", "logout"}, s \in Requests :
        /\ sessions[s] # None /\ sessions[s].state = "open"
        /\ claims' = [claims EXCEPT ![r] =
               [op |-> op, user |-> sessions[s].user, tenant |-> sessions[s].tenant,
                session |-> s,
                state |-> IF op = "logout" \/ sessions[s].tenant = NoTenant
                          THEN "cleared" ELSE "asked"]]
        /\ UNCHANGED <<directory, sessions>>

Clear(r) ==
    /\ claims[r].state = "asked"
    /\ membership[<<claims[r].user, claims[r].tenant>>] = "active"
    /\ claims' = [claims EXCEPT ![r].state = "cleared"]
    /\ UNCHANGED <<directory, sessions>>

Withdraw(r) ==
    /\ claims' = [claims EXCEPT ![r] = None]
    /\ UNCHANGED <<directory, sessions>>

\* The three effects.
Open(r) ==
    /\ claims[r].op = "login" /\ claims[r].state = "cleared"
    /\ account[claims[r].user] # "deleted"
    /\ sessions[r] = None
    /\ sessions' = [sessions EXCEPT ![r] = Opened(claims[r])]

Continue(r) ==
    /\ claims[r].op = "refresh" /\ claims[r].state = "cleared"
    /\ sessions[claims[r].session].state # "gone"
    /\ sessions[r] = None
    /\ sessions' = [sessions EXCEPT ![claims[r].session] = Ended(@), ![r] = Opened(claims[r])]

End(r) ==
    /\ claims[r].op = "logout"
    /\ sessions[claims[r].session].state # "gone"
    /\ sessions' = [sessions EXCEPT ![claims[r].session] = Ended(@)]

Answer(r) ==
    /\ Open(r) \/ Continue(r) \/ End(r)
    /\ claims' = [claims EXCEPT ![r] = None]
    /\ UNCHANGED directory

-----------------------------------------------------------------------------
DirectoryChange ==
    /\ Directory!Change
    /\ UNCHANGED <<sessions, claims>>

\* A user's sessions go with the user, whatever is claimed of them.
Delete(u) ==
    /\ Directory!Delete(u)
    /\ sessions' = [r \in Requests |->
           IF sessions[r] # None /\ sessions[r].user = u
           THEN [sessions[r] EXCEPT !.state = "gone"] ELSE sessions[r]]
    /\ UNCHANGED claims

\* Whatever a request does changes its claim: said first, TLC need not look
\* further at the many steps that change none.
Step(r) ==
    /\ claims'[r] # claims[r]
    /\ \/ claims[r] = None /\ (Login(r) \/ Present(r))
       \/ claims[r] # None /\ (Clear(r) \/ Withdraw(r) \/ Answer(r))

Next ==
    \/ \E r \in Requests : Step(r)
    \/ DirectoryChange
    \/ \E u \in Users : Delete(u)

Spec == Init /\ [][Next]_vars
=============================================================================
