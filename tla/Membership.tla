----------------------------- MODULE Membership -----------------------------
(***************************************************************************)
(* What tenant membership promises, without requests, sessions or rows in  *)
(* flight.  A user enters a tenant once: by founding it or by taking up an *)
(* offer made to that very user, and an offer admits once.  Whoever leaves *)
(* does not come back.                                                     *)
(***************************************************************************)
CONSTANTS Tenants, Users, Invitations, None

VARIABLES
    standing,   \* <<tenant, user>> -> "outsider", "member" or "removed"
    offers      \* invitation -> the offer it makes, None before it is made

vars == <<standing, offers>>

Founded(t) == \E u \in Users : standing[<<t, u>>] # "outsider"

Init ==
    /\ standing = [m \in Tenants \X Users |-> "outsider"]
    /\ offers = [i \in Invitations |-> None]

Found(t, u) ==
    /\ ~ Founded(t)
    /\ standing' = [standing EXCEPT ![<<t, u>>] = "member"]
    /\ UNCHANGED offers

Offer(i, t, u) ==
    /\ Founded(t)
    /\ offers[i] = None
    /\ offers' = [offers EXCEPT ![i] = [tenant |-> t, user |-> u, open |-> TRUE]]
    /\ UNCHANGED standing

Join(i, t, u) ==
    /\ offers[i] = [tenant |-> t, user |-> u, open |-> TRUE]
    /\ standing[<<t, u>>] = "outsider"
    /\ offers' = [offers EXCEPT ![i] = [tenant |-> t, user |-> u, open |-> FALSE]]
    /\ standing' = [standing EXCEPT ![<<t, u>>] = "member"]

Remove(t, u) ==
    /\ standing[<<t, u>>] = "member"
    /\ standing' = [standing EXCEPT ![<<t, u>>] = "removed"]
    /\ UNCHANGED offers

Next ==
    \E t \in Tenants, u \in Users :
        \/ Found(t, u)
        \/ Remove(t, u)
        \/ \E i \in Invitations : Offer(i, t, u) \/ Join(i, t, u)

Spec == Init /\ [][Next]_vars
=============================================================================
