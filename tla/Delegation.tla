----------------------------- MODULE Delegation -----------------------------
(***************************************************************************)
(* What the admin endpoints promise.  Each desk serves a user who was      *)
(* active and held the permission his order calls for when it was taken;   *)
(* an order is carried out once or withdrawn; it changes one grant, or one *)
(* user with the grants that hang on him, and nothing else ever does.      *)
(* Nobody lifts his own deactivation.                                      *)
(***************************************************************************)
CONSTANTS Desks, Users, Roles, Permissions, None

VARIABLES
    grants,    \* pairs <<user, role>> and <<role, permission>>
    standing,  \* user -> "active", "inactive" or "gone"
    orders     \* desk -> None, a user who is known, or an order taken

vars == <<grants, standing, orders>>

Grantable == (Users \X Roles) \cup (Roles \X Permissions)

Holds(u, p) == \E role \in Roles : <<u, role>> \in grants /\ <<role, p>> \in grants

Known(u) == [op |-> "known", actor |-> u]

Order ==
    [op : {"assign", "remove"}, actor : Users, pair : Grantable] \cup
    [op : {"update"}, actor : Users, user : Users, is_active : BOOLEAN] \cup
    [op : {"delete"}, actor : Users, user : Users] \cup
    [op : {"list_roles", "list_users"}, actor : Users]

\* The permission an order calls for.
Calls(op) ==
    CASE op \in {"assign", "remove", "list_roles"} -> "roles.manage"
      [] op = "list_users" -> "users.read"
      [] op = "update" -> "users.write"
      [] op = "delete" -> "users.delete"

\* The grants one starts with are given; everybody is active.
Init ==
    /\ grants \subseteq Grantable
    /\ standing = [u \in Users |-> "active"]
    /\ orders = [d \in Desks |-> None]

Leave(d) == orders' = [orders EXCEPT ![d] = None]

Identify(d, u) ==
    /\ orders[d] = None
    /\ standing[u] = "active"
    /\ orders' = [orders EXCEPT ![d] = Known(u)]
    /\ UNCHANGED <<grants, standing>>

Take(d, o) ==
    /\ orders[d] = Known(o.actor)
    /\ Holds(o.actor, Calls(o.op))
    /\ orders' = [orders EXCEPT ![d] = o]
    /\ UNCHANGED <<grants, standing>>

Withdraw(d) == Leave(d) /\ UNCHANGED <<grants, standing>>

Assign(d, pair) ==
    /\ orders[d].op = "assign" /\ orders[d].pair = pair
    /\ pair \notin grants
    /\ pair[1] \in Users => standing[pair[1]] # "gone"
    /\ grants' = grants \cup {pair}
    /\ Leave(d)
    /\ UNCHANGED standing

Remove(d, pair) ==
    /\ orders[d].op = "remove" /\ orders[d].pair = pair
    /\ grants' = grants \ {pair}
    /\ Leave(d)
    /\ UNCHANGED standing

Deactivate(d, u) ==
    /\ orders[d].op = "update" /\ orders[d].user = u /\ ~ orders[d].is_active
    /\ standing[u] # "gone"
    /\ standing' = [standing EXCEPT ![u] = "inactive"]
    /\ Leave(d)
    /\ UNCHANGED grants

Reactivate(d, u) ==
    /\ orders[d].op = "update" /\ orders[d].user = u /\ orders[d].is_active
    /\ orders[d].actor # u
    /\ standing[u] # "gone"
    /\ standing' = [standing EXCEPT ![u] = "active"]
    /\ Leave(d)
    /\ UNCHANGED grants

Delete(d, u) ==
    /\ orders[d].op = "delete" /\ orders[d].user = u
    /\ standing[u] # "gone"
    /\ standing' = [standing EXCEPT ![u] = "gone"]
    /\ grants' = {pair \in grants : pair[1] # u}
    /\ Leave(d)

Next ==
    \E d \in Desks :
        \/ Withdraw(d)
        \/ \E o \in Order : Take(d, o)
        \/ \E u \in Users : Identify(d, u)
        \/ /\ orders[d] \in Order
           /\ \/ \E pair \in Grantable : Assign(d, pair) \/ Remove(d, pair)
              \/ \E u \in Users : Deactivate(d, u) \/ Reactivate(d, u) \/ Delete(d, u)

Spec == Init /\ [][Next]_vars
=============================================================================
