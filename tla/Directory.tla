------------------------------ MODULE Directory ------------------------------
(***************************************************************************)
(* Who the users are and which tenants they belong to, as the parts of the *)
(* service that only read users and tenant_members rely on it: a deleted   *)
(* user does not come back, a removed member is not admitted again, and    *)
(* memberships go with their user.                                         *)
(***************************************************************************)
CONSTANTS Users, Tenants

VARIABLES
    account,     \* user -> "active", "inactive" or "deleted"
    membership   \* <<user, tenant>> -> "none", "active" or "removed"

vars == <<account, membership>>

Init ==
    /\ account = [u \in Users |-> "active"]
    /\ membership = [m \in Users \X Tenants |-> "none"]

SetActive(u, status) ==
    /\ account[u] # "deleted"
    /\ account' = [account EXCEPT ![u] = status]
    /\ UNCHANGED membership

Delete(u) ==
    /\ account[u] # "deleted"
    /\ account' = [account EXCEPT ![u] = "deleted"]
    /\ membership' = [m \in Users \X Tenants |-> IF m[1] = u THEN "none" ELSE membership[m]]

Admit(u, t) ==
    /\ account[u] # "deleted"
    /\ membership[<<u, t>>] = "none"
    /\ membership' = [membership EXCEPT ![<<u, t>>] = "active"]
    /\ UNCHANGED account

Dismiss(u, t) ==
    /\ membership[<<u, t>>] = "active"
    /\ membership' = [membership EXCEPT ![<<u, t>>] = "removed"]
    /\ UNCHANGED account

\* What happens while nobody is deleted.
Change ==
    \E u \in Users :
        \/ \E status \in {"active", "inactive"} : SetActive(u, status)
        \/ \E t \in Tenants : Admit(u, t) \/ Dismiss(u, t)

Next == Change \/ \E u \in Users : Delete(u)

Spec == Init /\ [][Next]_vars
=============================================================================
