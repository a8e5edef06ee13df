----------------------------- MODULE AdminRbac -----------------------------
(***************************************************************************)
(* The endpoints of /api/v1/admin behind require_permission: roles of      *)
(* users, permissions of roles, users and their is_active.                 *)
(*                                                                         *)
(* A slot is one of the requests served at a time; every statement of its  *)
(* database session is one action (READ COMMITTED).  The gate and the      *)
(* handler share one session and with it one identity map.  user_roles and *)
(* role_permissions are one set of pairs, told apart by what they pair.    *)
(***************************************************************************)
EXTENDS Integers

CONSTANTS
    Slots,        \* requests in service at the same time
    Users,        \* users that have registered
    Roles,        \* names of roles; roles and permissions are never deleted
    Permissions,  \* names of permissions
    Root,         \* users made super_admin by hand, with SQL
    Pairs,        \* bound of the model: the pairs requests name
    None          \* no request, nothing read

AllPairs == (Users \X Roles) \cup (Roles \X Permissions)

ASSUME RbacAssumption ==
    /\ Pairs \subseteq AllPairs
    /\ Root \subseteq Users
    /\ Users \cap Roles = {}
    /\ "super_admin" \in Roles

VARIABLES
    grants,  \* the rows of user_roles and role_permissions
    users,   \* user -> "active", "inactive" (is_active) or "gone"
    owners,  \* users that own tenants
    pc,      \* where the request in a slot is
    call,    \* its endpoint and arguments
    seen     \* is_active of the row its SELECT returned

tables == <<grants, users, owners>>
vars   == <<tables, pc, call, seen>>

Call ==
    [op : {"assign", "remove"}, actor : Users, pair : AllPairs] \cup
    [op : {"update"}, actor : Users, user : Users, is_active : BOOLEAN] \cup
    [op : {"delete"}, actor : Users, user : Users] \cup
    [op : {"list_roles", "list_users"}, actor : Users]

ASSUME NoneAssumption == None \notin Call \cup BOOLEAN

Labels == {"idle", "identify", "permit", "handle", "write", "erase", "commit"}

\* Mutant of Seed: the two columns swapped.
SeedSwapped == Permissions \X {"super_admin"}

\* What the migrations seed role_permissions with.
Seed ==
    ({"super_admin"} \X Permissions) \cup
    ((({"admin"} \X {"users.read", "users.write"}) \cup {<<"user", "users.read">>})
        \cap AllPairs)

\* Mutant of Needs: roles are managed with users.write.
NeedsWrite(op) ==
    CASE op \in {"remove", "list_roles"} -> "roles.manage"
      [] op = "list_users" -> "users.read"
      [] op \in {"assign", "update"} -> "users.write"
      [] op = "delete" -> "users.delete"

\* The argument of require_permission.  list_users stands for get_user and
\* get_user_permissions too, list_roles for the other two lists.
Needs(op) ==
    CASE op \in {"assign", "remove", "list_roles"} -> "roles.manage"
      [] op = "list_users" -> "users.read"
      [] op = "update" -> "users.write"
      [] op = "delete" -> "users.delete"

\* check_permission's join of permissions, role_permissions and user_roles.
Permitted(u, p) == \E role \in Roles : <<u, role>> \in grants /\ <<role, p>> \in grants

Exists(u) == users[u] # "gone"

\* The pair has been deleted by a transaction that is still open.
Locked(pair) == \E q \in Slots : pc[q] = "commit" /\ call[q].pair = pair

\* Mutant of Refers: user_roles without its foreign key.
RefersUnchecked(pair) == TRUE

\* The foreign key of user_roles: the user must be there.
Refers(pair) == pair \in Users \X Roles => Exists(pair[1])

Goto(r, label) ==
    /\ pc' = [pc EXCEPT ![r] = label]
    /\ call' = IF label = "idle" THEN [call EXCEPT ![r] = None] ELSE call
    /\ seen' = IF label = "idle" THEN [seen EXCEPT ![r] = None] ELSE seen

-----------------------------------------------------------------------------
Init ==
    /\ grants = Seed \cup (Root \X {"super_admin"})
    /\ users = [u \in Users |-> "active"]
    /\ owners = {}
    /\ pc = [r \in Slots |-> "idle"]
    /\ call = [r \in Slots |-> None]
    /\ seen = [r \in Slots |-> None]

Arrive(r, c) ==
    /\ pc[r] = "idle"
    /\ pc' = [pc EXCEPT ![r] = "identify"]
    /\ call' = [call EXCEPT ![r] = c]
    /\ UNCHANGED <<tables, seen>>

ArriveGrant(r, op, u, pair) == Arrive(r, [op |-> op, actor |-> u, pair |-> pair])

\* A payload without is_active changes names only: it is the one with the value
\* that is there.  An is_active of null breaks NOT NULL: Fail.
ArriveUpdate(r, u, user, active) ==
    Arrive(r, [op |-> "update", actor |-> u, user |-> user, is_active |-> active])

ArriveDelete(r, u, user) == Arrive(r, [op |-> "delete", actor |-> u, user |-> user])

ArriveRead(r, op, u) == Arrive(r, [op |-> op, actor |-> u])

\* get_current_user: 401 unless the user of the access token is there and active.
Identify(r) ==
    /\ pc[r] = "identify"
    /\ Goto(r, IF users[call[r].actor] = "active" THEN "permit" ELSE "idle")
    /\ UNCHANGED tables

\* check_permission, a query of its own: 403.
Permit(r) ==
    /\ pc[r] = "permit"
    /\ Goto(r, IF Permitted(call[r].actor, Needs(call[r].op)) THEN "handle" ELSE "idle")
    /\ UNCHANGED tables

-----------------------------------------------------------------------------
\* assign_role_to_user, assign_permission_to_role: 409 when the pair is there.
FindPair(r) ==
    /\ pc[r] = "handle" /\ call[r].op = "assign"
    /\ Goto(r, IF call[r].pair \in grants THEN "idle" ELSE "write")
    /\ UNCHANGED tables

\* INSERT and commit.  It waits for an open DELETE of the same pair; a pair that
\* came meanwhile or a user that went makes it a 500.
InsertPair(r) ==
    /\ pc[r] = "write" /\ call[r].op = "assign"
    /\ ~ Locked(call[r].pair)
    /\ \/ /\ call[r].pair \notin grants /\ Refers(call[r].pair)
          /\ grants' = grants \cup {call[r].pair}
       \/ /\ call[r].pair \in grants \/ ~ Refers(call[r].pair)
          /\ UNCHANGED grants
    /\ Goto(r, "idle")
    /\ UNCHANGED <<users, owners>>

\* remove_role_from_user, remove_permission_from_role: the DELETE locks the row
\* it finds until the commit; without a row there is nothing to commit.
DeletePair(r) ==
    /\ pc[r] = "handle" /\ call[r].op = "remove"
    /\ ~ Locked(call[r].pair)
    /\ Goto(r, IF call[r].pair \in grants THEN "commit" ELSE "idle")
    /\ UNCHANGED tables

CommitRemoval(r) ==
    /\ pc[r] = "commit"
    /\ grants' = grants \ {call[r].pair}
    /\ Goto(r, "idle")
    /\ UNCHANGED <<users, owners>>

-----------------------------------------------------------------------------
\* Mutant of SeenActive: the row is read afresh for the actor too.
SeenAfresh(r) == users[call[r].user] = "active"

\* is_active of the object a SELECT returns.  For the actor the identity map
\* answers with the one get_current_user loaded, which was active.
SeenActive(r) == call[r].user = call[r].actor \/ users[call[r].user] = "active"

\* update_user, delete_user: SELECT the user (404).
FindUser(r) ==
    /\ pc[r] = "handle" /\ call[r].op \in {"update", "delete"}
    /\ \/ /\ ~ Exists(call[r].user)
          /\ Goto(r, "idle")
       \/ /\ Exists(call[r].user)
          /\ pc' = [pc EXCEPT ![r] = "write"]
          /\ seen' = [seen EXCEPT ![r] = SeenActive(r)]
          /\ UNCHANGED call
    /\ UNCHANGED tables

\* Mutant of CommitUpdate: the user is merged into the session, which inserts a row
\* that has gone.
CommitUpdateMerged(r) ==
    /\ pc[r] = "write" /\ call[r].op = "update"
    /\ users' = IF call[r].is_active = seen[r] THEN users
                ELSE [users EXCEPT ![call[r].user] =
                          IF call[r].is_active THEN "active" ELSE "inactive"]
    /\ Goto(r, "idle")
    /\ UNCHANGED <<grants, owners>>

\* is_active is written only if it differs from what was seen.  A row that has
\* gone matches no UPDATE, and refresh misses it: 500.
CommitUpdate(r) ==
    /\ pc[r] = "write" /\ call[r].op = "update"
    /\ users' = IF ~ Exists(call[r].user) \/ call[r].is_active = seen[r] THEN users
                ELSE [users EXCEPT ![call[r].user] =
                          IF call[r].is_active THEN "active" ELSE "inactive"]
    /\ Goto(r, "idle")
    /\ UNCHANGED <<grants, owners>>

\* The flush of a deletion loads owned_tenants, which User declares without
\* passive_deletes: it sets their owner_id to NULL, which is NOT NULL: 500.
LoadOwned(r) ==
    /\ pc[r] = "write" /\ call[r].op = "delete"
    /\ Goto(r, IF call[r].user \in owners THEN "idle" ELSE "erase")
    /\ UNCHANGED tables

\* DELETE and commit; the foreign keys cascade, to a tenant that came after the
\* load too, and wait for an open DELETE of one of the user's roles.
CommitDelete(r) ==
    /\ pc[r] = "erase"
    /\ \A role \in Roles : ~ Locked(<<call[r].user, role>>)
    /\ users' = [users EXCEPT ![call[r].user] = "gone"]
    /\ owners' = owners \ {call[r].user}
    /\ grants' = {pair \in grants : pair[1] # call[r].user}
    /\ Goto(r, "idle")

\* The lists and the single user: a SELECT and the answer.
Read(r) ==
    /\ pc[r] = "handle" /\ call[r].op \in {"list_roles", "list_users"}
    /\ Goto(r, "idle")
    /\ UNCHANGED tables

-----------------------------------------------------------------------------
\* Any exception: what is not committed is rolled back.
Fail(r) ==
    /\ pc[r] # "idle"
    /\ Goto(r, "idle")
    /\ UNCHANGED tables

\* The commit of create_tenant, whose foreign key wants the user.
CreateTenant(u) ==
    /\ Exists(u)
    /\ u \notin owners
    /\ owners' = owners \cup {u}
    /\ UNCHANGED <<grants, users, pc, call, seen>>

Arrivals(r) ==
    \E u \in Users :
        \/ \E op \in {"assign", "remove"}, pair \in Pairs : ArriveGrant(r, op, u, pair)
        \/ \E user \in Users, active \in BOOLEAN : ArriveUpdate(r, u, user, active)
        \/ \E user \in Users : ArriveDelete(r, u, user)
        \/ \E op \in {"list_roles", "list_users"} : ArriveRead(r, op, u)

Serve(r) ==
    \/ Identify(r)
    \/ Permit(r)
    \/ FindPair(r)
    \/ InsertPair(r)
    \/ DeletePair(r)
    \/ CommitRemoval(r)
    \/ FindUser(r)
    \/ CommitUpdate(r)
    \/ LoadOwned(r)
    \/ CommitDelete(r)
    \/ Read(r)

Next ==
    \/ \E r \in Slots : Arrivals(r) \/ Serve(r) \/ Fail(r)
    \/ \E u \in Users : CreateTenant(u)

Spec == Init /\ [][Next]_vars

-----------------------------------------------------------------------------
\* The rows hold what their columns allow, and slots are somewhere in a handler.
TypeOK ==
    /\ grants \subseteq AllPairs
    /\ users \in [Users -> {"active", "inactive", "gone"}]
    /\ owners \subseteq Users
    /\ pc \in [Slots -> Labels]
    /\ call \in [Slots -> Call \cup {None}]
    /\ seen \in [Slots -> BOOLEAN \cup {None}]

\* No role and no tenant is left to a user who has been deleted, whichever of the
\* requests that assign, remove, found and delete comes between the steps of which.
NothingOfTheDeleted ==
    \A u \in Users :
        ~ Exists(u) => u \notin owners /\ \A role \in Roles : <<u, role>> \notin grants

\* Once no user holds roles.manage and no assignment is past the gate, nobody ever
\* gets it back: rights come only from rights, and the last of them can be lost
\* (remove_role_from_user lets the last manager step down).
NoManager ==
    /\ \A u \in Users : ~ Permitted(u, "roles.manage")
    /\ \A r \in Slots : call[r] # None /\ call[r].op = "assign" =>
           pc[r] \in {"identify", "permit"}

LockoutIsFinal == [][NoManager => NoManager']_vars

\* Seen from outside, the endpoints do what Delegation says.
OrderOf(r) ==
    IF pc[r] \in {"idle", "identify"} THEN None
    ELSE IF pc[r] = "permit" THEN [op |-> "known", actor |-> call[r].actor]
    ELSE call[r]

Promise == INSTANCE Delegation
    WITH Desks    <- Slots,
         standing <- users,
         orders   <- [r \in Slots |-> OrderOf(r)]

ImplementsDelegation == Promise!Spec

\* What AuthSession takes for granted of users: they come and go as Directory says,
\* above all for good.
AccountOf(u) == IF Exists(u) THEN users[u] ELSE "deleted"

Directory == INSTANCE Directory
    WITH Tenants    <- {},
         account    <- [u \in Users |-> AccountOf(u)],
         membership <- [m \in {} |-> "none"]

ImplementsDirectory == Directory!Spec
=============================================================================
