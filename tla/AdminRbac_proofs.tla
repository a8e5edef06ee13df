-------------------------- MODULE AdminRbac_proofs --------------------------
(***************************************************************************)
(* Proofs, for every number of requests in service and every set of users, *)
(* roles and permissions, of the properties of AdminRbac, and that it      *)
(* implements Delegation.                                                  *)
(***************************************************************************)
EXTENDS AdminRbac, TLAPS

\* The stage of a request says which endpoint it serves, and what update_user
\* has seen of the actor's own row is the active one the gate let in.
SessionInv ==
    /\ pc \in [Slots -> Labels]
    /\ call \in [Slots -> Call \cup {None}]
    /\ seen \in [Slots -> BOOLEAN \cup {None}]
    /\ \A r \in Slots :
           /\ pc[r] = "idle" <=> call[r] = None
           /\ pc[r] = "write" => call[r].op \in {"assign", "update", "delete"}
           /\ pc[r] = "write" /\ call[r].op = "update" => seen[r] \in BOOLEAN
           /\ pc[r] = "write" /\ call[r].op = "update" /\ call[r].user = call[r].actor =>
                  seen[r] = TRUE
           /\ pc[r] = "erase" => call[r].op = "delete"
           /\ pc[r] = "commit" => call[r].op = "remove"

TableInv ==
    /\ grants \subseteq AllPairs
    /\ users \in [Users -> {"active", "inactive", "gone"}]
    /\ owners \subseteq Users
    /\ NothingOfTheDeleted

IInv == SessionInv /\ TableInv

-----------------------------------------------------------------------------
\* A request in service has a call with the fields of its endpoint.
LEMMA CallFields ==
    ASSUME SessionInv, NEW r \in Slots, pc[r] # "idle"
    PROVE  /\ call[r] \in Call
           /\ call[r].actor \in Users
           /\ call[r].op \in {"assign", "remove", "update", "delete", "list_roles", "list_users"}
           /\ call[r].op \in {"assign", "remove"} => call[r].pair \in AllPairs
           /\ call[r].op \in {"update", "delete"} => call[r].user \in Users
           /\ call[r].op = "update" => call[r].is_active \in BOOLEAN
<1>1. call[r] \in Call
  BY DEF SessionInv
<1> QED
  BY <1>1 DEF Call

\* A request moves to a stage that its endpoint has.
LEMMA MoveKeepsSession ==
    ASSUME SessionInv, NEW r \in Slots, NEW label \in Labels,
           pc[r] # "idle", Goto(r, label),
           label = "write" => call[r].op = "assign",
           label = "erase" => call[r].op = "delete",
           label = "commit" => call[r].op = "remove"
    PROVE  SessionInv'
<1>1. CASE label = "idle"
  BY <1>1, NoneAssumption DEF SessionInv, Goto, Labels
<1>2. CASE label # "idle"
  <2>1. pc' = [pc EXCEPT ![r] = label] /\ UNCHANGED <<call, seen>>
    BY <1>2 DEF Goto
  <2> QED
    BY <1>2, <2>1 DEF SessionInv
<1> QED
  BY <1>1, <1>2

LEMMA SessionStep == IInv /\ [Next]_vars => SessionInv'
<1> SUFFICES ASSUME IInv, [Next]_vars PROVE SessionInv'
  OBVIOUS
<1> USE DEF IInv
<1>1. ASSUME NEW r \in Slots, NEW c \in Call, Arrive(r, c) PROVE SessionInv'
  <2>1. c # None
    BY NoneAssumption
  <2> QED
    BY <1>1, <2>1 DEF Arrive, SessionInv, Labels
<1>2. ASSUME NEW r \in Slots, Arrivals(r) PROVE SessionInv'
  <2>1. PICK c \in Call : Arrive(r, c)
    <3>1. ASSUME NEW u \in Users, NEW op \in {"assign", "remove"}, NEW pair \in Pairs
          PROVE  [op |-> op, actor |-> u, pair |-> pair] \in Call
      BY RbacAssumption DEF Call
    <3>2. ASSUME NEW u \in Users, NEW user \in Users, NEW active \in BOOLEAN
          PROVE  [op |-> "update", actor |-> u, user |-> user, is_active |-> active] \in Call
      BY DEF Call
    <3>3. ASSUME NEW u \in Users, NEW user \in Users
          PROVE  [op |-> "delete", actor |-> u, user |-> user] \in Call
      BY DEF Call
    <3>4. ASSUME NEW u \in Users, NEW op \in {"list_roles", "list_users"}
          PROVE  [op |-> op, actor |-> u] \in Call
      BY DEF Call
    <3> QED
      BY <1>2, <3>1, <3>2, <3>3, <3>4
         DEF Arrivals, ArriveGrant, ArriveUpdate, ArriveDelete, ArriveRead
  <2> QED
    BY <1>1, <2>1
<1>3. ASSUME NEW r \in Slots, FindUser(r) PROVE SessionInv'
  <2>1. CASE Goto(r, "idle")
    BY <1>3, <2>1, MoveKeepsSession DEF FindUser, Labels
  <2>2. CASE /\ pc' = [pc EXCEPT ![r] = "write"]
             /\ seen' = [seen EXCEPT ![r] = SeenActive(r)]
             /\ UNCHANGED call
    <3>1. SeenActive(r) \in BOOLEAN
      BY DEF SeenActive
    <3>2. call[r].user = call[r].actor => SeenActive(r) = TRUE
      BY DEF SeenActive
    <3> QED
      BY <1>3, <2>2, <3>1, <3>2 DEF FindUser, SessionInv, Labels
  <2> QED
    BY <1>3, <2>1, <2>2 DEF FindUser
<1>4. ASSUME NEW r \in Slots, Serve(r) \/ Fail(r), ~ FindUser(r) PROVE SessionInv'
  <2>1. PICK label \in Labels :
            /\ pc[r] # "idle"
            /\ Goto(r, label)
            /\ label = "write" => call[r].op = "assign"
            /\ label = "erase" => call[r].op = "delete"
            /\ label = "commit" => call[r].op = "remove"
    BY <1>4 DEF Serve, Fail, Identify, Permit, FindPair, InsertPair, DeletePair,
       CommitRemoval, CommitUpdate, LoadOwned, CommitDelete, Read, Labels
  <2> QED
    BY <2>1, MoveKeepsSession
<1>5. CASE UNCHANGED <<pc, call, seen>>
  BY <1>5 DEF SessionInv
<1> QED
  BY <1>2, <1>3, <1>4, <1>5 DEF Next, CreateTenant, vars, tables

\* What a commit of each endpoint does to the tables.
LEMMA TableStep == IInv /\ [Next]_vars => TableInv'
<1> SUFFICES ASSUME IInv, [Next]_vars PROVE TableInv'
  OBVIOUS
<1> USE DEF IInv, TableInv, NothingOfTheDeleted, Exists
<1>1. ASSUME NEW r \in Slots, InsertPair(r) PROVE TableInv'
  <2>1. call[r].pair \in AllPairs
    BY <1>1, CallFields DEF InsertPair
  <2>2. UNCHANGED <<users, owners>> /\ grants' \subseteq grants \cup {call[r].pair}
    BY <1>1 DEF InsertPair
  <2>3. ASSUME NEW u \in Users, NEW role \in Roles, <<u, role>> \in grants' \ grants
        PROVE  Exists(u)
    <3>1. <<u, role>> = call[r].pair /\ Refers(call[r].pair)
      BY <1>1, <2>3 DEF InsertPair
    <3>2. Exists(<<u, role>>[1])
      BY <3>1 DEF Refers
    <3> QED
      BY <3>2
  <2> QED
    BY <2>1, <2>2, <2>3
<1>2. ASSUME NEW r \in Slots, CommitRemoval(r) PROVE TableInv'
  BY <1>2 DEF CommitRemoval
<1>3. ASSUME NEW r \in Slots, CommitUpdate(r) PROVE TableInv'
  <2>1. call[r].user \in Users
    BY <1>3, CallFields DEF CommitUpdate
  <2> QED
    BY <1>3, <2>1 DEF CommitUpdate
<1>4. ASSUME NEW r \in Slots, CommitDelete(r) PROVE TableInv'
  <2>1. call[r].user \in Users
    BY <1>4, CallFields DEF CommitDelete, SessionInv
  <2>2. \A role \in Roles : <<call[r].user, role>> \notin grants'
    BY <1>4 DEF CommitDelete
  <2> QED
    BY <1>4, <2>1, <2>2 DEF CommitDelete
<1>5. ASSUME NEW u \in Users, CreateTenant(u) PROVE TableInv'
  BY <1>5 DEF CreateTenant
<1>6. CASE UNCHANGED tables
  BY <1>6 DEF tables
<1> QED
  BY <1>1, <1>2, <1>3, <1>4, <1>5, <1>6
     DEF Next, Serve, Arrivals, ArriveGrant, ArriveUpdate, ArriveDelete, ArriveRead, Arrive,
         Identify, Permit, FindPair, DeletePair, FindUser, LoadOwned, Read, Fail, vars

LEMMA InitIInv == Init => IInv
<1> SUFFICES ASSUME Init PROVE IInv
  OBVIOUS
<1>1. grants \subseteq AllPairs
  BY RbacAssumption DEF Init, Seed, AllPairs
<1>2. SessionInv
  BY NoneAssumption DEF Init, SessionInv, Labels
<1> QED
  BY <1>1, <1>2 DEF Init, IInv, TableInv, NothingOfTheDeleted, Exists

LEMMA AlwaysIInv == Spec => []IInv
<1>1. IInv /\ [Next]_vars => IInv'
  BY SessionStep, TableStep DEF IInv
<1> QED
  BY <1>1, InitIInv, PTL DEF Spec

\* The tables and the stages of any number of admin requests are well formed.
THEOREM TypeCorrect == Spec => []TypeOK
<1>1. IInv => TypeOK
  BY DEF IInv, SessionInv, TableInv, TypeOK
<1> QED
  BY <1>1, AlwaysIInv, PTL

\* A deleted user keeps no role and no tenant, whatever is assigned or founded
\* while the deletion is under way.
THEOREM NothingIsLeftOfTheDeleted == Spec => []NothingOfTheDeleted
<1>1. IInv => NothingOfTheDeleted
  BY DEF IInv, TableInv
<1> QED
  BY <1>1, AlwaysIInv, PTL

-----------------------------------------------------------------------------
\* Only InsertPair adds a row.
LEMMA OnlyInsertGrants ==
    ASSUME Next, \A r \in Slots : ~ InsertPair(r)
    PROVE  grants' \subseteq grants
  BY DEF Next, Serve, Arrivals, ArriveGrant, ArriveUpdate, ArriveDelete, ArriveRead, Arrive,
     Identify, Permit, FindPair, DeletePair, CommitRemoval, FindUser, CommitUpdate, LoadOwned,
     CommitDelete, Read, Fail, CreateTenant, tables

\* Rights come only from rights: with no manager left and no assignment past the
\* gate, there is never a manager again.
THEOREM LockoutStays == Spec => LockoutIsFinal
<1>1. IInv /\ [Next]_vars => (NoManager => NoManager')
  <2> SUFFICES ASSUME IInv, [Next]_vars, NoManager PROVE NoManager'
    OBVIOUS
  <2>1. CASE UNCHANGED vars
    BY <2>1 DEF vars, tables, NoManager, Permitted
  <2>2. CASE Next
    <3>1. \A r \in Slots : ~ InsertPair(r)
      BY DEF InsertPair, NoManager, IInv, SessionInv
    <3>2. grants' \subseteq grants
      BY <2>2, <3>1, OnlyInsertGrants
    <3>3. \A u \in Users : ~ Permitted(u, "roles.manage")'
      BY <3>2 DEF NoManager, Permitted
    <3>4. ASSUME NEW q \in Slots, call'[q] # None, call'[q].op = "assign"
          PROVE  pc'[q] \in {"identify", "permit"}
      <4> USE DEF IInv, SessionInv
      <4>1. CASE pc'[q] = pc[q] /\ call'[q] = call[q]
        BY <3>4, <4>1 DEF NoManager
      <4>2. CASE \E c : Arrive(q, c)
        BY <4>2 DEF Arrive
      <4>3. CASE pc'[q] = "idle"
        BY <3>4, <4>3, SessionStep
      <4>4. CASE Identify(q)
        BY <4>3, <4>4 DEF Identify, Goto
      <4>5. CASE Permit(q)
        <5>1. call[q].op = "assign" \/ pc'[q] = "idle"
          BY <3>4, <4>5 DEF Permit, Goto
        <5>2. call[q].op = "assign" => pc'[q] = "idle"
          BY <4>5, CallFields DEF Permit, Goto, NoManager, Needs
        <5> QED
          BY <4>3, <5>1, <5>2
      <4>6. CASE Serve(q) /\ ~ Identify(q) /\ ~ Permit(q)
        <5>1. pc[q] \notin {"idle", "identify", "permit"}
          BY <4>6 DEF Serve, FindPair, InsertPair, DeletePair, CommitRemoval, FindUser,
             CommitUpdate, LoadOwned, CommitDelete, Read
        <5>2. call[q].op # "assign"
          BY <5>1 DEF NoManager
        <5>3. call'[q] = call[q] \/ call'[q] = None
          BY <4>6 DEF Serve, FindPair, InsertPair, DeletePair, CommitRemoval, FindUser,
             CommitUpdate, LoadOwned, CommitDelete, Read, Goto
        <5> QED
          BY <3>4, <5>2, <5>3
      <4>7. CASE Fail(q)
        BY <4>3, <4>7 DEF Fail, Goto
      <4>8. ASSUME NEW r \in Slots \ {q}, Arrivals(r) \/ Serve(r) \/ Fail(r)
            PROVE  pc'[q] = pc[q] /\ call'[q] = call[q]
        BY <4>8 DEF Serve, Fail, Identify, Permit, FindPair, InsertPair, DeletePair, FindUser,
           CommitRemoval, CommitUpdate, LoadOwned, CommitDelete, Read, Goto,
           Arrivals, ArriveGrant, ArriveUpdate, ArriveDelete, ArriveRead, Arrive
      <4>9. CASE \E u \in Users : CreateTenant(u)
        BY <4>1, <4>9 DEF CreateTenant
      <4>10. CASE Arrivals(q)
        BY <4>2, <4>10 DEF Arrivals, ArriveGrant, ArriveUpdate, ArriveDelete, ArriveRead
      <4> QED
        BY <2>2, <4>1, <4>4, <4>5, <4>6, <4>7, <4>8, <4>9, <4>10 DEF Next
    <3> QED
      BY <3>3, <3>4 DEF NoManager
  <2> QED
    BY <2>1, <2>2
<1> QED
  BY <1>1, AlwaysIInv, PTL DEF Spec, LockoutIsFinal

-----------------------------------------------------------------------------
\* A call in service is an order, or its actor is known, or neither yet.
LEMMA OrderIs ==
    ASSUME IInv, NEW r \in Slots
    PROVE  /\ OrderOf(r) = call[r] \/ pc[r] \in {"idle", "identify", "permit"}
           /\ pc[r] # "idle" => call[r] \in Promise!Order
  BY CallFields DEF OrderOf, IInv, Call, Promise!Order, Promise!Grantable, AllPairs

\* The order of one slot alone changes in a step of that slot.
LEMMA OneOrder ==
    ASSUME IInv, NEW r \in Slots,
           \A q \in Slots \ {r} : pc'[q] = pc[q] /\ call'[q] = call[q]
    PROVE  [q \in Slots |-> OrderOf(q)]' = [[q \in Slots |-> OrderOf(q)] EXCEPT ![r] = OrderOf(r)']
  BY DEF OrderOf

LEMMA Leaves ==
    ASSUME IInv, NEW r \in Slots, Goto(r, "idle")
    PROVE  Promise!Leave(r)
<1>1. pc' = [pc EXCEPT ![r] = "idle"] /\ call' = [call EXCEPT ![r] = None]
  BY DEF Goto
<1>2. pc'[r] = "idle" /\ \A q \in Slots \ {r} : pc'[q] = pc[q] /\ call'[q] = call[q]
  BY <1>1 DEF IInv, SessionInv
<1>3. OrderOf(r)' = None
  BY <1>2 DEF OrderOf
<1> QED
  BY <1>2, <1>3, OneOrder DEF Promise!Leave

\* A request that ends without a change of the tables withdraws its order.
LEMMA Withdraws ==
    ASSUME IInv, NEW r \in Slots, Goto(r, "idle"), UNCHANGED tables
    PROVE  [Promise!Next]_(Promise!vars)
  BY Leaves DEF Promise!Withdraw, Promise!Next, tables

\* A step past the gate that neither ends nor writes is not seen.
LEMMA Handles ==
    ASSUME IInv, NEW r \in Slots, UNCHANGED tables, UNCHANGED call,
           NEW label \in {"write", "erase", "commit"},
           pc' = [pc EXCEPT ![r] = label],
           pc[r] \notin {"idle", "identify", "permit"}
    PROVE  [Promise!Next]_(Promise!vars)
<1>1. \A q \in Slots : OrderOf(q)' = OrderOf(q)
  BY DEF IInv, SessionInv, OrderOf
<1> QED
  BY <1>1 DEF Promise!vars, tables

LEMMA GateImplements ==
    ASSUME IInv, NEW r \in Slots, Identify(r) \/ Permit(r)
    PROVE  [Promise!Next]_(Promise!vars)
<1>1. CASE Goto(r, "idle")
  BY <1>1, Withdraws DEF Identify, Permit
<1>2. CASE Identify(r) /\ ~ Goto(r, "idle")
  <2>1. /\ pc[r] = "identify" /\ users[call[r].actor] = "active"
        /\ pc' = [pc EXCEPT ![r] = "permit"] /\ UNCHANGED call /\ UNCHANGED tables
    BY <1>2 DEF Identify, Goto
  <2>2. call[r].actor \in Users
    BY <2>1, CallFields DEF IInv
  <2>3. pc'[r] = "permit" /\ \A q \in Slots \ {r} : pc'[q] = pc[q] /\ call'[q] = call[q]
    BY <2>1 DEF IInv, SessionInv
  <2>4. OrderOf(r) = None /\ OrderOf(r)' = Promise!Known(call[r].actor)
    BY <2>1, <2>3 DEF OrderOf, Promise!Known
  <2>5. Promise!Identify(r, call[r].actor)
    BY <2>1, <2>3, <2>4, OneOrder DEF Promise!Identify, tables
  <2> QED
    BY <2>2, <2>5 DEF Promise!Next
<1>3. CASE Permit(r) /\ ~ Goto(r, "idle")
  <2>1. /\ pc[r] = "permit" /\ Permitted(call[r].actor, Needs(call[r].op))
        /\ pc' = [pc EXCEPT ![r] = "handle"] /\ UNCHANGED call /\ UNCHANGED tables
    BY <1>3 DEF Permit, Goto
  <2>2. call[r] \in Promise!Order
    BY <2>1, OrderIs
  <2>3. pc'[r] = "handle" /\ \A q \in Slots \ {r} : pc'[q] = pc[q] /\ call'[q] = call[q]
    BY <2>1 DEF IInv, SessionInv
  <2>4. OrderOf(r) = Promise!Known(call[r].actor) /\ OrderOf(r)' = call[r]
    BY <2>1, <2>3 DEF OrderOf, Promise!Known
  <2>5. Promise!Holds(call[r].actor, Promise!Calls(call[r].op))
    <3>1. Promise!Calls(call[r].op) = Needs(call[r].op)
      BY DEF Promise!Calls, Needs
    <3> QED
      BY <2>1, <3>1 DEF Permitted, Promise!Holds
  <2>6. Promise!Take(r, call[r])
    BY <2>1, <2>3, <2>4, <2>5, OneOrder DEF Promise!Take, tables
  <2> QED
    BY <2>2, <2>6 DEF Promise!Next
<1> QED
  BY <1>1, <1>2, <1>3

LEMMA CommitImplements ==
    ASSUME IInv, NEW r \in Slots,
           InsertPair(r) \/ CommitRemoval(r) \/ CommitUpdate(r) \/ CommitDelete(r)
    PROVE  [Promise!Next]_(Promise!vars)
<1> DEFINE orders == [q \in Slots |-> OrderOf(q)]
<1>1. /\ Goto(r, "idle")
      /\ pc[r] \in {"write", "commit", "erase"}
  BY DEF InsertPair, CommitRemoval, CommitUpdate, CommitDelete
<1>2. Promise!Leave(r)
  BY <1>1, Leaves
<1>3. orders[r] = call[r] /\ orders[r] \in Promise!Order
  BY <1>1, OrderIs
<1>4. CASE UNCHANGED tables
  BY <1>1, <1>4, Withdraws
<1>5. CASE InsertPair(r) /\ ~ UNCHANGED tables
  <2>1. /\ call[r].op = "assign" /\ call[r].pair \notin grants /\ Refers(call[r].pair)
        /\ grants' = grants \cup {call[r].pair} /\ UNCHANGED users
    BY <1>5 DEF InsertPair, tables
  <2>2. call[r].pair \in AllPairs
    BY <1>1, <2>1, CallFields DEF IInv
  <2>3. call[r].pair[1] \in Users => users[call[r].pair[1]] # "gone"
    BY <2>1, <2>2, RbacAssumption DEF Refers, Exists, AllPairs
  <2>4. Promise!Assign(r, call[r].pair)
    BY <1>2, <1>3, <2>1, <2>3 DEF Promise!Assign
  <2> QED
    BY <1>3, <2>2, <2>4 DEF Promise!Next, AllPairs, Promise!Grantable
<1>6. CASE CommitRemoval(r)
  <2>1. call[r].op = "remove" /\ call[r].pair \in AllPairs
    BY <1>1, <1>6, CallFields DEF IInv, SessionInv, CommitRemoval
  <2>2. Promise!Remove(r, call[r].pair)
    BY <1>2, <1>3, <1>6, <2>1 DEF Promise!Remove, CommitRemoval
  <2> QED
    BY <1>3, <2>1, <2>2 DEF Promise!Next, AllPairs, Promise!Grantable
<1>7. CASE CommitUpdate(r) /\ ~ UNCHANGED tables
  <2>1. /\ call[r].op = "update" /\ Exists(call[r].user) /\ call[r].is_active # seen[r]
        /\ users' = [users EXCEPT ![call[r].user] =
                         IF call[r].is_active THEN "active" ELSE "inactive"]
        /\ UNCHANGED grants
    BY <1>7 DEF CommitUpdate, tables
  <2>2. call[r].user \in Users /\ call[r].is_active \in BOOLEAN
    BY <1>1, <2>1, CallFields DEF IInv
  <2>3. CASE call[r].is_active
    <3>1. call[r].actor # call[r].user
      BY <1>7, <2>1, <2>2, <2>3 DEF CommitUpdate, IInv, SessionInv
    <3>2. Promise!Reactivate(r, call[r].user)
      BY <1>2, <1>3, <2>1, <2>3, <3>1 DEF Promise!Reactivate, Exists
    <3> QED
      BY <1>3, <2>2, <3>2 DEF Promise!Next
  <2>4. CASE ~ call[r].is_active
    <3>1. Promise!Deactivate(r, call[r].user)
      BY <1>2, <1>3, <2>1, <2>4 DEF Promise!Deactivate, Exists
    <3> QED
      BY <1>3, <2>2, <3>1 DEF Promise!Next
  <2> QED
    BY <2>3, <2>4
<1>8. CASE CommitDelete(r)
  <2>1. /\ call[r].op = "delete"
        /\ users' = [users EXCEPT ![call[r].user] = "gone"]
        /\ grants' = {pair \in grants : pair[1] # call[r].user}
    BY <1>8 DEF CommitDelete, IInv, SessionInv
  <2>2. call[r].user \in Users
    BY <1>1, <2>1, CallFields DEF IInv
  <2>3. CASE Exists(call[r].user)
    <3>1. Promise!Delete(r, call[r].user)
      BY <1>2, <1>3, <2>1, <2>3 DEF Promise!Delete, Exists
    <3> QED
      BY <1>3, <2>2, <3>1 DEF Promise!Next
  <2>4. CASE ~ Exists(call[r].user)
    <3>1. users' = users
      BY <2>1, <2>2, <2>4 DEF Exists, IInv, TableInv
    <3>2. \A pair \in grants : pair[1] # call[r].user
      BY <2>2, <2>4, RbacAssumption DEF IInv, TableInv, NothingOfTheDeleted, AllPairs
    <3>3. grants' = grants
      BY <2>1, <3>2
    <3> QED
      BY <1>2, <3>1, <3>3 DEF Promise!Withdraw, Promise!Next
  <2> QED
    BY <2>3, <2>4
<1> QED
  BY <1>4, <1>5, <1>6, <1>7, <1>8

LEMMA StepImplements == IInv /\ [Next]_vars => [Promise!Next]_(Promise!vars)
<1> SUFFICES ASSUME IInv, [Next]_vars PROVE [Promise!Next]_(Promise!vars)
  OBVIOUS
<1>1. ASSUME NEW r \in Slots, Arrivals(r) PROVE [Promise!Next]_(Promise!vars)
  <2>1. /\ pc[r] = "idle" /\ pc'[r] = "identify" /\ UNCHANGED tables
        /\ \A q \in Slots \ {r} : pc'[q] = pc[q] /\ call'[q] = call[q]
    BY <1>1 DEF Arrivals, ArriveGrant, ArriveUpdate, ArriveDelete, ArriveRead, Arrive,
       IInv, SessionInv
  <2>2. \A q \in Slots : OrderOf(q)' = OrderOf(q)
    BY <2>1 DEF OrderOf
  <2> QED
    BY <2>1, <2>2 DEF Promise!vars, tables
<1>2. ASSUME NEW r \in Slots, Goto(r, "idle"), UNCHANGED tables
      PROVE  [Promise!Next]_(Promise!vars)
  BY <1>2, Withdraws
<1>3. ASSUME NEW r \in Slots, FindPair(r) \/ DeletePair(r) \/ FindUser(r) \/ LoadOwned(r)
      PROVE  [Promise!Next]_(Promise!vars)
  <2>1. UNCHANGED tables /\ pc[r] \notin {"idle", "identify", "permit"}
    BY <1>3 DEF FindPair, DeletePair, FindUser, LoadOwned
  <2>2. Goto(r, "idle") \/ \E label \in {"write", "erase", "commit"} :
                               pc' = [pc EXCEPT ![r] = label] /\ UNCHANGED call
    BY <1>3 DEF FindPair, DeletePair, FindUser, LoadOwned, Goto
  <2> QED
    BY <2>1, <2>2, <1>2, Handles
<1>4. ASSUME NEW u \in Users, CreateTenant(u) PROVE [Promise!Next]_(Promise!vars)
  BY <1>4 DEF CreateTenant, Promise!vars, OrderOf
<1>5. CASE UNCHANGED vars
  BY <1>5 DEF vars, tables, Promise!vars, OrderOf
<1> QED
  BY <1>1, <1>2, <1>3, <1>4, <1>5, GateImplements, CommitImplements
     DEF Next, Serve, Read, Fail

\* Every change of a role, a permission or a user is an order of somebody who was
\* known as active and held the permission it calls for; it is carried out once,
\* on what it names and nothing else, and nobody lifts his own deactivation.
THEOREM RbacImplementsDelegation == Spec => ImplementsDelegation
<1>1. Init => Promise!Init
  <2> SUFFICES ASSUME Init PROVE Promise!Init
    OBVIOUS
  <2>1. IInv
    BY InitIInv
  <2> QED
    BY <2>1 DEF Init, Promise!Init, OrderOf, IInv, TableInv, AllPairs, Promise!Grantable
<1> QED
  BY <1>1, StepImplements, AlwaysIInv, PTL DEF Spec, ImplementsDelegation, Promise!Spec

-----------------------------------------------------------------------------
\* What a request does to users, as Directory sees it.
LEMMA UpdateSets ==
    ASSUME IInv, NEW r \in Slots, CommitUpdate(r)
    PROVE  [Directory!Next]_(Directory!vars)
<1> DEFINE accounts == [u \in Users |-> AccountOf(u)]
<1>1. CASE UNCHANGED users
  BY <1>1 DEF Directory!vars, AccountOf, Exists
<1>2. CASE users' # users
  <2>1. PICK u \in Users, status \in {"active", "inactive"} :
            Exists(u) /\ users' = [users EXCEPT ![u] = status]
    BY <1>2, CallFields DEF CommitUpdate, IInv
  <2>2. users'[u] = status /\ \A v \in Users \ {u} : users'[v] = users[v]
    BY <2>1 DEF IInv, TableInv
  <2>3. AccountOf(u) # "deleted" /\ AccountOf(u)' = status
    BY <2>1, <2>2 DEF AccountOf, Exists, IInv, TableInv
  <2>4. \A v \in Users \ {u} : AccountOf(v)' = AccountOf(v)
    BY <2>2 DEF AccountOf, Exists
  <2>5. accounts' = [accounts EXCEPT ![u] = status]
    BY <2>3, <2>4
  <2>6. Directory!SetActive(u, status)
    BY <2>3, <2>5 DEF Directory!SetActive
  <2> QED
    BY <2>6 DEF Directory!Next, Directory!Change
<1> QED
  BY <1>1, <1>2

LEMMA DeleteDeletes ==
    ASSUME IInv, NEW r \in Slots, CommitDelete(r)
    PROVE  [Directory!Next]_(Directory!vars)
<1> DEFINE accounts == [u \in Users |-> AccountOf(u)]
           members == [m \in {} |-> "none"]
<1>1. PICK u \in Users : users' = [users EXCEPT ![u] = "gone"]
  BY CallFields DEF CommitDelete, IInv, SessionInv
<1>2. users'[u] = "gone" /\ \A v \in Users \ {u} : users'[v] = users[v]
  BY <1>1 DEF IInv, TableInv
<1>3. AccountOf(u)' = "deleted" /\ \A v \in Users \ {u} : AccountOf(v)' = AccountOf(v)
  BY <1>2 DEF AccountOf, Exists
<1>4. CASE Exists(u)
  <2>1. AccountOf(u) # "deleted"
    BY <1>4 DEF AccountOf, Exists, IInv, TableInv
  <2>2. accounts' = [accounts EXCEPT ![u] = "deleted"]
    BY <1>3
  <2>3. Users \X {} = {}
    OBVIOUS
  <2>4. members' = [m \in Users \X {} |-> IF m[1] = u THEN "none" ELSE members[m]]
    BY <2>3
  <2>5. Directory!Delete(u)
    BY <2>1, <2>2, <2>4 DEF Directory!Delete
  <2> QED
    BY <2>5 DEF Directory!Next
<1>5. CASE ~ Exists(u)
  <2>1. \A v \in Users : AccountOf(v)' = AccountOf(v)
    BY <1>3, <1>5 DEF AccountOf
  <2> QED
    BY <2>1 DEF Directory!vars
<1> QED
  BY <1>4, <1>5

\* What AuthSession assumes of users, the endpoints of /api/v1/admin keep: an update
\* that read a user before he was deleted does not bring him back.
THEOREM RbacImplementsDirectory == Spec => ImplementsDirectory
<1>1. Init => Directory!Init
  <2>1. Users \X {} = {}
    OBVIOUS
  <2> QED
    BY <2>1 DEF Init, Directory!Init, AccountOf, Exists
<1>2. IInv /\ [Next]_vars => [Directory!Next]_(Directory!vars)
  <2> SUFFICES ASSUME IInv, [Next]_vars PROVE [Directory!Next]_(Directory!vars)
    OBVIOUS
  <2>1. CASE UNCHANGED users
    BY <2>1 DEF Directory!vars, AccountOf, Exists
  <2>2. CASE users' # users
    <3>1. PICK r \in Slots : CommitUpdate(r) \/ CommitDelete(r)
      BY <2>2 DEF Next, Arrivals, ArriveGrant, ArriveUpdate, ArriveDelete, ArriveRead,
         Arrive, Serve, Identify, Permit, FindPair, InsertPair, DeletePair, CommitRemoval,
         FindUser, LoadOwned, Read, Fail, CreateTenant, vars, tables
    <3> QED
      BY <3>1, UpdateSets, DeleteDeletes
  <2> QED
    BY <2>1, <2>2
<1> QED
  BY <1>1, <1>2, AlwaysIInv, PTL DEF Spec, Directory!Spec, ImplementsDirectory
=============================================================================
