----------------------- MODULE AccountRecovery_proofs -----------------------
(***************************************************************************)
(* Proofs, for every set of requests and addresses and every lifetime of   *)
(* the tokens, of the safety properties of AccountRecovery and of its      *)
(* refinement of Accounts.                                                 *)
(***************************************************************************)
EXTENDS AccountRecovery, TLAPS

Opening == {"register", "forgot"}   \* the endpoints that name an address

\* A request's stage says which endpoint it serves.
StageInv ==
    \A r \in Requests :
        /\ pc[r] # "idle" => call[r] \in Call
        /\ pc[r] \in {"lookup", "insert", "issue", "store", "mail"} => call[r].op \in Opening
        /\ pc[r] \in {"insert", "issue"} => call[r].op = "register"
        /\ pc[r] \in {"decode", "select", "user", "commit"} => call[r].op \in Kinds
        /\ pc[r] \in {"select", "user", "commit"} => call[r].token.kind = call[r].op

\* A row of users comes from the registration that is its key.
UserInv ==
    \A u \in Requests :
        /\ users[u] # None =>
              /\ pc[u] \notin {"idle", "lookup", "insert"}
              /\ call[u].op = "register"
        /\ Exists(u) => users[u].email = call[u].email
        /\ pc[u] \in {"issue", "store", "mail", "done"} /\ call[u].op = "register" =>
              users[u] # None

\* The unique index on users.email.
UniqueInv ==
    \A u, v \in Requests :
        Exists(u) /\ Exists(v) /\ users[u].email = users[v].email => u = v

\* A token about to be stored or mailed is for the user at the request's address.
IssuedInv ==
    \A r \in Requests :
        pc[r] \in {"store", "mail"} =>
            /\ issued[r] \in Token
            /\ users[issued[r].sub] # None
            /\ call[issued[r].sub].email = call[r].email
            /\ call[r].op = "register" => issued[r].sub = r /\ issued[r].kind = "verify"
            /\ call[r].op = "forgot" => issued[r].kind = "reset"

\* A row of the token tables has its user, who is verified once it is spent.
RowInv ==
    \A k \in Requests :
        tokens[k] # None =>
            /\ pc[k] \notin {"idle", "lookup", "insert", "issue", "store"}
            /\ Exists(tokens[k].token.sub)
            /\ tokens[k].used /\ tokens[k].token.kind = "verify" =>
                  users[tokens[k].token.sub].is_verified

\* Letters went to the address of the account they are about.
MailInv ==
    \A l \in mailed :
        /\ users[l.token.sub] # None
        /\ l.to = call[l.token.sub].email

\* A token a client presents has come in a letter.
PresentedInv ==
    \A r \in Requests :
        pc[r] # "idle" /\ call[r].op \in Kinds =>
            \E l \in mailed : l.token = call[r].token

\* The row a request picked is one of its token until the user is deleted.
PickedInv ==
    \A r \in Requests :
        pc[r] \in {"user", "commit"} =>
            /\ picked[r] \in Requests
            /\ Exists(call[r].token.sub) =>
                  /\ tokens[picked[r]] # None
                  /\ tokens[picked[r]].token = call[r].token

\* From its commit on, the row of a registration's token is there, and from the
\* answer on its letter too, until the user is deleted.
RegisteredInv ==
    \A r \in Requests :
        pc[r] \in {"mail", "done"} /\ call[r].op = "register" /\ Exists(r) =>
            /\ tokens[r] # None
            /\ tokens[r].token.sub = r
            /\ tokens[r].token.kind = "verify"
            /\ issued[r] = tokens[r].token
            /\ pc[r] = "done" => [to |-> users[r].email, token |-> tokens[r].token] \in mailed

\* A dead token stays dead.
LateInv ==
    \A r \in late :
        /\ pc[r] \in {"decode", "select", "failed"}
        /\ call[r].op \in Kinds
        /\ Dead(call[r].token)
        /\ pc[r] = "select" => Spent(call[r].token)

IInv ==
    /\ TypeOK
    /\ StageInv
    /\ UserInv
    /\ UniqueInv
    /\ IssuedInv
    /\ RowInv
    /\ MailInv
    /\ PresentedInv
    /\ PickedInv
    /\ RegisteredInv
    /\ LateInv

-----------------------------------------------------------------------------
\* A request that fails leaves the tables as they are.
LEMMA FailedStep ==
    ASSUME NEW r \in Requests, IInv, pc[r] \in Working,
           pc' = [pc EXCEPT ![r] = "failed"],
           UNCHANGED <<now, users, tokens, mailed, call, issued, picked, late>>
    PROVE  IInv'
<1> USE NoneAssumption DEF IInv, Exists, Kinds, Opening, Working
<1>1. TypeOK'
  BY DEF TypeOK, StageInv, IssuedInv, PickedInv, Letter, Finished, Token,
         User, Row, Call
<1>2. StageInv'
  BY DEF StageInv, TypeOK
<1>3. UserInv'
  BY DEF UserInv, TypeOK
<1>4. UniqueInv'
  BY DEF UniqueInv
<1>5. IssuedInv'
  BY DEF IssuedInv, TypeOK, StageInv, UserInv
<1>6. RowInv'
  BY DEF RowInv, TypeOK
<1>7. MailInv'
  BY DEF MailInv, TypeOK
<1>8. PresentedInv'
  BY DEF PresentedInv, TypeOK, StageInv
<1>9. PickedInv'
  BY DEF PickedInv, TypeOK
<1>10. RegisteredInv'
  BY DEF RegisteredInv, TypeOK
<1>11. LateInv'
  BY DEF LateInv, TypeOK, StageInv, Dead, Spent, Lifetime
<1> QED
  BY <1>1, <1>2, <1>3, <1>4, <1>5, <1>6, <1>7, <1>8, <1>9, <1>10, <1>11

\* What the commit of verify_email or reset_password writes.
LEMMA CommitEffect ==
    ASSUME NEW r \in Requests, IInv, CommitToken(r), pc' = [pc EXCEPT ![r] = "done"]
    PROVE  \E row \in User, entry \in Row :
             /\ call[r].op \in Kinds
             /\ call[r].op = call[r].token.kind
             /\ Exists(call[r].token.sub) /\ call[r].token.sub \in Requests
             /\ picked[r] \in Requests /\ tokens[picked[r]] # None
             /\ tokens[picked[r]].token = call[r].token
             /\ row.email = users[call[r].token.sub].email
             /\ IF call[r].op = "verify"
                THEN row.is_verified /\ row.password = users[call[r].token.sub].password
                ELSE /\ row.is_verified = users[call[r].token.sub].is_verified
                     /\ row.password = r
             /\ users' = [users EXCEPT ![call[r].token.sub] = row]
             /\ entry.token = call[r].token /\ entry.used
             /\ tokens' = [tokens EXCEPT ![picked[r]] = entry]
             /\ UNCHANGED <<now, mailed, call, issued, picked, late>>
<1> USE DEF IInv, Goto, Exists, Kinds
<1> DEFINE u == call[r].token.sub
<1>1. pc[r] = "commit" /\ call[r].op \in Kinds /\ call[r].token.kind = call[r].op
  BY DEF CommitToken, StageInv
<1>2. Exists(u)
  BY DEF CommitToken, TypeOK
<1>3. /\ picked[r] \in Requests
      /\ tokens[picked[r]] \in Row
      /\ tokens[picked[r]] # None
      /\ tokens[picked[r]].token = call[r].token
  BY <1>1, <1>2 DEF PickedInv, TypeOK
<1>4. u \in Requests /\ users[u] \in User
  BY <1>2, <1>3 DEF TypeOK, Row, Token
<1>5. PICK entry \in Row : /\ entry.token = call[r].token
                          /\ entry.used
                          /\ tokens' = [tokens EXCEPT ![picked[r]] = entry]
  <2>1. tokens' = [tokens EXCEPT ![picked[r]] = [tokens[picked[r]] EXCEPT !.used = TRUE]]
    BY <1>2 DEF CommitToken, TypeOK
  <2> QED
    BY <1>3, <2>1 DEF Row
<1>6. UNCHANGED <<now, mailed, call, issued, picked, late>>
  BY DEF CommitToken
<1>7. CASE call[r].op = "verify"
  <2>1. users' = [users EXCEPT ![u] = [users[u] EXCEPT !.is_verified = TRUE]]
    BY <1>2, <1>7 DEF CommitToken, TypeOK
  <2>2. PICK row \in User : /\ row.email = users[u].email
                           /\ row.is_verified
                           /\ row.password = users[u].password
                           /\ users' = [users EXCEPT ![u] = row]
    BY <1>4, <2>1 DEF User
  <2> QED
    BY <1>1, <1>2, <1>3, <1>4, <1>5, <1>6, <1>7, <2>2
<1>8. CASE call[r].op = "reset"
  <2>1. users' = [users EXCEPT ![u] = [users[u] EXCEPT !.password = r]]
    BY <1>2, <1>8 DEF CommitToken, TypeOK
  <2>2. PICK row \in User : /\ row.email = users[u].email
                           /\ row.is_verified = users[u].is_verified
                           /\ row.password = r
                           /\ users' = [users EXCEPT ![u] = row]
    BY <1>4, <2>1 DEF User
  <2> QED
    BY <1>1, <1>2, <1>3, <1>4, <1>5, <1>6, <1>8, <2>2
<1> QED
  BY <1>1, <1>7, <1>8

\* Every step keeps the invariant.
LEMMA InductiveStep == IInv /\ [Next]_vars => IInv'
<1> SUFFICES ASSUME IInv, [Next]_vars PROVE IInv'
  OBVIOUS
<1> USE NoneAssumption, LifetimeAssumption
        DEF IInv, db, Goto, Exists, Kinds, Opening
<1>1. ASSUME NEW r \in Requests, NEW op \in {"register", "forgot"}, NEW e \in Emails,
             ArriveWithEmail(r, op, e)
      PROVE  IInv'
  <2>1. TypeOK'
    BY <1>1 DEF ArriveWithEmail, Arrive, TypeOK, StageInv, IssuedInv,
                PickedInv, Letter, Working, Finished, Token, User, Row, Call
  <2>2. StageInv'
    BY <1>1 DEF ArriveWithEmail, Arrive, StageInv, TypeOK, Call
  <2>3. UserInv'
    BY <1>1 DEF ArriveWithEmail, Arrive, UserInv, TypeOK, StageInv
  <2>4. UniqueInv'
    BY <1>1 DEF ArriveWithEmail, Arrive, UniqueInv
  <2>5. IssuedInv'
    BY <1>1 DEF ArriveWithEmail, Arrive, IssuedInv, TypeOK, StageInv, UserInv
  <2>6. RowInv'
    BY <1>1 DEF ArriveWithEmail, Arrive, RowInv, TypeOK, StageInv, UserInv,
                IssuedInv, PickedInv
  <2>7. MailInv'
    BY <1>1 DEF ArriveWithEmail, Arrive, MailInv, TypeOK, UserInv, IssuedInv,
                Letter
  <2>8. PresentedInv'
    BY <1>1 DEF ArriveWithEmail, Arrive, PresentedInv, TypeOK, StageInv
  <2>9. PickedInv'
    BY <1>1 DEF ArriveWithEmail, Arrive, PickedInv, TypeOK, StageInv,
                IssuedInv, RowInv
  <2>10. RegisteredInv'
    BY <1>1 DEF ArriveWithEmail, Arrive, RegisteredInv, TypeOK, UserInv
  <2>11. LateInv'
    BY <1>1 DEF ArriveWithEmail, Arrive, LateInv, TypeOK, StageInv, Dead,
                Spent, Lifetime
  <2> QED
    BY <2>1, <2>2, <2>3, <2>4, <2>5, <2>6, <2>7, <2>8, <2>9, <2>10, <2>11
<1>2. ASSUME NEW r \in Requests, NEW op \in Kinds, NEW letter \in mailed,
             ArriveWithToken(r, op, letter)
      PROVE  IInv'
  <2>1. TypeOK'
    BY <1>2 DEF ArriveWithToken, Arrive, TypeOK, StageInv, IssuedInv,
                PickedInv, Letter, Working, Finished, Token, User, Row, Call
  <2>2. StageInv'
    BY <1>2 DEF ArriveWithToken, Arrive, StageInv, TypeOK, Call, Letter, Token
  <2>3. UserInv'
    BY <1>2 DEF ArriveWithToken, Arrive, UserInv, TypeOK, StageInv
  <2>4. UniqueInv'
    BY <1>2 DEF ArriveWithToken, Arrive, UniqueInv
  <2>5. IssuedInv'
    BY <1>2 DEF ArriveWithToken, Arrive, IssuedInv, TypeOK, StageInv, UserInv
  <2>6. RowInv'
    BY <1>2 DEF ArriveWithToken, Arrive, RowInv, TypeOK, StageInv, UserInv,
                IssuedInv, PickedInv
  <2>7. MailInv'
    BY <1>2 DEF ArriveWithToken, Arrive, MailInv, TypeOK, UserInv, IssuedInv,
                Letter
  <2>8. PresentedInv'
    BY <1>2 DEF ArriveWithToken, Arrive, PresentedInv, TypeOK, StageInv
  <2>9. PickedInv'
    BY <1>2 DEF ArriveWithToken, Arrive, PickedInv, TypeOK, StageInv,
                IssuedInv, RowInv
  <2>10. RegisteredInv'
    BY <1>2 DEF ArriveWithToken, Arrive, RegisteredInv, TypeOK, UserInv
  <2>11. LateInv'
    BY <1>2 DEF ArriveWithToken, Arrive, LateInv, TypeOK, StageInv, Dead,
                Spent, Lifetime
  <2> QED
    BY <2>1, <2>2, <2>3, <2>4, <2>5, <2>6, <2>7, <2>8, <2>9, <2>10, <2>11
<1>3. ASSUME NEW r \in Requests,
             Lookup(r)
      PROVE  IInv'
  <2>1. pc[r] = "lookup"
    BY <1>3 DEF Lookup
  <2>2. CASE pc' = [pc EXCEPT ![r] = "failed"]
    <3>1. UNCHANGED <<now, users, tokens, mailed, call, issued, picked, late>>
      BY <1>3, <2>2 DEF Lookup, NewToken, UsersAt, TypeOK
    <3> QED
      BY <2>1, <2>2, <3>1, FailedStep DEF Working
  <2>3. CASE pc' = [pc EXCEPT ![r] = "insert"]
    <3>1. call[r].op = "register"
      BY <1>3, <2>3 DEF Lookup, NewToken, UsersAt, TypeOK, StageInv, UserInv,
                        IssuedInv, PickedInv
    <3>2. UNCHANGED <<now, users, tokens, mailed, call, issued, picked, late>>
      BY <1>3, <2>3 DEF Lookup, NewToken, UsersAt, TypeOK, StageInv, UserInv,
                        IssuedInv, PickedInv
    <3>3. TypeOK'
      BY <2>1, <2>3, <3>1, <3>2
      DEF TypeOK, StageInv, IssuedInv, PickedInv, Letter, Working, Finished,
          Token, User, Row, Call, NewToken, Lifetime
    <3>4. StageInv'
      BY <2>1, <2>3, <3>1, <3>2
      DEF StageInv, TypeOK, NewToken, Lifetime
    <3>5. UserInv'
      BY <2>1, <2>3, <3>1, <3>2
      DEF UserInv, TypeOK, StageInv, NewToken, Lifetime
    <3>6. UniqueInv'
      BY <2>1, <2>3, <3>1, <3>2
      DEF UniqueInv, NewToken, Lifetime
    <3>7. IssuedInv'
      BY <2>1, <2>3, <3>1, <3>2
      DEF IssuedInv, TypeOK, StageInv, UserInv, Token, Lifetime, NewToken
    <3>8. RowInv'
      BY <2>1, <2>3, <3>1, <3>2
      DEF RowInv, TypeOK, StageInv, UserInv, IssuedInv, PickedInv, NewToken,
          Lifetime
    <3>9. MailInv'
      BY <2>1, <2>3, <3>1, <3>2
      DEF MailInv, TypeOK, UserInv, IssuedInv, Letter, NewToken, Lifetime
    <3>10. PresentedInv'
      BY <2>1, <2>3, <3>1, <3>2
      DEF PresentedInv, TypeOK, StageInv, NewToken, Lifetime
    <3>11. PickedInv'
      BY <2>1, <2>3, <3>1, <3>2
      DEF PickedInv, TypeOK, StageInv, IssuedInv, RowInv, NewToken, Lifetime
    <3>12. RegisteredInv'
      BY <2>1, <2>3, <3>1, <3>2
      DEF RegisteredInv, TypeOK, NewToken, Lifetime
    <3>13. LateInv'
      BY <2>1, <2>3, <3>1, <3>2
      DEF LateInv, TypeOK, StageInv, Dead, Spent, Lifetime, Token, NewToken
    <3> QED
      BY <3>3, <3>4, <3>5, <3>6, <3>7, <3>8, <3>9, <3>10, <3>11, <3>12, <3>13
  <2>4. CASE pc' = [pc EXCEPT ![r] = "done"]
    <3>1. call[r].op = "forgot"
      BY <1>3, <2>4 DEF Lookup, NewToken, UsersAt, TypeOK, StageInv, UserInv,
                        IssuedInv, PickedInv
    <3>2. UNCHANGED <<now, users, tokens, mailed, call, issued, picked, late>>
      BY <1>3, <2>4 DEF Lookup, NewToken, UsersAt, TypeOK, StageInv, UserInv,
                        IssuedInv, PickedInv
    <3>3. TypeOK'
      BY <2>1, <2>4, <3>1, <3>2
      DEF TypeOK, StageInv, IssuedInv, PickedInv, Letter, Working, Finished,
          Token, User, Row, Call, NewToken, Lifetime
    <3>4. StageInv'
      BY <2>1, <2>4, <3>1, <3>2
      DEF StageInv, TypeOK, NewToken, Lifetime
    <3>5. UserInv'
      BY <2>1, <2>4, <3>1, <3>2
      DEF UserInv, TypeOK, StageInv, NewToken, Lifetime
    <3>6. UniqueInv'
      BY <2>1, <2>4, <3>1, <3>2
      DEF UniqueInv, NewToken, Lifetime
    <3>7. IssuedInv'
      BY <2>1, <2>4, <3>1, <3>2
      DEF IssuedInv, TypeOK, StageInv, UserInv, Token, Lifetime, NewToken
    <3>8. RowInv'
      BY <2>1, <2>4, <3>1, <3>2
      DEF RowInv, TypeOK, StageInv, UserInv, IssuedInv, PickedInv, NewToken,
          Lifetime
    <3>9. MailInv'
      BY <2>1, <2>4, <3>1, <3>2
      DEF MailInv, TypeOK, UserInv, IssuedInv, Letter, NewToken, Lifetime
    <3>10. PresentedInv'
      BY <2>1, <2>4, <3>1, <3>2
      DEF PresentedInv, TypeOK, StageInv, NewToken, Lifetime
    <3>11. PickedInv'
      BY <2>1, <2>4, <3>1, <3>2
      DEF PickedInv, TypeOK, StageInv, IssuedInv, RowInv, NewToken, Lifetime
    <3>12. RegisteredInv'
      BY <2>1, <2>4, <3>1, <3>2
      DEF RegisteredInv, TypeOK, NewToken, Lifetime
    <3>13. LateInv'
      BY <2>1, <2>4, <3>1, <3>2
      DEF LateInv, TypeOK, StageInv, Dead, Spent, Lifetime, Token, NewToken
    <3> QED
      BY <3>3, <3>4, <3>5, <3>6, <3>7, <3>8, <3>9, <3>10, <3>11, <3>12, <3>13
  <2>5. CASE pc' = [pc EXCEPT ![r] = "store"]
    <3>1. call[r].op = "forgot"
      BY <1>3, <2>5 DEF Lookup, NewToken, UsersAt, TypeOK, StageInv, UserInv,
                        IssuedInv, PickedInv
    <3>2. \E u \in Requests : /\ Exists(u)
                                   /\ users[u].email = call[r].email
                                   /\ issued' = [issued EXCEPT ![r] = NewToken(u, "reset")]
      BY <1>3, <2>5 DEF Lookup, NewToken, UsersAt, TypeOK, StageInv, UserInv,
                        IssuedInv, PickedInv
    <3>3. UNCHANGED <<now, users, tokens, mailed, call, picked, late>>
      BY <1>3, <2>5 DEF Lookup, NewToken, UsersAt, TypeOK, StageInv, UserInv,
                        IssuedInv, PickedInv
    <3>4. TypeOK'
      BY <2>1, <2>5, <3>1, <3>2, <3>3
      DEF TypeOK, StageInv, IssuedInv, PickedInv, Letter, Working, Finished,
          Token, User, Row, Call, NewToken, Lifetime
    <3>5. StageInv'
      BY <2>1, <2>5, <3>1, <3>2, <3>3
      DEF StageInv, TypeOK, NewToken, Lifetime
    <3>6. UserInv'
      BY <2>1, <2>5, <3>1, <3>2, <3>3
      DEF UserInv, TypeOK, StageInv, NewToken, Lifetime
    <3>7. UniqueInv'
      BY <2>1, <2>5, <3>1, <3>2, <3>3
      DEF UniqueInv, NewToken, Lifetime
    <3>8. IssuedInv'
      BY <2>1, <2>5, <3>1, <3>2, <3>3
      DEF IssuedInv, TypeOK, StageInv, UserInv, Token, Lifetime, NewToken
    <3>9. RowInv'
      BY <2>1, <2>5, <3>1, <3>2, <3>3
      DEF RowInv, TypeOK, StageInv, UserInv, IssuedInv, PickedInv, NewToken,
          Lifetime
    <3>10. MailInv'
      BY <2>1, <2>5, <3>1, <3>2, <3>3
      DEF MailInv, TypeOK, UserInv, IssuedInv, Letter, NewToken, Lifetime
    <3>11. PresentedInv'
      BY <2>1, <2>5, <3>1, <3>2, <3>3
      DEF PresentedInv, TypeOK, StageInv, NewToken, Lifetime
    <3>12. PickedInv'
      BY <2>1, <2>5, <3>1, <3>2, <3>3
      DEF PickedInv, TypeOK, StageInv, IssuedInv, RowInv, NewToken, Lifetime
    <3>13. RegisteredInv'
      BY <2>1, <2>5, <3>1, <3>2, <3>3
      DEF RegisteredInv, TypeOK, NewToken, Lifetime
    <3>14. LateInv'
      BY <2>1, <2>5, <3>1, <3>2, <3>3
      DEF LateInv, TypeOK, StageInv, Dead, Spent, Lifetime, Token, NewToken
    <3> QED
      BY <3>4, <3>5, <3>6, <3>7, <3>8, <3>9, <3>10, <3>11, <3>12, <3>13, <3>14
  <2> QED
    BY <1>3, <2>2, <2>3, <2>4, <2>5 DEF Lookup, UsersAt
<1>4. ASSUME NEW r \in Requests,
             InsertUser(r)
      PROVE  IInv'
  <2>1. pc[r] = "insert"
    BY <1>4 DEF InsertUser
  <2>2. CASE pc' = [pc EXCEPT ![r] = "failed"]
    <3>1. UNCHANGED <<now, users, tokens, mailed, call, issued, picked, late>>
      BY <1>4, <2>2 DEF InsertUser, Taken, UsersAt, TypeOK
    <3> QED
      BY <2>1, <2>2, <3>1, FailedStep DEF Working
  <2>3. CASE pc' = [pc EXCEPT ![r] = "issue"]
    <3>1. users[r] = None
      BY <1>4, <2>3 DEF InsertUser, Taken, UsersAt, TypeOK, StageInv, UserInv,
                        IssuedInv, PickedInv
    <3>2. \A u \in Requests : Exists(u) => users[u].email # call[r].email
      BY <1>4, <2>3 DEF InsertUser, Taken, UsersAt, TypeOK, StageInv, UserInv,
                        IssuedInv, PickedInv
    <3>3. users' = [users EXCEPT ![r] =
                [email |-> call[r].email, password |-> r, is_verified |-> FALSE]]
      BY <1>4, <2>3 DEF InsertUser, Taken, UsersAt, TypeOK, StageInv, UserInv,
                        IssuedInv, PickedInv
    <3>4. users'[r] \in User
      BY <2>1, <3>3 DEF TypeOK, StageInv, User, Call
    <3>5. UNCHANGED <<now, tokens, mailed, call, issued, picked, late>>
      BY <1>4, <2>3 DEF InsertUser, Taken, UsersAt, TypeOK, StageInv, UserInv,
                        IssuedInv, PickedInv
    <3>6. TypeOK'
      BY <2>1, <2>3, <3>1, <3>2, <3>3, <3>4, <3>5
      DEF TypeOK, StageInv, IssuedInv, PickedInv, Letter, Working, Finished,
          Token, User, Row, Call
    <3>7. StageInv'
      BY <2>1, <2>3, <3>1, <3>2, <3>3, <3>4, <3>5
      DEF StageInv, TypeOK
    <3>8. UserInv'
      BY <2>1, <2>3, <3>1, <3>2, <3>3, <3>4, <3>5
      DEF UserInv, TypeOK, StageInv
    <3>9. UniqueInv'
      BY <2>1, <2>3, <3>1, <3>2, <3>3, <3>4, <3>5
      DEF UniqueInv, TypeOK
    <3>10. IssuedInv'
      BY <2>1, <2>3, <3>1, <3>2, <3>3, <3>4, <3>5
      DEF IssuedInv, TypeOK, StageInv, UserInv
    <3>11. RowInv'
      BY <2>1, <2>3, <3>1, <3>2, <3>3, <3>4, <3>5
      DEF RowInv, TypeOK, StageInv, UserInv, IssuedInv, PickedInv
    <3>12. MailInv'
      BY <2>1, <2>3, <3>1, <3>2, <3>3, <3>4, <3>5
      DEF MailInv, TypeOK, UserInv, IssuedInv, Letter
    <3>13. PresentedInv'
      BY <2>1, <2>3, <3>1, <3>2, <3>3, <3>4, <3>5
      DEF PresentedInv, TypeOK, StageInv
    <3>14. PickedInv'
      BY <2>1, <2>3, <3>1, <3>2, <3>3, <3>4, <3>5
      DEF PickedInv, TypeOK, StageInv, IssuedInv, RowInv, PresentedInv,
          MailInv
    <3>15. RegisteredInv'
      BY <2>1, <2>3, <3>1, <3>2, <3>3, <3>4, <3>5
      DEF RegisteredInv, TypeOK, StageInv
    <3>16. LateInv'
      BY <2>1, <2>3, <3>1, <3>2, <3>3, <3>4, <3>5
      DEF LateInv, TypeOK, StageInv, Dead, Spent, Lifetime
    <3> QED
      BY <3>6, <3>7, <3>8, <3>9, <3>10, <3>11, <3>12, <3>13, <3>14, <3>15, <3>16
  <2> QED
    BY <1>4, <2>2, <2>3 DEF InsertUser, Taken, UsersAt
<1>5. ASSUME NEW r \in Requests,
             IssueVerification(r)
      PROVE  IInv'
  <2>1. pc[r] = "issue"
    BY <1>5 DEF IssueVerification
  <2>2. CASE pc' = [pc EXCEPT ![r] = "failed"]
    <3>1. UNCHANGED <<now, users, tokens, mailed, call, issued, picked, late>>
      BY <1>5, <2>2 DEF IssueVerification, NewToken, TypeOK
    <3> QED
      BY <2>1, <2>2, <3>1, FailedStep DEF Working
  <2>3. CASE pc' = [pc EXCEPT ![r] = "store"]
    <3>1. Exists(r)
      BY <1>5, <2>3 DEF IssueVerification, NewToken, TypeOK, StageInv,
                        UserInv, IssuedInv, PickedInv
    <3>2. issued' = [issued EXCEPT ![r] = NewToken(r, "verify")]
      BY <1>5, <2>3 DEF IssueVerification, NewToken, TypeOK, StageInv,
                        UserInv, IssuedInv, PickedInv
    <3>3. UNCHANGED <<now, users, tokens, mailed, call, picked, late>>
      BY <1>5, <2>3 DEF IssueVerification, NewToken, TypeOK, StageInv,
                        UserInv, IssuedInv, PickedInv
    <3>4. TypeOK'
      BY <2>1, <2>3, <3>1, <3>2, <3>3
      DEF TypeOK, StageInv, IssuedInv, PickedInv, Letter, Working, Finished,
          Token, User, Row, Call, NewToken, Lifetime
    <3>5. StageInv'
      BY <2>1, <2>3, <3>1, <3>2, <3>3
      DEF StageInv, TypeOK, NewToken, Lifetime
    <3>6. UserInv'
      BY <2>1, <2>3, <3>1, <3>2, <3>3
      DEF UserInv, TypeOK, StageInv, NewToken, Lifetime
    <3>7. UniqueInv'
      BY <2>1, <2>3, <3>1, <3>2, <3>3
      DEF UniqueInv, NewToken, Lifetime
    <3>8. IssuedInv'
      BY <2>1, <2>3, <3>1, <3>2, <3>3
      DEF IssuedInv, TypeOK, StageInv, UserInv, Token, Lifetime, NewToken
    <3>9. RowInv'
      BY <2>1, <2>3, <3>1, <3>2, <3>3
      DEF RowInv, TypeOK, StageInv, UserInv, IssuedInv, PickedInv, NewToken,
          Lifetime
    <3>10. MailInv'
      BY <2>1, <2>3, <3>1, <3>2, <3>3
      DEF MailInv, TypeOK, UserInv, IssuedInv, Letter, NewToken, Lifetime
    <3>11. PresentedInv'
      BY <2>1, <2>3, <3>1, <3>2, <3>3
      DEF PresentedInv, TypeOK, StageInv, NewToken, Lifetime
    <3>12. PickedInv'
      BY <2>1, <2>3, <3>1, <3>2, <3>3
      DEF PickedInv, TypeOK, StageInv, IssuedInv, RowInv, NewToken, Lifetime
    <3>13. RegisteredInv'
      BY <2>1, <2>3, <3>1, <3>2, <3>3
      DEF RegisteredInv, TypeOK, NewToken, Lifetime
    <3>14. LateInv'
      BY <2>1, <2>3, <3>1, <3>2, <3>3
      DEF LateInv, TypeOK, StageInv, Dead, Spent, Lifetime, Token, NewToken
    <3> QED
      BY <3>4, <3>5, <3>6, <3>7, <3>8, <3>9, <3>10, <3>11, <3>12, <3>13, <3>14
  <2> QED
    BY <1>5, <2>2, <2>3 DEF IssueVerification
<1>6. ASSUME NEW r \in Requests,
             StoreToken(r)
      PROVE  IInv'
  <2>1. pc[r] = "store"
    BY <1>6 DEF StoreToken
  <2>2. CASE pc' = [pc EXCEPT ![r] = "failed"]
    <3>1. UNCHANGED <<now, users, tokens, mailed, call, issued, picked, late>>
      BY <1>6, <2>2 DEF StoreToken, Stored, TypeOK
    <3> QED
      BY <2>1, <2>2, <3>1, FailedStep DEF Working
  <2>3. CASE pc' = [pc EXCEPT ![r] = "mail"]
    <3>1. Exists(issued[r].sub)
      BY <1>6, <2>3 DEF StoreToken, Stored, TypeOK, StageInv, UserInv,
                        IssuedInv, PickedInv
    <3>2. tokens' = [tokens EXCEPT ![r] = [token |-> issued[r], used |-> FALSE]]
      BY <1>6, <2>3 DEF StoreToken, Stored, TypeOK, StageInv, UserInv,
                        IssuedInv, PickedInv
    <3>3. tokens'[r] \in Row
      BY <2>1, <3>2 DEF TypeOK, IssuedInv, Row
    <3>4. UNCHANGED <<now, users, mailed, call, issued, picked, late>>
      BY <1>6, <2>3 DEF StoreToken, Stored, TypeOK, StageInv, UserInv,
                        IssuedInv, PickedInv
    <3>5. TypeOK'
      BY <2>1, <2>3, <3>1, <3>2, <3>3, <3>4
      DEF TypeOK, StageInv, IssuedInv, PickedInv, Letter, Working, Finished,
          Token, User, Row, Call
    <3>6. StageInv'
      BY <2>1, <2>3, <3>1, <3>2, <3>3, <3>4
      DEF StageInv, TypeOK
    <3>7. UserInv'
      BY <2>1, <2>3, <3>1, <3>2, <3>3, <3>4
      DEF UserInv, TypeOK, StageInv
    <3>8. UniqueInv'
      BY <2>1, <2>3, <3>1, <3>2, <3>3, <3>4
      DEF UniqueInv
    <3>9. IssuedInv'
      BY <2>1, <2>3, <3>1, <3>2, <3>3, <3>4
      DEF IssuedInv, TypeOK, StageInv, UserInv
    <3>10. RowInv'
      BY <2>1, <2>3, <3>1, <3>2, <3>3, <3>4
      DEF RowInv, TypeOK, StageInv, UserInv, IssuedInv, PickedInv
    <3>11. MailInv'
      BY <2>1, <2>3, <3>1, <3>2, <3>3, <3>4
      DEF MailInv, TypeOK, UserInv, IssuedInv, Letter
    <3>12. PresentedInv'
      BY <2>1, <2>3, <3>1, <3>2, <3>3, <3>4
      DEF PresentedInv, TypeOK, StageInv
    <3>13. PickedInv'
      BY <2>1, <2>3, <3>1, <3>2, <3>3, <3>4
      DEF PickedInv, TypeOK, StageInv, IssuedInv, RowInv
    <3>14. RegisteredInv'
      <4>1. \A q \in Requests \ {r} : pc'[q] = pc[q] /\ tokens'[q] = tokens[q]
        BY <2>3, <3>2 DEF TypeOK
      <4>2. pc'[r] = "mail" /\ tokens'[r].token = issued[r]
        BY <2>3, <3>2 DEF TypeOK
      <4>3. tokens'[r] # None
        BY <3>3
      <4> QED
        BY <2>1, <3>4, <4>1, <4>2, <4>3 DEF RegisteredInv, IssuedInv
    <3>15. LateInv'
      BY <2>1, <2>3, <3>1, <3>2, <3>3, <3>4
      DEF LateInv, TypeOK, StageInv, Dead, Spent, Lifetime
    <3> QED
      BY <3>5, <3>6, <3>7, <3>8, <3>9, <3>10, <3>11, <3>12, <3>13, <3>14, <3>15
  <2> QED
    BY <1>6, <2>2, <2>3 DEF StoreToken
<1>7. ASSUME NEW r \in Requests,
             SendEmail(r)
      PROVE  IInv'
  <2>1. TypeOK'
    BY <1>7 DEF SendEmail, TypeOK, StageInv, IssuedInv, PickedInv, Letter,
                Working, Finished, Token, User, Row, Call
  <2>2. StageInv'
    BY <1>7 DEF SendEmail, StageInv, TypeOK
  <2>3. UserInv'
    BY <1>7 DEF SendEmail, UserInv, TypeOK, StageInv
  <2>4. UniqueInv'
    BY <1>7 DEF SendEmail, UniqueInv
  <2>5. IssuedInv'
    BY <1>7 DEF SendEmail, IssuedInv, TypeOK, StageInv, UserInv
  <2>6. RowInv'
    BY <1>7 DEF SendEmail, RowInv, TypeOK, StageInv, UserInv, IssuedInv,
                PickedInv
  <2>7. MailInv'
    BY <1>7 DEF SendEmail, MailInv, TypeOK, UserInv, IssuedInv, Letter
  <2>8. PresentedInv'
    BY <1>7 DEF SendEmail, PresentedInv, TypeOK, StageInv
  <2>9. PickedInv'
    BY <1>7 DEF SendEmail, PickedInv, TypeOK, StageInv, IssuedInv, RowInv
  <2>10. RegisteredInv'
    BY <1>7 DEF SendEmail, RegisteredInv, TypeOK, IssuedInv, StageInv, UserInv
  <2>11. LateInv'
    BY <1>7 DEF SendEmail, LateInv, TypeOK, StageInv, Dead, Spent, Lifetime
  <2> QED
    BY <2>1, <2>2, <2>3, <2>4, <2>5, <2>6, <2>7, <2>8, <2>9, <2>10, <2>11
<1>8. ASSUME NEW r \in Requests,
             DecodeToken(r)
      PROVE  IInv'
  <2>1. TypeOK'
    BY <1>8 DEF DecodeToken, TypeOK, StageInv, IssuedInv, PickedInv, Letter,
                Working, Finished, Token, User, Row, Call
  <2>2. StageInv'
    BY <1>8 DEF DecodeToken, StageInv, TypeOK
  <2>3. UserInv'
    BY <1>8 DEF DecodeToken, UserInv, TypeOK, StageInv
  <2>4. UniqueInv'
    BY <1>8 DEF DecodeToken, UniqueInv
  <2>5. IssuedInv'
    BY <1>8 DEF DecodeToken, IssuedInv, TypeOK, StageInv, UserInv
  <2>6. RowInv'
    BY <1>8 DEF DecodeToken, RowInv, TypeOK, StageInv, UserInv, IssuedInv,
                PickedInv
  <2>7. MailInv'
    BY <1>8 DEF DecodeToken, MailInv, TypeOK, UserInv, IssuedInv, Letter
  <2>8. PresentedInv'
    BY <1>8 DEF DecodeToken, PresentedInv, TypeOK, StageInv
  <2>9. PickedInv'
    BY <1>8 DEF DecodeToken, PickedInv, TypeOK, StageInv, IssuedInv, RowInv
  <2>10. RegisteredInv'
    BY <1>8 DEF DecodeToken, RegisteredInv, TypeOK
  <2>11. LateInv'
    BY <1>8 DEF DecodeToken, LateInv, TypeOK, StageInv, Dead, Spent, Lifetime,
                Token, Call
  <2> QED
    BY <2>1, <2>2, <2>3, <2>4, <2>5, <2>6, <2>7, <2>8, <2>9, <2>10, <2>11
<1>9. ASSUME NEW r \in Requests,
             SelectToken(r)
      PROVE  IInv'
  <2>1. TypeOK'
    BY <1>9 DEF SelectToken, Matching, TypeOK, StageInv, IssuedInv, PickedInv,
                Letter, Working, Finished, Token, User, Row, Call
  <2>2. StageInv'
    BY <1>9 DEF SelectToken, Matching, StageInv, TypeOK
  <2>3. UserInv'
    BY <1>9 DEF SelectToken, Matching, UserInv, TypeOK, StageInv
  <2>4. UniqueInv'
    BY <1>9 DEF SelectToken, Matching, UniqueInv
  <2>5. IssuedInv'
    BY <1>9 DEF SelectToken, Matching, IssuedInv, TypeOK, StageInv, UserInv
  <2>6. RowInv'
    BY <1>9 DEF SelectToken, Matching, RowInv, TypeOK, StageInv, UserInv,
                IssuedInv, PickedInv
  <2>7. MailInv'
    BY <1>9 DEF SelectToken, Matching, MailInv, TypeOK, UserInv, IssuedInv,
                Letter
  <2>8. PresentedInv'
    BY <1>9 DEF SelectToken, Matching, PresentedInv, TypeOK, StageInv
  <2>9. PickedInv'
    BY <1>9 DEF SelectToken, Matching, PickedInv, TypeOK, StageInv, IssuedInv,
                RowInv
  <2>10. RegisteredInv'
    BY <1>9 DEF SelectToken, Matching, RegisteredInv, TypeOK
  <2>11. LateInv'
    BY <1>9 DEF SelectToken, Matching, LateInv, TypeOK, StageInv, Dead, Spent,
                Lifetime
  <2> QED
    BY <2>1, <2>2, <2>3, <2>4, <2>5, <2>6, <2>7, <2>8, <2>9, <2>10, <2>11
<1>10. ASSUME NEW r \in Requests,
             SelectUser(r)
      PROVE  IInv'
  <2>1. TypeOK'
    BY <1>10 DEF SelectUser, TypeOK, StageInv, IssuedInv, PickedInv, Letter,
                 Working, Finished, Token, User, Row, Call
  <2>2. StageInv'
    BY <1>10 DEF SelectUser, StageInv, TypeOK
  <2>3. UserInv'
    BY <1>10 DEF SelectUser, UserInv, TypeOK, StageInv
  <2>4. UniqueInv'
    BY <1>10 DEF SelectUser, UniqueInv
  <2>5. IssuedInv'
    BY <1>10 DEF SelectUser, IssuedInv, TypeOK, StageInv, UserInv
  <2>6. RowInv'
    BY <1>10 DEF SelectUser, RowInv, TypeOK, StageInv, UserInv, IssuedInv,
                 PickedInv
  <2>7. MailInv'
    BY <1>10 DEF SelectUser, MailInv, TypeOK, UserInv, IssuedInv, Letter
  <2>8. PresentedInv'
    BY <1>10 DEF SelectUser, PresentedInv, TypeOK, StageInv
  <2>9. PickedInv'
    BY <1>10 DEF SelectUser, PickedInv, TypeOK, StageInv, IssuedInv, RowInv
  <2>10. RegisteredInv'
    BY <1>10 DEF SelectUser, RegisteredInv, TypeOK
  <2>11. LateInv'
    BY <1>10 DEF SelectUser, LateInv, TypeOK, StageInv, Dead, Spent, Lifetime
  <2> QED
    BY <2>1, <2>2, <2>3, <2>4, <2>5, <2>6, <2>7, <2>8, <2>9, <2>10, <2>11
<1>11. ASSUME NEW r \in Requests,
             CommitToken(r)
      PROVE  IInv'
  <2>1. pc[r] = "commit"
    BY <1>11 DEF CommitToken
  <2>2. CASE pc' = [pc EXCEPT ![r] = "failed"]
    <3>1. UNCHANGED <<now, users, tokens, mailed, call, issued, picked, late>>
      BY <1>11, <2>2 DEF CommitToken, TypeOK
    <3> QED
      BY <2>1, <2>2, <3>1, FailedStep DEF Working
  <2>3. CASE pc' = [pc EXCEPT ![r] = "done"]
    <3>1. PICK row \in User, entry \in Row :
             /\ call[r].op \in Kinds
             /\ call[r].op = call[r].token.kind
             /\ Exists(call[r].token.sub) /\ call[r].token.sub \in Requests
             /\ picked[r] \in Requests /\ tokens[picked[r]] # None
             /\ tokens[picked[r]].token = call[r].token
             /\ row.email = users[call[r].token.sub].email
             /\ IF call[r].op = "verify"
                THEN row.is_verified /\ row.password = users[call[r].token.sub].password
                ELSE /\ row.is_verified = users[call[r].token.sub].is_verified
                     /\ row.password = r
             /\ users' = [users EXCEPT ![call[r].token.sub] = row]
             /\ entry.token = call[r].token /\ entry.used
             /\ tokens' = [tokens EXCEPT ![picked[r]] = entry]
             /\ UNCHANGED <<now, mailed, call, issued, picked, late>>
      BY <1>11, <2>3, CommitEffect
    <3>2. TypeOK'
      BY <2>1, <2>3, <3>1
      DEF TypeOK, StageInv, IssuedInv, PickedInv, Letter, Working, Finished,
          Token, User, Row, Call
    <3>3. StageInv'
      BY <2>1, <2>3, <3>1
      DEF StageInv, TypeOK
    <3>4. UserInv'
      BY <2>1, <2>3, <3>1
      DEF UserInv, TypeOK, StageInv
    <3>5. UniqueInv'
      BY <2>1, <2>3, <3>1
      DEF UniqueInv, TypeOK
    <3>6. IssuedInv'
      BY <2>1, <2>3, <3>1
      DEF IssuedInv, TypeOK, StageInv, UserInv
    <3>7. RowInv'
      BY <2>1, <2>3, <3>1
      DEF RowInv, TypeOK, StageInv, UserInv, IssuedInv, PickedInv
    <3>8. MailInv'
      BY <2>1, <2>3, <3>1
      DEF MailInv, TypeOK, UserInv, IssuedInv, Letter
    <3>9. PresentedInv'
      BY <2>1, <2>3, <3>1
      DEF PresentedInv, TypeOK, StageInv
    <3>10. PickedInv'
      <4>1. \A k \in Requests :
                /\ tokens'[k] = None <=> tokens[k] = None
                /\ tokens[k] # None => tokens'[k].token = tokens[k].token
        BY <3>1 DEF TypeOK
      <4>2. \A u \in Requests : Exists(u)' => Exists(u)
        BY <3>1 DEF TypeOK
      <4>3. \A q \in Requests : pc'[q] \in {"user", "commit"} => pc'[q] = pc[q]
        BY <2>3 DEF TypeOK
      <4>4. \A q \in Requests : pc[q] \in {"user", "commit"} => call[q].token.sub \in Requests
        BY DEF StageInv, Call, Token
      <4>5. ASSUME NEW q \in Requests, pc'[q] \in {"user", "commit"}
            PROVE  /\ picked'[q] \in Requests
                   /\ Exists(call[q].token.sub)' =>
                         /\ tokens'[picked'[q]] # None
                         /\ tokens'[picked'[q]].token = call'[q].token
        <5>1. /\ pc[q] \in {"user", "commit"} /\ call[q] = call'[q] /\ picked[q] = picked'[q]
              /\ call[q].token.sub \in Requests
          BY <3>1, <4>3, <4>4, <4>5
        <5>2. picked[q] \in Requests
          BY <5>1 DEF PickedInv
        <5>3. ASSUME Exists(call[q].token.sub)'
              PROVE  /\ tokens[picked[q]] # None
                     /\ tokens[picked[q]].token = call[q].token
          BY <3>1, <4>2, <5>1, <5>3 DEF PickedInv
        <5> QED
          BY <3>1, <4>1, <5>1, <5>2, <5>3
      <4> QED
        BY <4>5 DEF PickedInv
    <3>11. RegisteredInv'
      <4>1. \A k \in Requests :
                /\ tokens'[k] = None <=> tokens[k] = None
                /\ tokens[k] # None => tokens'[k].token = tokens[k].token
        BY <3>1 DEF TypeOK
      <4>2. \A u \in Requests : Exists(u)' => Exists(u) /\ users'[u].email = users[u].email
        BY <3>1 DEF TypeOK
      <4>3. \A q \in Requests : call[q].op = "register" => pc'[q] = pc[q]
        BY <2>3, <3>1 DEF TypeOK
      <4>4. ASSUME NEW q \in Requests, pc'[q] \in {"mail", "done"}, call'[q].op = "register",
                   Exists(q)'
            PROVE  /\ tokens'[q] # None
                   /\ tokens'[q].token.sub = q
                   /\ tokens'[q].token.kind = "verify"
                   /\ issued'[q] = tokens'[q].token
                   /\ pc'[q] = "done" =>
                          [to |-> users'[q].email, token |-> tokens'[q].token] \in mailed'
        <5>1. /\ pc[q] = pc'[q] /\ call[q] = call'[q] /\ issued[q] = issued'[q]
              /\ Exists(q) /\ users'[q].email = users[q].email /\ mailed' = mailed
          BY <3>1, <4>2, <4>3, <4>4
        <5>2. tokens[q] # None
          BY <4>4, <5>1 DEF RegisteredInv
        <5>3. tokens'[q] # None /\ tokens'[q].token = tokens[q].token
          BY <4>1, <5>2
        <5> QED
          BY <4>4, <5>1, <5>3 DEF RegisteredInv
      <4> QED
        BY <4>4 DEF RegisteredInv
    <3>12. LateInv'
      BY <2>1, <2>3, <3>1
      DEF LateInv, TypeOK, StageInv, Dead, Spent, Lifetime
    <3> QED
      BY <3>2, <3>3, <3>4, <3>5, <3>6, <3>7, <3>8, <3>9, <3>10, <3>11, <3>12
  <2> QED
    BY <1>11, <2>2, <2>3 DEF CommitToken
<1>12. ASSUME NEW r \in Requests,
             DeleteUser(r)
      PROVE  IInv'
  <2>1. TypeOK'
    BY <1>12 DEF DeleteUser, TypeOK, StageInv, IssuedInv, PickedInv, Letter,
                 Working, Finished, Token, User, Row, Call
  <2>2. StageInv'
    BY <1>12 DEF DeleteUser, StageInv, TypeOK
  <2>3. UserInv'
    BY <1>12 DEF DeleteUser, UserInv, TypeOK, StageInv
  <2>4. UniqueInv'
    BY <1>12 DEF DeleteUser, UniqueInv, TypeOK
  <2>5. IssuedInv'
    BY <1>12 DEF DeleteUser, IssuedInv, TypeOK, StageInv, UserInv
  <2>6. RowInv'
    BY <1>12 DEF DeleteUser, RowInv, TypeOK, StageInv, UserInv, IssuedInv,
                 PickedInv
  <2>7. MailInv'
    BY <1>12 DEF DeleteUser, MailInv, TypeOK, UserInv, IssuedInv, Letter
  <2>8. PresentedInv'
    BY <1>12 DEF DeleteUser, PresentedInv, TypeOK, StageInv
  <2>9. PickedInv'
    BY <1>12 DEF DeleteUser, PickedInv, TypeOK, StageInv, IssuedInv, RowInv
  <2>10. RegisteredInv'
    BY <1>12 DEF DeleteUser, RegisteredInv, TypeOK, UserInv
  <2>11. LateInv'
    BY <1>12 DEF DeleteUser, LateInv, TypeOK, StageInv, Dead, Spent, Lifetime
  <2> QED
    BY <2>1, <2>2, <2>3, <2>4, <2>5, <2>6, <2>7, <2>8, <2>9, <2>10, <2>11
<1>13. CASE Tick
  <2>1. TypeOK'
    BY <1>13 DEF Tick, TypeOK, StageInv, IssuedInv, PickedInv, Letter,
                 Working, Finished, Token, User, Row, Call
  <2>2. StageInv'
    BY <1>13 DEF Tick, StageInv, TypeOK
  <2>3. UserInv'
    BY <1>13 DEF Tick, UserInv, TypeOK, StageInv
  <2>4. UniqueInv'
    BY <1>13 DEF Tick, UniqueInv
  <2>5. IssuedInv'
    BY <1>13 DEF Tick, IssuedInv, TypeOK, StageInv, UserInv
  <2>6. RowInv'
    BY <1>13 DEF Tick, RowInv, TypeOK, StageInv, UserInv, IssuedInv, PickedInv
  <2>7. MailInv'
    BY <1>13 DEF Tick, MailInv, TypeOK, UserInv, IssuedInv, Letter
  <2>8. PresentedInv'
    BY <1>13 DEF Tick, PresentedInv, TypeOK, StageInv
  <2>9. PickedInv'
    BY <1>13 DEF Tick, PickedInv, TypeOK, StageInv, IssuedInv, RowInv
  <2>10. RegisteredInv'
    BY <1>13 DEF Tick, RegisteredInv, TypeOK
  <2>11. LateInv'
    BY <1>13 DEF Tick, LateInv, TypeOK, StageInv, Dead, Spent, Lifetime,
                 Token, Call
  <2> QED
    BY <2>1, <2>2, <2>3, <2>4, <2>5, <2>6, <2>7, <2>8, <2>9, <2>10, <2>11
<1>14. CASE UNCHANGED vars
  BY <1>14 DEF vars, TypeOK, StageInv, UserInv, UniqueInv, IssuedInv, RowInv, MailInv,
              PresentedInv, PickedInv,
              RegisteredInv, LateInv, Dead, Spent, Lifetime
<1>15. ASSUME NEW r \in Requests, Fail(r)
      PROVE  IInv'
  BY <1>15, FailedStep DEF Fail
<1> QED
  BY <1>1, <1>2, <1>3, <1>4, <1>5, <1>6, <1>7, <1>8, <1>9, <1>10, <1>11, <1>12, <1>13, <1>14, <1>15 DEF Next, Serve, Quiescent

-----------------------------------------------------------------------------
LEMMA InitIInv == Init => IInv
<1> SUFFICES ASSUME Init PROVE IInv
  OBVIOUS
<1> QED
  BY LifetimeAssumption DEF Init, IInv, TypeOK, StageInv, UserInv, UniqueInv, IssuedInv,
     RowInv, MailInv, PresentedInv, PickedInv, RegisteredInv, LateInv, Exists

LEMMA AlwaysIInv == Spec => []IInv
  BY InitIInv, InductiveStep, PTL DEF Spec

\* The tables of accounts and tokens, the letters and the stages of any number of
\* register, verify, forgot and reset requests are well formed.
THEOREM TypeCorrect == Spec => []TypeOK
  BY AlwaysIInv, PTL DEF IInv

\* The account of an answered registration is verified or can be, with the letter
\* it was sent, up to the second in which the token expires, whatever fails or
\* runs beside it.
THEOREM AnsweredCanVerifyInTime == Spec => []VerifiableInTime
<1>1. IInv => VerifiableInTime
  <2> SUFFICES ASSUME IInv, NEW r \in Requests, pc[r] = "done",
                      call[r].op = "register", Exists(r), ~ users[r].is_verified,
                      ~ issued[r].exp <= now
               PROVE  /\ [to |-> users[r].email, token |-> issued[r]] \in mailed
                      /\ Accepts(issued[r])
    BY DEF VerifiableInTime
  <2>1. /\ tokens[r] # None
        /\ issued[r] = tokens[r].token
        /\ issued[r].sub = r
        /\ issued[r].kind = "verify"
        /\ [to |-> users[r].email, token |-> issued[r]] \in mailed
    BY DEF IInv, RegisteredInv
  <2>2. ~ tokens[r].used
    BY <2>1 DEF IInv, RowInv
  <2>3. r \in Matching(issued[r])
    BY <2>1, <2>2 DEF Matching
  <2>4. issued[r].exp > now
    BY <2>1 DEF IInv, TypeOK, Row, Token
  <2> QED
    BY <2>1, <2>3, <2>4 DEF Accepts
<1> QED
  BY <1>1, AlwaysIInv, PTL

\* A token that is spent or expired for good when a request arrives with it gets
\* that request nowhere.
THEOREM DeadTokensAreRefused == Spec => []DeadTokenIsRefused
<1>1. IInv => DeadTokenIsRefused
  BY DEF IInv, LateInv, DeadTokenIsRefused
<1> QED
  BY <1>1, AlwaysIInv, PTL

-----------------------------------------------------------------------------
\* A step that changes no user, sends no letter and lets no verification of u past
\* decode_token leaves u stranded.
LEMMA NothingKeepsStranded ==
    ASSUME IInv, NEW u \in Requests, Stranded(u), NEW r \in Requests,
           users'[u] = users[u], mailed' = mailed, now' = now,
           pc[r] \notin Finished,
           \A q \in Requests \ {r} : pc'[q] = pc[q] /\ call'[q] = call[q],
           pc'[r] \in {"select", "user", "commit"} =>
               call'[r] = call[r] /\ pc[r] \in {"decode", "select", "user"},
           pc[r] = "decode" /\ pc'[r] # "failed" =>
               call[r].token.exp > now /\ call[r].token.kind = call[r].op
    PROVE  Stranded(u)'
<1>1. r # u
  BY DEF Stranded
<1>2. ~ (pc'[r] \in {"select", "user", "commit"} /\ call'[r].op = "verify" /\ call'[r].token.sub = u)
  <2> SUFFICES ASSUME pc'[r] \in {"select", "user", "commit"}, call'[r].op = "verify",
                      call'[r].token.sub = u
               PROVE  FALSE
    OBVIOUS
  <2>1. call[r].op = "verify" /\ call[r].token.sub = u /\ pc[r] = "decode"
    BY DEF Stranded
  <2>2. PICK l \in mailed : l.token = call[r].token
    BY <2>1 DEF IInv, PresentedInv, Kinds
  <2>3. l.token.exp \in Nat /\ now \in Nat
    BY DEF IInv, TypeOK, Letter, Token
  <2>4. l.token.exp > now /\ l.token.kind = "verify" /\ l.token.sub = u
    BY <2>1, <2>2
  <2> QED
    BY <2>3, <2>4 DEF Stranded
<1> QED
  BY <1>1, <1>2 DEF Stranded, Exists

\* The two steps that write users: neither verifies u, nor brings another row.
LEMMA WritesKeepStranded ==
    ASSUME IInv, NEW u \in Requests, Stranded(u), NEW r \in Requests,
           InsertUser(r) \/ CommitToken(r)
    PROVE  Stranded(u)'
<1> USE DEF Goto
<1>1. /\ r # u
      /\ \A q \in Requests \ {r} : pc'[q] = pc[q]
      /\ pc'[r] \in {"failed", "issue", "done"}
      /\ UNCHANGED <<now, mailed, call>>
  BY DEF Stranded, InsertUser, CommitToken, Finished, IInv, TypeOK
<1>2. users'[u] \notin {None, Gone} /\ users'[u].is_verified = users[u].is_verified
  <2>1. CASE InsertUser(r)
    BY <1>1, <2>1 DEF InsertUser, IInv, TypeOK, Stranded, Exists
  <2>2. CASE CommitToken(r) /\ pc'[r] = "done"
    <3>1. PICK row \in User :
              /\ call[r].op \in Kinds
              /\ call[r].op # "verify" =>
                     row.is_verified = users[call[r].token.sub].is_verified
              /\ users' = [users EXCEPT ![call[r].token.sub] = row]
      BY <1>1, <2>2, CommitEffect DEF CommitToken, IInv, TypeOK
    <3>2. call[r].op = "verify" => call[r].token.sub # u
      BY <2>2 DEF CommitToken, Stranded
    <3>3. CASE call[r].token.sub # u
      BY <3>1, <3>3 DEF IInv, TypeOK, Stranded, Exists
    <3>4. CASE call[r].token.sub = u
      BY <3>1, <3>2, <3>4, NoneAssumption DEF IInv, TypeOK
    <3> QED
      BY <3>3, <3>4
  <2>3. CASE CommitToken(r) /\ pc'[r] # "done"
    BY <2>3 DEF CommitToken, IInv, TypeOK, Stranded, Exists
  <2> QED
    BY <2>1, <2>2, <2>3
<1> QED
  BY <1>1, <1>2 DEF Stranded, Exists

\* The letters: the last one of a registration is out when it is answered, and
\* forgot_password sends no verification.
LEMMA LettersKeepStranded ==
    ASSUME IInv, NEW u \in Requests, Stranded(u), NEW r \in Requests, SendEmail(r)
    PROVE  Stranded(u)'
<1>1. /\ r # u
      /\ mailed' = mailed \cup {[to |-> call[r].email, token |-> issued[r]]}
      /\ pc' = [pc EXCEPT ![r] = "done"]
      /\ UNCHANGED <<now, users, call>>
  BY DEF SendEmail, Stranded, Finished, Goto
<1>2. issued[r].sub # u \/ issued[r].kind # "verify"
  BY <1>1 DEF SendEmail, IInv, StageInv, IssuedInv, Opening
<1> QED
  BY <1>1, <1>2 DEF Stranded, Exists, Finished, IInv, TypeOK

\* An address whose account its letter cannot verify any more stays so until an
\* admin deletes the account: no interleaving of verify_email, forgot_password and
\* reset_password with old letters verifies it.
THEOREM StrandedAccountsStaySo == Spec => StrandedIsFinal
<1> DEFINE Final == \A u \in Requests : Stranded(u) => Stranded(u)' \/ ~ Exists(u)'
<1>1. IInv /\ [Next]_vars => [Final]_vars
  <2> SUFFICES ASSUME IInv, [Next]_vars, NEW u \in Requests, Stranded(u), Exists(u)'
               PROVE  Stranded(u)' \/ UNCHANGED vars
    OBVIOUS
  <2>1. ASSUME NEW r \in Requests,
               \/ \E op \in Opening, e \in Emails : ArriveWithEmail(r, op, e)
               \/ \E op \in Kinds, letter \in mailed : ArriveWithToken(r, op, letter)
               \/ Lookup(r) \/ IssueVerification(r) \/ StoreToken(r)
               \/ DecodeToken(r) \/ SelectToken(r) \/ SelectUser(r) \/ Fail(r)
        PROVE  Stranded(u)'
    <3>1. pc[r] \notin Finished
      BY <2>1 DEF ArriveWithEmail, ArriveWithToken, Arrive, Lookup, IssueVerification,
         StoreToken, DecodeToken, SelectToken, SelectUser, Fail, Working, Finished
    <3>2. users'[u] = users[u] /\ mailed' = mailed /\ now' = now
      BY <2>1 DEF ArriveWithEmail, ArriveWithToken, Arrive, Lookup, IssueVerification,
         StoreToken, DecodeToken, SelectToken, SelectUser, Fail, db
    <3>3. \A q \in Requests \ {r} : pc'[q] = pc[q] /\ call'[q] = call[q]
      BY <2>1 DEF ArriveWithEmail, ArriveWithToken, Arrive, Lookup, IssueVerification,
         StoreToken, DecodeToken, SelectToken, SelectUser, Fail, Goto, IInv, TypeOK
    <3>4. pc'[r] \in {"select", "user", "commit"} =>
              call'[r] = call[r] /\ pc[r] \in {"decode", "select", "user"}
      BY <2>1 DEF ArriveWithEmail, ArriveWithToken, Arrive, Lookup, IssueVerification,
         StoreToken, DecodeToken, SelectToken, SelectUser, Fail, Goto, IInv, TypeOK
    <3>5. pc[r] = "decode" /\ pc'[r] # "failed" =>
              call[r].token.exp > now /\ call[r].token.kind = call[r].op
      BY <2>1 DEF ArriveWithEmail, ArriveWithToken, Arrive, Lookup, IssueVerification,
         StoreToken, DecodeToken, SelectToken, SelectUser, Fail, Goto, IInv, TypeOK
    <3> QED
      BY <3>1, <3>2, <3>3, <3>4, <3>5, NothingKeepsStranded
  <2>2. ASSUME NEW v \in Requests, DeleteUser(v) PROVE Stranded(u)'
    <3>1. u # v
      BY <2>2 DEF DeleteUser, Exists, IInv, TypeOK
    <3> QED
      BY <2>2, <3>1 DEF DeleteUser, Stranded, Exists, IInv, TypeOK
  <2>3. CASE Tick
    <3>1. \A l \in mailed : l.token.exp \in Nat
      BY DEF IInv, TypeOK, Letter, Token
    <3> QED
      BY <2>3, <3>1 DEF Tick, Stranded, Exists, db, IInv, TypeOK
  <2> QED
    BY <2>1, <2>2, <2>3, WritesKeepStranded, LettersKeepStranded
       DEF Next, Serve, Quiescent, Opening
<1> QED
  BY <1>1, AlwaysIInv, PTL DEF Spec, StrandedIsFinal

-----------------------------------------------------------------------------
\* What Accounts knows of a user and of the owner's address.
LEMMA AccountType ==
    ASSUME IInv, NEW u \in Requests
    PROVE  /\ AccountOf(u) \in Account \cup {None}
           /\ AccountOf(u) = None <=> users[u] = None
           /\ users[u] # None => AccountOf(u).email = call[u].email
           /\ AccountOf(u) # None /\ AccountOf(u).open => Exists(u)
           /\ Exists(u) => AccountOf(u).open
<1> USE NoneAssumption
<1>1. CASE Exists(u)
  <2>1. users[u] \in User /\ users[u] # None /\ users[u].email = call[u].email
    BY <1>1 DEF IInv, TypeOK, UserInv, Exists
  <2>2. AccountOf(u) \in Account /\ AccountOf(u).open /\ AccountOf(u).email = users[u].email
    BY <1>1, <2>1 DEF AccountOf, Account, User
  <2> QED
    BY <1>1, <2>1, <2>2
<1>2. CASE users[u] = Gone
  <2>1. ~ Exists(u) /\ users[u] # None
    BY <1>2 DEF Exists
  <2>2. call[u].email \in Emails
    BY <2>1 DEF IInv, UserInv, StageInv, Call, TypeOK, Kinds
  <2>3. AccountOf(u) \in Account /\ ~ AccountOf(u).open /\ AccountOf(u).email = call[u].email
    BY <1>2, <2>1, <2>2 DEF AccountOf, Account
  <2> QED
    BY <2>1, <2>3
<1>3. CASE users[u] = None
  BY <1>3 DEF AccountOf, Exists
<1> QED
  BY <1>1, <1>2, <1>3 DEF Exists

\* Only these write what Accounts sees: users, letters, and the calls of users
\* that have gone.
LEMMA Unseen ==
    ASSUME IInv, UNCHANGED <<users, mailed>>,
           \A u \in Requests : users[u] # None => call'[u] = call[u]
    PROVE  UNCHANGED Promise!vars
<1>1. \A u \in Requests : AccountOf(u)' = AccountOf(u)
  BY NoneAssumption DEF AccountOf, Exists
<1> QED
  BY <1>1 DEF Promise!vars

\* register's first commit opens the account.
LEMMA InsertOpens ==
    ASSUME IInv, NEW r \in Requests, InsertUser(r)
    PROVE  \/ UNCHANGED Promise!vars
           \/ \E e \in Emails : Promise!Open(r, e, r)
<1>1. CASE UNCHANGED users
  BY <1>1, Unseen DEF InsertUser
<1>2. CASE ~ UNCHANGED users
  <2> DEFINE row == [email |-> call[r].email, password |-> r, is_verified |-> FALSE]
  <2>1. /\ UsersAt(call[r].email) = {}
        /\ users' = [users EXCEPT ![r] = row]
        /\ UNCHANGED <<mailed, call>>
        /\ users[r] = None
        /\ call[r].email \in Emails
    BY <1>2 DEF InsertUser, Taken, IInv, TypeOK, UserInv, StageInv, Call, Kinds
  <2>2. row \in User
    BY <2>1 DEF User
  <2>3. row \notin {None, Gone}
    BY <2>2, NoneAssumption
  <2>4. users'[r] = row /\ \A u \in Requests \ {r} : users'[u] = users[u]
    BY <2>1 DEF IInv, TypeOK
  <2>5. AccountOf(r) = None
    BY <2>1, AccountType
  <2>6. AccountOf(r)' = [email |-> call[r].email, password |-> r,
                         verified |-> FALSE, open |-> TRUE]
    BY <2>3, <2>4 DEF AccountOf, Exists
  <2>7. \A u \in Requests \ {r} : AccountOf(u)' = AccountOf(u)
    BY <2>1, <2>4, NoneAssumption DEF AccountOf, Exists
  <2>8. \A u \in Requests :
            AccountOf(u) # None /\ AccountOf(u).open => AccountOf(u).email # call[r].email
    <3> SUFFICES ASSUME NEW u \in Requests, AccountOf(u) # None, AccountOf(u).open
                 PROVE  AccountOf(u).email # call[r].email
      OBVIOUS
    <3>1. Exists(u)
      BY AccountType
    <3> QED
      BY <2>1, <3>1 DEF AccountOf, UsersAt
  <2>9. Promise!Open(r, call[r].email, r)
    BY <2>1, <2>5, <2>6, <2>7, <2>8 DEF Promise!Open, Promise!Opened, Promise!IsOpen
  <2> QED
    BY <2>1, <2>9
<1> QED
  BY <1>1, <1>2

\* send_email writes to the address of the account the token is for.
LEMMA SendWrites ==
    ASSUME IInv, NEW r \in Requests, SendEmail(r)
    PROVE  Promise!Write(issued[r].sub, issued[r].kind)
<1> DEFINE u == issued[r].sub
           l == [to |-> call[r].email, token |-> issued[r]]
<1>1. /\ issued[r] \in Token
      /\ users[u] # None
      /\ call[u].email = call[r].email
  BY DEF SendEmail, IInv, IssuedInv
<1>2. u \in Requests
  BY <1>1 DEF Token
<1>3. AccountOf(u) # None /\ AccountOf(u).email = l.to
  BY <1>1, <1>2, AccountType
<1>4. \A v \in Requests : AccountOf(v)' = AccountOf(v)
  BY DEF SendEmail, AccountOf, Exists
<1>5. mailed' = mailed \cup {l}
  BY DEF SendEmail
<1>6. {<<k.to, k.token.kind, k.token.sub>> : k \in mailed'} =
      {<<k.to, k.token.kind, k.token.sub>> : k \in mailed} \cup {<<l.to, issued[r].kind, u>>}
  <2> DEFINE Seen(k) == <<k.to, k.token.kind, k.token.sub>>
  <2>1. Seen(l) = <<l.to, issued[r].kind, u>>
    OBVIOUS
  <2>2. {Seen(k) : k \in mailed'} = {Seen(k) : k \in mailed} \cup {Seen(l)}
    <3> HIDE DEF Seen, l
    <3> QED
      BY <1>5
  <2> QED
    BY <2>1, <2>2
<1> QED
  BY <1>2, <1>3, <1>4, <1>6 DEF Promise!Write

\* The commit of verify_email or reset_password acts for a reader of the letter.
LEMMA CommitActs ==
    ASSUME IInv, NEW r \in Requests, CommitToken(r)
    PROVE  \/ UNCHANGED Promise!vars
           \/ Promise!Verify(call[r].token.sub)
           \/ Promise!ChangePassword(call[r].token.sub, r)
<1>1. CASE pc' # [pc EXCEPT ![r] = "done"]
  BY <1>1, Unseen DEF CommitToken, Goto
<1>2. CASE pc' = [pc EXCEPT ![r] = "done"]
  <2>a. PICK u : u = call[r].token.sub
    OBVIOUS
  <2>1. PICK row \in User :
            /\ call[r].op \in Kinds
            /\ call[r].op = call[r].token.kind
            /\ Exists(u) /\ u \in Requests
            /\ row.email = users[u].email
            /\ IF call[r].op = "verify"
               THEN row.is_verified /\ row.password = users[u].password
               ELSE row.is_verified = users[u].is_verified /\ row.password = r
            /\ users' = [users EXCEPT ![u] = row]
            /\ UNCHANGED <<mailed, call>>
    BY <1>2, <2>a, CommitEffect
  <2>2. users'[u] = row /\ \A v \in Requests \ {u} : users'[v] = users[v]
    BY <2>1 DEF IInv, TypeOK
  <2>3. AccountOf(u) = [email |-> users[u].email, password |-> users[u].password,
                        verified |-> users[u].is_verified, open |-> TRUE]
    BY <2>1 DEF AccountOf
  <2>4. AccountOf(u)' = [email |-> users[u].email, password |-> row.password,
                         verified |-> row.is_verified, open |-> TRUE]
    BY <2>1, <2>2, NoneAssumption DEF AccountOf, Exists
  <2>5. \A v \in Requests \ {u} : AccountOf(v)' = AccountOf(v)
    BY <2>1, <2>2 DEF AccountOf, Exists
  <2>6. AccountOf(u) # None
    BY <2>1, AccountType DEF Exists
  <2>7. PICK l \in mailed : l.token = call[r].token
    BY <2>1 DEF IInv, PresentedInv, CommitToken
  <2>8. l.to = AccountOf(u).email
    BY <2>a, <2>1, <2>6, <2>7, AccountType DEF IInv, MailInv
  <2>9. <<AccountOf(u).email, call[r].op, u>> \in
            {<<k.to, k.token.kind, k.token.sub>> : k \in mailed}
    BY <2>a, <2>1, <2>7, <2>8
  <2>10. CASE call[r].op = "verify"
    <3>1. AccountOf(u)' = [email |-> users[u].email, password |-> users[u].password,
                           verified |-> TRUE, open |-> TRUE]
      <4>1. row.is_verified = TRUE
        BY <2>1, <2>10 DEF User
      <4> QED
        BY <2>1, <2>4, <2>10, <4>1
    <3>2. AccountOf(u)' = Promise!Opened(AccountOf(u).email, AccountOf(u).password, TRUE)
      BY <2>3, <3>1 DEF Promise!Opened
    <3>3. Promise!IsOpen(u) /\ Promise!Received(u, "verify")
      BY <2>1, <2>3, <2>6, <2>9, <2>10 DEF Promise!IsOpen, Promise!Received
    <3>4. [v \in Requests |-> AccountOf(v)]' =
              [[v \in Requests |-> AccountOf(v)] EXCEPT ![u] = AccountOf(u)']
      BY <2>1, <2>5
    <3>5. Promise!Verify(u)
      <4>1. [v \in Requests |-> AccountOf(v)][u] = AccountOf(u)
        BY <2>1
      <4> QED
        BY <2>1, <3>2, <3>3, <3>4, <4>1 DEF Promise!Verify
    <3> QED
      BY <2>a, <3>5
  <2>11. CASE call[r].op = "reset"
    <3>1. AccountOf(u)' = [email |-> users[u].email, password |-> r,
                           verified |-> users[u].is_verified, open |-> TRUE]
      BY <2>1, <2>4, <2>11
    <3>2. AccountOf(u)' = Promise!Opened(AccountOf(u).email, r, AccountOf(u).verified)
      BY <2>3, <3>1 DEF Promise!Opened
    <3>3. Promise!IsOpen(u) /\ Promise!Received(u, "reset")
      BY <2>1, <2>3, <2>6, <2>9, <2>11 DEF Promise!IsOpen, Promise!Received
    <3>4. [v \in Requests |-> AccountOf(v)]' =
              [[v \in Requests |-> AccountOf(v)] EXCEPT ![u] = AccountOf(u)']
      BY <2>1, <2>5
    <3>5. Promise!ChangePassword(u, r)
      <4>1. [v \in Requests |-> AccountOf(v)][u] = AccountOf(u)
        BY <2>1
      <4> QED
        BY <2>1, <3>2, <3>3, <3>4, <4>1 DEF Promise!ChangePassword
    <3> QED
      BY <2>a, <3>5
  <2> QED
    BY <2>1, <2>10, <2>11 DEF Kinds
<1> QED
  BY <1>1, <1>2

LEMMA DeleteCloses ==
    ASSUME IInv, NEW u \in Requests, DeleteUser(u)
    PROVE  Promise!Close(u)
<1>1. /\ Exists(u)
      /\ users' = [users EXCEPT ![u] = Gone]
      /\ UNCHANGED <<mailed, call>>
  BY DEF DeleteUser
<1>2. users'[u] = Gone /\ \A v \in Requests \ {u} : users'[v] = users[v]
  BY <1>1 DEF IInv, TypeOK
<1>3. AccountOf(u) # None /\ AccountOf(u).open /\ AccountOf(u).email = call[u].email
  BY <1>1, AccountType DEF Exists
<1>4. AccountOf(u)' = [email |-> AccountOf(u).email, open |-> FALSE]
  BY <1>1, <1>2, <1>3 DEF AccountOf, Exists
<1>5. \A v \in Requests \ {u} : AccountOf(v)' = AccountOf(v)
  BY <1>1, <1>2 DEF AccountOf, Exists
<1> QED
  BY <1>1, <1>3, <1>4, <1>5 DEF Promise!Close, Promise!Closed, Promise!IsOpen

LEMMA StepImplements == IInv /\ [Next]_vars => [Promise!Next]_(Promise!vars)
<1> SUFFICES ASSUME IInv, [Next]_vars PROVE [Promise!Next]_(Promise!vars)
  OBVIOUS
<1>1. ASSUME NEW r \in Requests, InsertUser(r) PROVE [Promise!Next]_(Promise!vars)
  BY <1>1, InsertOpens DEF Promise!Next
<1>2. ASSUME NEW r \in Requests, SendEmail(r) PROVE [Promise!Next]_(Promise!vars)
  <2>1. PICK u \in Requests, kind \in {"verify", "reset"} :
            u = issued[r].sub /\ kind = issued[r].kind
    BY <1>2 DEF SendEmail, IInv, IssuedInv, Token, Kinds
  <2>2. Promise!Write(u, kind)
    BY <1>2, <2>1, SendWrites DEF Promise!Write
  <2> QED
    BY <2>2 DEF Promise!Next
<1>3. ASSUME NEW r \in Requests, CommitToken(r) PROVE [Promise!Next]_(Promise!vars)
  <2>1. call[r].token.sub \in Requests
    BY <1>3 DEF CommitToken, IInv, StageInv, Call, Token, Kinds
  <2> QED
    BY <1>3, <2>1, CommitActs DEF Promise!Next
<1>4. ASSUME NEW r \in Requests, DeleteUser(r) PROVE [Promise!Next]_(Promise!vars)
  BY <1>4, DeleteCloses DEF Promise!Next
<1>5. ASSUME NEW r \in Requests, NEW c, NEW label, Arrive(r, label, c)
      PROVE  [Promise!Next]_(Promise!vars)
  <2>1. \A u \in Requests : users[u] # None => call'[u] = call[u]
    BY <1>5 DEF Arrive, IInv, TypeOK, UserInv
  <2> QED
    BY <1>5, <2>1, Unseen DEF Arrive, db
<1>6. CASE UNCHANGED <<users, mailed, call>>
  BY <1>6, Unseen
<1> QED
  BY <1>1, <1>2, <1>3, <1>4, <1>5, <1>6
     DEF Next, Serve, ArriveWithEmail, ArriveWithToken, Lookup, IssueVerification,
         StoreToken, DecodeToken, SelectToken, SelectUser, Fail, Tick, Quiescent, vars, db

\* The endpoints keep what Accounts promises the owner of an address: one open
\* account per address, letters to it alone, and no verification and no password
\* change but by a reader of those letters.
THEOREM RecoveryImplementsAccounts == Spec => ImplementsAccounts
<1>1. Init => Promise!Init
  <2> SUFFICES ASSUME Init PROVE Promise!Init
    OBVIOUS
  <2>1. \A u \in Requests : AccountOf(u) = None
    BY NoneAssumption DEF Init, AccountOf, Exists
  <2>2. {<<l.to, l.token.kind, l.token.sub>> : l \in mailed} = {}
    BY DEF Init
  <2> QED
    BY <2>1, <2>2 DEF Promise!Init
<1> QED
  BY <1>1, StepImplements, AlwaysIInv, PTL DEF Spec, ImplementsAccounts, Promise!Spec
=============================================================================
